------------------------- MODULE FileTransferProofs -------------------------
(***************************************************************************)
(* Theorems about FileTransfer, for any number of calls, any files, any    *)
(* interference and any overlap of the packers:                            *)
(*   - no call leaves a temporary file behind, except one that was killed  *)
(*     or met an error that nothing cleans up after;                       *)
(*   - every variable keeps its type;                                      *)
(*   - what unpackers that do not overlap deliver appears whole, was       *)
(*     packed, and is left alone: FileTransfer implements AtomicDelivery;  *)
(*   - an unpacker accepts every whole artifact of packed content whose    *)
(*     beginning it has read, and a packer that nobody disturbs puts exactly*)
(*     the artifact of its source in place, for every length of content,   *)
(*     every chunk size and however reads and writes are buffered.         *)
(***************************************************************************)
EXTENDS MCFileTransfer, TLAPS, FiniteSetTheorems, SequenceTheorems,
        WellFoundedInduction

\* The locals of the calls are what the code declares, and dir has the names.
PackerLocals(r) ==
  /\ DOMAIN r = {"pc", "header", "read", "written", "dst", "buffer"}
  /\ r = [k \in DOMAIN r |-> r[k]]
UnpackerLocals(r) ==
  /\ DOMAIN r = {"pc", "header", "src", "read", "dst", "out", "index", "written"}
  /\ r = [k \in DOMAIN r |-> r[k]]

Shape ==
  /\ DOMAIN dir = Names /\ dir = [n \in Names |-> dir[n]]
  /\ packer = [p \in Packers |-> packer[p]]
  /\ unpacker = [u \in Unpackers |-> unpacker[u]]
  /\ \A p \in Packers : PackerLocals(packer[p])
  /\ \A u \in Unpackers : UnpackerLocals(unpacker[u])

\* Who may have left a temporary file: a call that has opened it and will
\* remove or rename it, or one that was killed or stranded.
PacksThere(p) ==
  packer[p].pc \in {"writing", "closing", "replacing", "killed", "stranded"}
UnpacksTo(u, n) ==
  \/ unpacker[u].pc \in {"verifying", "replacing"} /\ unpacker[u].out = n
  \/ unpacker[u].pc \in {"killed", "stranded"}

PackingOwned == dir[Packing] # NoFile => \E p \in Packers : PacksThere(p)
UnpackingOwned ==
  \A n \in 1..Outputs :
    dir[Unpacking(n)] # NoFile => \E u \in Unpackers : UnpacksTo(u, n)

Owned == Shape /\ PackingOwned /\ UnpackingOwned

\* No two of the names in the directories are the same file.
LEMMA NamesDiffer ==
  /\ Packing \in Names /\ Artifact \in Names /\ Received \in Names
  /\ \A n \in 1..Outputs : Unpacking(n) \in Names /\ Output(n) \in Names
  /\ Packing # Artifact /\ Packing # Received
  /\ \A n : Unpacking(n) # Packing /\ Unpacking(n) # Artifact
              /\ Unpacking(n) # Received /\ Output(n) # Packing
  /\ \A n, k : Unpacking(n) # Output(k)
  /\ \A n, k : n # k => Unpacking(n) # Unpacking(k)
BY DEF Names, Packing, Artifact, Received, Unpacking, Output

\* At the start no temporary file is there.
LEMMA OwnedInit == Init => Owned
<1> SUFFICES ASSUME Init PROVE Owned
  OBVIOUS
<1>1. Shape
  BY DEF Init, Shape, NotPacking, NotUnpacking, PackerLocals, UnpackerLocals
<1>2. PackingOwned /\ UnpackingOwned
  BY NamesDiffer DEF Init, PackingOwned, UnpackingOwned
<1> QED
  BY <1>1, <1>2 DEF Owned

\* A step that touches no names but these.
TouchesOnly(names) ==
  /\ dir' = [n \in Names |-> dir'[n]]
  /\ \A n \in Names \ names : dir'[n] = dir[n]

\* A step of one packer: the temporary file is there after it only if the
\* packer will remove it, or if it was there and is not the packer's business.
PackerMoves(p) ==
  /\ UNCHANGED unpacker
  /\ \E r : PackerLocals(r) /\ packer' = [packer EXCEPT ![p] = r]
  /\ TouchesOnly({Packing, Artifact})
  /\ dir'[Packing] # NoFile =>
       PacksThere(p)' \/ (dir[Packing] # NoFile /\ ~PacksThere(p))

\* Every step of a packer, those that fail and a kill included, is such a step.
LEMMA PackerSteps ==
  ASSUME Shape, NEW p \in Packers, PackStep(p) \/ PackFails(p)
  PROVE  PackerMoves(p)
<1> USE DEF PackerMoves, TouchesOnly
<1>0. /\ PackerLocals(packer[p])
      /\ \A pc : PackerLocals(NotPacking(pc)) /\ NotPacking(pc).pc = pc
      /\ \A r : [packer EXCEPT ![p] = r][p] = r
      /\ dir = [n \in Names |-> dir[n]]
  BY DEF Shape, NotPacking, PackerLocals
<1>1. CASE BeginPack(p)
  <2>1. ~PacksThere(p) /\ dir' = dir /\ unpacker' = unpacker
    BY <1>1 DEF BeginPack, PacksThere
  <2>2. CASE PackStops(p, "failed")
    BY <1>0, NamesDiffer, <2>1, <2>2 DEF PackStops
  <2>3. CASE packer' = [packer EXCEPT ![p].pc = "opening",
                          ![p].header = Header(p, Len(source), PackChunkSize[p])]
    <3> DEFINE r == [packer[p] EXCEPT !.pc = "opening",
                       !.header = Header(p, Len(source), PackChunkSize[p])]
    <3>1. packer' = [packer EXCEPT ![p] = r]
      BY <2>3
    <3>2. PackerLocals(r)
      BY <1>0 DEF PackerLocals
    <3> HIDE DEF r
    <3> QED
      BY <1>0, NamesDiffer, <2>1, <3>1, <3>2
  <2> QED
    BY <1>1, <2>2, <2>3 DEF BeginPack
<1>2. CASE OpenPacking(p)
  <2> DEFINE i == Created(Packing)
             b == <<HeaderFrame(Secret[p], packer[p].header)>>
             r == [packer[p] EXCEPT !.pc = "writing", !.dst = i, !.buffer = b]
  <2>1. /\ packer' = [packer EXCEPT ![p] = r] /\ unpacker' = unpacker
        /\ dir' = [dir EXCEPT ![Packing] = i]
    BY <1>2 DEF OpenPacking
  <2>2. PackerLocals(r) /\ r.pc = "writing"
    BY <1>0 DEF PackerLocals
  <2> HIDE DEF i, r
  <2>3. PacksThere(p)'
    BY <1>0, NamesDiffer, <2>1, <2>2 DEF PacksThere
  <2> QED
    BY <1>0, NamesDiffer, <2>1, <2>2, <2>3
<1>3. CASE PackChunk(p) \/ FlushPacking(p) \/ EndOfSource(p)
  <2>1. UNCHANGED <<dir, unpacker>> /\ PacksThere(p)
    BY <1>3 DEF PackChunk, FlushPacking, EndOfSource, PacksThere
  <2>2. \E r : /\ packer' = [packer EXCEPT ![p] = r]
               /\ PackerLocals(r) /\ r.pc \in {packer[p].pc, "closing"}
    <3>1. CASE PackChunk(p)
      <4> DEFINE h == packer[p].header
                 n == packer[p].written
                 t == IF n = 0 THEN HeaderTag(p) ELSE ChunkTag(p, n - 1)
                 r == [packer[p] EXCEPT !.written = n + 1,
                         !.read = packer[p].read \o NextPiece(p),
                         !.buffer = Append(packer[p].buffer,
                                      ChunkFrame(Secret[p], h, n, t, NextPiece(p)))]
      <4>1. packer' = [packer EXCEPT ![p] = r]
        BY <3>1 DEF PackChunk
      <4>2. PackerLocals(r) /\ r.pc = packer[p].pc
        BY <1>0 DEF PackerLocals
      <4> HIDE DEF r
      <4> QED
        BY <4>1, <4>2
    <3>2. CASE FlushPacking(p)
      <4>1. PICK k : packer' = [packer EXCEPT ![p].buffer =
                                  SubSeq(packer[p].buffer, k + 1, Len(packer[p].buffer))]
        BY <3>2 DEF FlushPacking
      <4> DEFINE r == [packer[p] EXCEPT !.buffer =
                         SubSeq(packer[p].buffer, k + 1, Len(packer[p].buffer))]
      <4>2. packer' = [packer EXCEPT ![p] = r]
        BY <4>1
      <4>3. PackerLocals(r) /\ r.pc = packer[p].pc
        BY <1>0 DEF PackerLocals
      <4> HIDE DEF r
      <4> QED
        BY <4>2, <4>3
    <3>3. CASE EndOfSource(p)
      <4> DEFINE r == [packer[p] EXCEPT !.pc = "closing"]
      <4>1. packer' = [packer EXCEPT ![p] = r]
        BY <3>3 DEF EndOfSource
      <4>2. PackerLocals(r) /\ r.pc = "closing"
        BY <1>0 DEF PackerLocals
      <4> HIDE DEF r
      <4> QED
        BY <4>1, <4>2
    <3> QED
      BY <1>3, <3>1, <3>2, <3>3
  <2> QED
    BY <1>0, NamesDiffer, <2>1, <2>2 DEF PacksThere
<1>4. CASE ClosePacking(p)
  <2>1. PacksThere(p) /\ unpacker' = unpacker
    BY <1>4 DEF ClosePacking, PacksThere
  <2>2. CASE CountMatches(p)
    <3> DEFINE r == [packer[p] EXCEPT !.pc = "replacing", !.dst = NoFile]
    <3>1. packer' = [packer EXCEPT ![p] = r] /\ dir' = dir
      BY <1>4, <2>2 DEF ClosePacking
    <3>2. PackerLocals(r) /\ r.pc = "replacing"
      BY <1>0 DEF PackerLocals
    <3> HIDE DEF r
    <3> QED
      BY <1>0, NamesDiffer, <2>1, <3>1, <3>2 DEF PacksThere
  <2>3. CASE ~CountMatches(p)
    BY <1>0, NamesDiffer, <1>4, <2>1, <2>3 DEF ClosePacking, PackStops, Unlinked
  <2> QED
    BY <2>2, <2>3
<1>5. CASE ReplaceArtifact(p)
  BY <1>0, NamesDiffer, <1>5 DEF ReplaceArtifact, PackStops, Renamed
<1>6. CASE PackIOError(p)
  BY <1>0, NamesDiffer, <1>6 DEF PackIOError, PackStops, Unlinked
<1>7. CASE PackStrands(p) \/ KillPack(p)
  <2>1. PICK pc \in {"stranded", "killed"} :
          /\ packer' = [packer EXCEPT ![p] = NotPacking(pc)]
          /\ dir' = dir /\ unpacker' = unpacker
    BY <1>7 DEF PackStrands, KillPack, PackStops
  <2> QED
    BY <1>0, NamesDiffer, <2>1 DEF PacksThere
<1> QED
  BY <1>1, <1>2, <1>3, <1>4, <1>5, <1>6, <1>7 DEF PackStep, PackFails

\* A step of one unpacker, in the same terms for each temporary name.
UnpackerMoves(u) ==
  /\ UNCHANGED packer
  /\ \E r : UnpackerLocals(r) /\ unpacker' = [unpacker EXCEPT ![u] = r]
  /\ dir' = [n \in Names |-> dir'[n]] /\ dir'[Packing] = dir[Packing]
  /\ \A n \in 1..Outputs : dir'[Unpacking(n)] # NoFile =>
       UnpacksTo(u, n)' \/ (dir[Unpacking(n)] # NoFile /\ ~UnpacksTo(u, n))

\* A failing unpacker removes the one temporary file it may have.
LEMMA FailMoves ==
  ASSUME Shape, NEW u \in Unpackers, Fails(u), UNCHANGED packer,
         unpacker[u].pc \in {"opening", "verifying", "replacing"}
  PROVE  UnpackerMoves(u)
<1>1. /\ unpacker' = [unpacker EXCEPT ![u] = NotUnpacking("failed")]
      /\ dir' = [dir EXCEPT ![Unpacking(unpacker[u].out)] = NoFile]
  BY DEF Fails, UnpackStops, Unlinked
<1>2. UnpackerLocals(NotUnpacking("failed")) /\ dir = [n \in Names |-> dir[n]]
  BY DEF NotUnpacking, UnpackerLocals, Shape
<1> QED
  BY <1>1, <1>2, NamesDiffer DEF UnpackerMoves, UnpacksTo

\* A step that leaves the directory alone, by an unpacker that goes on.
LEMMA QuietMoves ==
  ASSUME Shape, NEW u \in Unpackers, UNCHANGED <<packer, dir>>,
         NEW r, UnpackerLocals(r), unpacker' = [unpacker EXCEPT ![u] = r],
         \/ /\ unpacker[u].pc \in {"verifying", "replacing"}
            /\ r.pc \in {"verifying", "replacing"} /\ r.out = unpacker[u].out
         \/ unpacker[u].pc \in {"idle", "resolving", "opening"}
         \/ r.pc \in {"killed", "stranded"}
  PROVE  UnpackerMoves(u)
<1>1. unpacker'[u] = r /\ dir = [n \in Names |-> dir[n]]
  BY DEF Shape
<1> QED
  BY <1>1 DEF UnpackerMoves, UnpacksTo

\* Every step of an unpacker is what UnpackerMoves says.
LEMMA UnpackerSteps ==
  ASSUME Shape, NEW u \in Unpackers,
         UnpackStep(u) \/ UnpackFails(u)
  PROVE  UnpackerMoves(u)
<1>9. UnpackerLocals(unpacker[u])
  BY DEF Shape
<1>0. /\ UnpackerLocals(unpacker[u])
      /\ \A pc : UnpackerLocals(NotUnpacking(pc)) /\ NotUnpacking(pc).pc = pc
      /\ \A r : [unpacker EXCEPT ![u] = r][u] = r
      /\ dir = [n \in Names |-> dir[n]]
  BY DEF Shape, NotUnpacking, UnpackerLocals
<1>1. CASE BeginUnpack(u)
  <2>1. unpacker[u].pc = "idle" /\ UNCHANGED <<packer, dir>>
    BY <1>1 DEF BeginUnpack
  <2>2. CASE UnpackStops(u, "failed")
    BY <1>0, <2>1, <2>2, QuietMoves DEF UnpackStops
  <2>3. ASSUME NEW i, NEW k, HeaderRead(u, i, k) PROVE UnpackerMoves(u)
    <3> DEFINE h == data[i][1].plain[1]
               taken == SubSeq(data[i], 1, k)
               r == [unpacker[u] EXCEPT !.pc = "resolving", !.src = i,
                                        !.read = taken, !.header = h]
    <3>0. unpacker' = [unpacker EXCEPT ![u].pc = "resolving", ![u].src = i,
                                       ![u].read = taken, ![u].header = h]
      BY <2>3 DEF HeaderRead
    <3> HIDE DEF h, taken
    <3>1. unpacker' = [unpacker EXCEPT ![u] = r]
      BY <3>0, <1>0
    <3>2. UnpackerLocals(r)
      BY <1>9 DEF UnpackerLocals
    <3> HIDE DEF r
    <3> QED
      BY <2>1, <3>1, <3>2, QuietMoves
  <2> QED
    BY <1>1, <2>2, <2>3 DEF BeginUnpack
<1>2. CASE ResolveOutput(u)
  <2>1. PICK n \in 1..Outputs :
          unpacker' = [unpacker EXCEPT ![u].pc = "opening", ![u].out = n]
    BY <1>2 DEF ResolveOutput
  <2> DEFINE r == [unpacker[u] EXCEPT !.pc = "opening", !.out = n]
  <2>2. unpacker' = [unpacker EXCEPT ![u] = r]
    BY <2>1
  <2>3. UnpackerLocals(r)
    BY <1>9 DEF UnpackerLocals
  <2>4. unpacker[u].pc = "resolving" /\ UNCHANGED <<packer, dir>>
    BY <1>2 DEF ResolveOutput
  <2> HIDE DEF r
  <2> QED
    BY <2>2, <2>3, <2>4, QuietMoves
<1>3. CASE OpenUnpacking(u)
  <2> DEFINE name == Unpacking(unpacker[u].out)
             i == Created(name)
             r == [unpacker[u] EXCEPT !.pc = "verifying", !.dst = i]
  <2>1. /\ unpacker' = [unpacker EXCEPT ![u] = r] /\ packer' = packer
        /\ dir' = [dir EXCEPT ![name] = i] /\ unpacker[u].pc = "opening"
    BY <1>3 DEF OpenUnpacking
  <2>2. UnpackerLocals(r) /\ r.pc = "verifying" /\ r.out = unpacker[u].out
    BY <1>9 DEF UnpackerLocals
  <2> HIDE DEF i, r
  <2> QED
    BY <1>0, <2>1, <2>2, NamesDiffer DEF UnpackerMoves, UnpacksTo
<1>4. CASE VerifyChunk(u) \/ ReadFrames(u)
  <2>1. UNCHANGED <<packer, dir>> /\ unpacker[u].pc = "verifying"
    BY <1>4 DEF VerifyChunk, ReadFrames
  <2>2. CASE VerifyChunk(u)
    <3> DEFINE k == unpacker[u].index
               plain == unpacker[u].read[k + 2].plain
               r == [unpacker[u] EXCEPT !.index = k + 1,
                                        !.written = unpacker[u].written + Len(plain)]
    <3>1. unpacker' = [unpacker EXCEPT ![u] = r]
      BY <2>2 DEF VerifyChunk
    <3>2. UnpackerLocals(r) /\ r.pc = unpacker[u].pc /\ r.out = unpacker[u].out
      BY <1>9 DEF UnpackerLocals
    <3> HIDE DEF r
    <3> QED
      BY <2>1, <3>1, <3>2, QuietMoves
  <2>3. CASE ReadFrames(u)
    <3>1. PICK taken : unpacker' = [unpacker EXCEPT ![u].read = taken]
      BY <2>3 DEF ReadFrames
    <3> DEFINE r == [unpacker[u] EXCEPT !.read = taken]
    <3>2. unpacker' = [unpacker EXCEPT ![u] = r]
      BY <3>1
    <3>3. UnpackerLocals(r) /\ r.pc = unpacker[u].pc /\ r.out = unpacker[u].out
      BY <1>9 DEF UnpackerLocals
    <3> HIDE DEF r
    <3> QED
      BY <2>1, <3>2, <3>3, QuietMoves
  <2> QED
    BY <1>4, <2>2, <2>3
<1>5. CASE RejectChunk(u) \/ UnpackIOError(u)
  BY <1>5, FailMoves DEF RejectChunk, UnpackIOError
<1>6. CASE EndOfChunks(u)
  <2>1. CASE EndsExactly(u)
    <3> DEFINE r == [unpacker[u] EXCEPT !.pc = "replacing", !.src = NoFile,
                                        !.dst = NoFile]
    <3>1. /\ unpacker' = [unpacker EXCEPT ![u] = r] /\ UNCHANGED <<packer, dir>>
          /\ unpacker[u].pc = "verifying"
      BY <1>6, <2>1 DEF EndOfChunks
    <3>2. UnpackerLocals(r) /\ r.pc = "replacing" /\ r.out = unpacker[u].out
      BY <1>9 DEF UnpackerLocals
    <3> HIDE DEF r
    <3> QED
      BY <3>1, <3>2, QuietMoves
  <2>2. CASE ~EndsExactly(u)
    BY <1>6, <2>2, FailMoves DEF EndOfChunks
  <2> QED
    BY <2>1, <2>2
<1>7. CASE ReplaceOutput(u)
  <2> DEFINE n == unpacker[u].out
  <2>1. CASE dir[Unpacking(n)] # NoFile
    <3> DEFINE i == dir[Unpacking(n)]
               r == NotUnpacking("done")
    <3>1. /\ unpacker' = [unpacker EXCEPT ![u] = r]
          /\ dir' = [dir EXCEPT ![Output(n)] = i,
                                ![Unpacking(n)] = NoFile]
          /\ packer' = packer /\ unpacker[u].pc = "replacing"
      BY <1>7, <2>1 DEF ReplaceOutput, UnpackStops, Renamed
    <3>2. UnpackerLocals(r) /\ r.pc = "done"
      BY <1>0
    <3>3. n = unpacker[u].out
      BY DEF n
    <3> HIDE DEF i, r, n
    <3>4. unpacker'[u] = r
      BY <1>0, <3>1
    <3>5. /\ dir' = [m \in Names |-> dir'[m]] /\ dir'[Packing] = dir[Packing]
          /\ \A k \in 1..Outputs : dir'[Unpacking(k)] # NoFile =>
               k # n /\ dir[Unpacking(k)] # NoFile
      BY <1>0, <3>1, NamesDiffer
    <3>6. \A k : ~UnpacksTo(u, k)' /\ (k # n => ~UnpacksTo(u, k))
      BY <3>1, <3>2, <3>3, <3>4 DEF UnpacksTo
    <3> QED
      BY <3>1, <3>2, <3>5, <3>6 DEF UnpackerMoves
  <2>2. CASE dir[Unpacking(n)] = NoFile
    BY <1>7, <2>2, FailMoves DEF ReplaceOutput
  <2> QED
    BY <2>1, <2>2
<1>8. CASE UnpackStrands(u) \/ KillUnpack(u)
  BY <1>0, <1>8, QuietMoves DEF UnpackStrands, KillUnpack, UnpackStops
<1> QED
  BY <1>1, <1>2, <1>3, <1>4, <1>5, <1>6, <1>7, <1>8 DEF UnpackStep, UnpackFails

\* Every temporary file stays owned by a call that will take it away.
LEMMA OwnedStep == Owned /\ [Next]_vars => Owned'
<1> SUFFICES ASSUME Owned, [Next]_vars PROVE Owned'
  OBVIOUS
<1> USE DEF Owned
<1>1. ASSUME NEW p \in Packers, PackerMoves(p) PROVE Owned'
  <2>1. PICK r : PackerLocals(r) /\ packer' = [packer EXCEPT ![p] = r]
    BY <1>1 DEF PackerMoves
  <2>2. UNCHANGED unpacker /\ TouchesOnly({Packing, Artifact})
    BY <1>1 DEF PackerMoves
  <2>3. Shape'
    BY <2>1, <2>2 DEF Shape, TouchesOnly
  <2>4. \A q \in Packers \ {p} : PacksThere(q)' <=> PacksThere(q)
    BY <2>1 DEF Shape, PacksThere
  <2>5. PackingOwned'
    BY <1>1, <2>4 DEF PackerMoves, PackingOwned
  <2>6. \A n \in 1..Outputs : dir'[Unpacking(n)] = dir[Unpacking(n)]
    BY <2>2, NamesDiffer DEF TouchesOnly
  <2>7. UnpackingOwned'
    BY <2>2, <2>6 DEF UnpackingOwned, UnpacksTo
  <2> QED
    BY <2>3, <2>5, <2>7
<1>2. ASSUME NEW u \in Unpackers, UnpackerMoves(u) PROVE Owned'
  <2>1. PICK r : UnpackerLocals(r) /\ unpacker' = [unpacker EXCEPT ![u] = r]
    BY <1>2 DEF UnpackerMoves
  <2>2. /\ UNCHANGED packer
        /\ dir' = [n \in Names |-> dir'[n]] /\ dir'[Packing] = dir[Packing]
    BY <1>2 DEF UnpackerMoves
  <2>3. Shape'
    BY <2>1, <2>2 DEF Shape
  <2>4. \A v \in Unpackers \ {u}, n \in 1..Outputs :
          UnpacksTo(v, n)' <=> UnpacksTo(v, n)
    BY <2>1 DEF Shape, UnpacksTo
  <2>5. UnpackingOwned'
    BY <1>2, <2>4 DEF UnpackerMoves, UnpackingOwned
  <2>6. PackingOwned'
    BY <2>2 DEF PackingOwned, PacksThere
  <2> QED
    BY <2>3, <2>5, <2>6
<1>3. CASE EditSource \/ Arrive
  <2>1. UNCHANGED <<packer, unpacker>>
    BY <1>3 DEF EditSource, Arrive
  <2>2. PICK i : dir' = dir \/ dir' = [dir EXCEPT ![Received] = i]
    BY <1>3 DEF EditSource, Arrive
  <2>3. Shape' /\ PackingOwned' /\ UnpackingOwned'
    BY <2>1, <2>2, NamesDiffer
    DEF Shape, PackingOwned, UnpackingOwned, PacksThere, UnpacksTo
  <2> QED
    BY <2>3
<1>4. CASE UNCHANGED vars
  BY <1>4
  DEF vars, Shape, PackingOwned, UnpackingOwned, PacksThere, UnpacksTo
<1> QED
  BY <1>1, <1>2, <1>3, <1>4, PackerSteps, UnpackerSteps DEF Next

\* A temporary file is there only while a call is running, or because one was
\* killed, or met an error that nothing cleans up after: a call that ends in
\* any other way, in success or in failure, leaves none.
THEOREM NothingLeftOver == Spec => []NoLeftovers
<1>1. Owned => NoLeftovers
  BY DEF Owned, PackingOwned, UnpackingOwned, PacksThere, UnpacksTo,
         NoLeftovers, Active, Ended
<1> QED
  BY <1>1, OwnedInit, OwnedStep, PTL DEF Spec

-----------------------------------------------------------------------------
(* Types *)

\* What is under these names, and what is read or written as one, is an
\* artifact; the other files are outputs.
ArtifactNames == {Artifact, Packing, Received}
OutputNames == {Output(n) : n \in 1..Outputs} \cup {Unpacking(n) : n \in 1..Outputs}
HoldsArtifact(i) ==
  \/ \E n \in ArtifactNames : dir[n] = i
  \/ \E p \in Packers : packer[p].dst = i
  \/ \E u \in Unpackers : unpacker[u].src = i
HoldsOutput(i) ==
  \/ \E n \in OutputNames : dir[n] = i
  \/ \E u \in Unpackers : unpacker[u].dst = i

\* Every name is of one of the two kinds.
LEMMA NamesSplit == Names = ArtifactNames \cup OutputNames
BY DEF Names, ArtifactNames, OutputNames

\* The inodes in use are those of the two kinds.
LEMMA UsedFiles ==
  /\ \A i : i \in Named \cup Open <=> HoldsArtifact(i) \/ HoldsOutput(i)
  /\ \A i : i \in Named' \cup Open' <=> HoldsArtifact(i)' \/ HoldsOutput(i)'
BY NamesSplit DEF Named, Open, HoldsArtifact, HoldsOutput

\* A finite set of n elements at most.
Bounded(S, n) == IsFiniteSet(S) /\ n \in Nat /\ Cardinality(S) <= n

\* Bounds on one element, an image and a union.
LEMMA SingletonBound == ASSUME NEW e PROVE Bounded({e}, 1)
BY FS_Singleton, 1 <= 1 DEF Bounded

\* An image has no more elements than the set.
LEMMA ImageBound ==
  ASSUME NEW S, NEW n, Bounded(S, n), NEW f
  PROVE  Bounded({f[e] : e \in S}, n)
<1> DEFINE T == {f[e] : e \in S}
           g == [e \in S |-> f[e]]
<1>1. g \in Surjection(S, T)
  BY DEF Surjection
<1>2. IsFiniteSet(T) /\ Cardinality(T) <= Cardinality(S)
  BY <1>1, FS_Surjection DEF Bounded
<1> QED
  BY <1>2, FS_CardinalityType DEF Bounded

\* A union has no more elements than its parts together.
LEMMA UnionBound ==
  ASSUME NEW S, NEW T, NEW a, NEW b, Bounded(S, a), Bounded(T, b)
  PROVE  Bounded(S \cup T, a + b)
<1>1. /\ IsFiniteSet(S \cup T)
      /\ Cardinality(S \cup T) = Cardinality(S) + Cardinality(T) - Cardinality(S \cap T)
      /\ IsFiniteSet(S \cap T)
  BY FS_Union, FS_Intersection DEF Bounded
<1>2. Cardinality(S) \in Nat /\ Cardinality(T) \in Nat /\ Cardinality(S \cap T) \in Nat
  BY <1>1, FS_CardinalityType DEF Bounded
<1> QED
  BY <1>1, <1>2 DEF Bounded

\* There are fewer names and open files than inodes.
LEMMA InodeFree == \E i \in Inodes : i \notin Named \cup Open
<1> DEFINE Out == {Output(n) : n \in 1..Outputs}
           Tmp == {Unpacking(n) : n \in 1..Outputs}
           Src == {unpacker[u].src : u \in Unpackers}
           Dst == {unpacker[u].dst : u \in Unpackers}
           Pck == {packer[p].dst : p \in Packers}
           Three == ({Artifact} \cup {Packing}) \cup {Received}
           P == Cardinality(Packers)
           U == Cardinality(Unpackers)
<1>1. Outputs \in Nat /\ P \in Nat /\ U \in Nat
  BY FilesOK, InodesSuffice, FS_CardinalityType
<1>2. Bounded(Packers, P) /\ Bounded(Unpackers, U)
  BY <1>1, InodesSuffice DEF Bounded
<1>3. Bounded(1..Outputs, Outputs)
  <2>1. /\ IsFiniteSet(1..Outputs)
        /\ Cardinality(1..Outputs) = IF 1 > Outputs THEN 0 ELSE Outputs - 1 + 1
    <3>1. 1 \in Int /\ Outputs \in Int
      BY <1>1
    <3> QED
      BY <3>1, FS_Interval, Zenon
  <2> QED
    BY <1>1, <2>1 DEF Bounded
<1>4. Bounded(Out, Outputs) /\ Bounded(Tmp, Outputs)
  <2>1. /\ Out = {[i \in 1..Outputs |-> Output(i)][n] : n \in 1..Outputs}
        /\ Tmp = {[i \in 1..Outputs |-> Unpacking(i)][n] : n \in 1..Outputs}
    OBVIOUS
  <2> HIDE DEF Out, Tmp
  <2> QED
    BY <1>3, <2>1, ImageBound
<1>5. Bounded(Src, U) /\ Bounded(Dst, U) /\ Bounded(Pck, P)
  <2>1. /\ Src = {[v \in Unpackers |-> unpacker[v].src][u] : u \in Unpackers}
        /\ Dst = {[v \in Unpackers |-> unpacker[v].dst][u] : u \in Unpackers}
        /\ Pck = {[q \in Packers |-> packer[q].dst][p] : p \in Packers}
    OBVIOUS
  <2> HIDE DEF Src, Dst, Pck
  <2> QED
    BY <1>2, <2>1, ImageBound
<1>6. Bounded(Three, (1 + 1) + 1)
  BY SingletonBound, UnionBound
<1>7. Names = (Three \cup Out) \cup Tmp /\ Open = (Pck \cup Src) \cup Dst
  BY DEF Names, Open
<1>8. Named = {dir[n] : n \in Names}
  BY DEF Named
<1> HIDE DEF Out, Tmp, Src, Dst, Pck, Three, P, U
<1> DEFINE used == ((((1 + 1) + 1) + Outputs) + Outputs) + ((P + U) + U)
<1>9. Bounded(Named \cup Open, used)
  <2>1. Bounded(Named, (((1 + 1) + 1) + Outputs) + Outputs)
    BY <1>4, <1>6, <1>7, <1>8, ImageBound, UnionBound
  <2>2. Bounded(Open, (P + U) + U)
    BY <1>5, <1>7, UnionBound
  <2> QED
    BY <2>1, <2>2, UnionBound
<1>10. Cardinality(Inodes) > used /\ IsFiniteSet(Inodes)
  BY <1>1, InodesSuffice DEF P, U
<1> HIDE DEF used
<1>11. ~(Inodes \subseteq Named \cup Open)
  <2> SUFFICES ASSUME Inodes \subseteq Named \cup Open PROVE FALSE
    OBVIOUS
  <2>1. Cardinality(Inodes) <= Cardinality(Named \cup Open)
    BY <1>9, FS_Subset DEF Bounded
  <2>2. Cardinality(Inodes) \in Nat /\ Cardinality(Named \cup Open) \in Nat
    BY <1>9, <1>10, FS_CardinalityType DEF Bounded
  <2> QED
    BY <1>9, <1>10, <2>1, <2>2 DEF Bounded
<1> QED
  BY <1>11

\* What open(name, "wb") writes is the file there, or an unused inode.
LEMMA CreatedFile ==
  ASSUME dir \in [Names -> Files], NEW name \in Names
  PROVE  /\ Created(name) \in Inodes
         /\ \/ dir[name] = Created(name)
            \/ ~HoldsArtifact(Created(name)) /\ ~HoldsOutput(Created(name))
BY InodeFree, UsedFiles DEF Created, Files

\* After Store, the files in use have the content given.
LEMMA Stored ==
  ASSUME NEW content, Store(content)
  PROVE  /\ DOMAIN data' = Inodes
         /\ \A i \in Inodes : HoldsArtifact(i)' \/ HoldsOutput(i)' => data'[i] = content[i]
BY UsedFiles DEF Store

\* The same when one file is written.
LEMMA StoredWith ==
  ASSUME DOMAIN data = Inodes, NEW i \in Inodes, NEW new,
         Store([data EXCEPT ![i] = new])
  PROVE  /\ DOMAIN data' = Inodes
         /\ \A j \in Inodes : HoldsArtifact(j)' \/ HoldsOutput(j)' =>
              data'[j] = IF j = i THEN new ELSE data[j]
<1> DEFINE content == [data EXCEPT ![i] = new]
<1>1. \A j \in Inodes : content[j] = IF j = i THEN new ELSE data[j]
  OBVIOUS
<1>2. Store(content)
  OBVIOUS
<1> HIDE DEF content
<1> QED
  BY <1>1, <1>2, Stored

-----------------------------------------------------------------------------
\* The pieces of artifacts.
Frames ==
  {Damaged}
  \cup {HeaderFrame(Secret[h.fileId], h) : h \in Headers}
  \cup {ChunkFrame(Secret[h.fileId], h, n, t, c) :
          h \in Headers, n \in Nat, t \in Packers \X Int, c \in Seq(Bytes)}

\* The locals of the calls, and what each stage of a call has.
PackerRecords ==
  [pc : Ended \cup {"opening", "writing", "closing", "replacing"},
   header : Headers \cup {NoHeader}, read : Seq(Bytes), written : Nat, dst : Files,
   buffer : Seq(Frames)]
UnpackerRecords ==
  [pc : Ended \cup {"resolving", "opening", "verifying", "replacing"},
   header : Headers \cup {NoHeader}, src : Files, read : Seq(Frames), dst : Files,
   out : 0..Outputs, index : Nat, written : Nat]

PackerTyped(p, r) ==
  /\ r \in PackerRecords
  /\ Len(r.buffer) <= r.written + 1
  /\ Active(r) => r.header \in Headers /\ r.header.fileId = p
  /\ r.pc \in {"writing", "closing"} => r.dst \in Inodes
UnpackerTyped(r) ==
  /\ r \in UnpackerRecords
  /\ r.pc \in {"resolving", "opening", "verifying"} => r.header \in Headers /\ r.src \in Inodes
  /\ r.pc \in {"opening", "verifying", "replacing"} => r.out \in 1..Outputs
  /\ IF r.pc = "verifying" THEN r.dst \in Inodes ELSE r.dst = NoFile

Types ==
  /\ source \in Seq(Bytes) /\ sealed \subseteq Seq(Bytes) /\ events \in 0..MaxEvents
  /\ dir \in [Names -> Files] /\ DOMAIN data = Inodes
  /\ DOMAIN packer = Packers /\ DOMAIN unpacker = Unpackers
  /\ packer = [p \in Packers |-> packer[p]]
  /\ unpacker = [u \in Unpackers |-> unpacker[u]]
  /\ \A p \in Packers : PackerTyped(p, packer[p])
  /\ \A u \in Unpackers : UnpackerTyped(unpacker[u])

\* No file is an artifact to one and an output to another; what is read as an
\* artifact consists of frames.
Contents ==
  \A i \in Inodes :
    /\ ~(HoldsArtifact(i) /\ HoldsOutput(i))
    /\ HoldsArtifact(i) => data[i] \in Seq(Frames)

FilesInv == Types /\ Contents

\* Types is the type invariant, in parts.
LEMMA TypesImply == Types => TypeOK
<1> SUFFICES ASSUME Types PROVE TypeOK
  OBVIOUS
<1>1. ASSUME NEW p \in Packers
      PROVE  /\ [packer[p] EXCEPT !.buffer = Len(@)] \in
                  [pc : Ended \cup {"opening", "writing", "closing", "replacing"},
                   header : Headers \cup {NoHeader}, read : Seq(Bytes), written : Nat,
                   dst : Files, buffer : 0..(packer[p].written + 1)]
             /\ packer[p].pc \in {"writing", "closing"} => packer[p].dst \in Inodes
  <2>1. /\ packer[p] \in PackerRecords /\ Len(packer[p].buffer) <= packer[p].written + 1
        /\ packer[p].pc \in {"writing", "closing"} => packer[p].dst \in Inodes
    BY DEF Types, PackerTyped
  <2>2. Len(packer[p].buffer) \in Nat /\ packer[p].written \in Nat
    BY <2>1 DEF PackerRecords
  <2>3. Len(packer[p].buffer) \in 0..(packer[p].written + 1)
    BY <2>1, <2>2
  <2> QED
    BY <2>1, <2>3 DEF PackerRecords
<1>2. ASSUME NEW u \in Unpackers
      PROVE  /\ [unpacker[u] EXCEPT !.read = Len(@)] \in
                  [pc : Ended \cup {"resolving", "opening", "verifying", "replacing"},
                   header : Headers \cup {NoHeader}, src : Files, read : Nat,
                   dst : Files, out : 0..Outputs, index : Nat, written : Nat]
             /\ unpacker[u].pc = "verifying" =>
                  {unpacker[u].src, unpacker[u].dst} \subseteq Inodes
  <2>1. /\ unpacker[u] \in UnpackerRecords
        /\ unpacker[u].pc = "verifying" =>
             {unpacker[u].src, unpacker[u].dst} \subseteq Inodes
    BY DEF Types, UnpackerTyped
  <2>2. Len(unpacker[u].read) \in Nat
    BY <2>1 DEF UnpackerRecords
  <2> QED
    BY <2>1, <2>2 DEF UnpackerRecords
<1> QED
  BY <1>1, <1>2 DEF Types, TypeOK

\* The locals of a call that has not begun or has ended.
LEMMA StoppedTyped ==
  ASSUME NEW pc \in Ended
  PROVE  /\ \A p \in Packers : PackerTyped(p, NotPacking(pc))
         /\ UnpackerTyped(NotUnpacking(pc))
BY FilesOK DEF NotPacking, NotUnpacking, PackerTyped, UnpackerTyped, PackerRecords,
   UnpackerRecords, Ended, Active, Files

\* The header of a source of any size is a header.
LEMMA HeaderTyped ==
  ASSUME NEW p \in Packers, NEW n \in Nat
  PROVE  Header(p, n, PackChunkSize[p]) \in Headers
<1> DEFINE c == PackChunkSize[p]
<1>1. c \in Nat \ {0}
  BY FilesOK, LimitsOK DEF ChunkSizeValid
<1> HIDE DEF c
<1>2. n + c - 1 \in Nat
  BY <1>1
<1>3. \A a \in Nat : a \div c \in Nat
  BY <1>1
<1>4. ChunkCount(n, c) \in Nat
  BY <1>2, <1>3 DEF ChunkCount
<1> QED
  BY <1>1, <1>4 DEF Header, Headers, c

\* The frame with the associated data of a header holds one.
LEMMA FramesOpen ==
  ASSUME NEW e \in Frames
  PROVE  /\ e.aad = HeaderAad => \E h \in Headers : e.plain = <<h>>
         /\ e.aad # HeaderAad => e.plain \in Seq(Bytes)
<1>1. CASE e = Damaged
  BY <1>1 DEF Damaged, Frame, HeaderAad
<1>2. ASSUME NEW h \in Headers, e = HeaderFrame(Secret[h.fileId], h)
      PROVE  e.aad = HeaderAad /\ e.plain = <<h>>
  BY <1>2 DEF HeaderFrame, Frame
<1>3. ASSUME NEW h \in Headers, NEW n \in Nat, NEW t, NEW c \in Seq(Bytes),
             e = ChunkFrame(Secret[h.fileId], h, n, t, c)
      PROVE  e.aad # HeaderAad /\ e.plain \in Seq(Bytes)
  BY <1>3 DEF ChunkFrame, Frame, HeaderAad, ChunkAad
<1>4. \/ e = Damaged
      \/ \E h \in Headers : e = HeaderFrame(Secret[h.fileId], h)
      \/ \E h \in Headers, n \in Nat, t \in Packers \X Int, c \in Seq(Bytes) :
           e = ChunkFrame(Secret[h.fileId], h, n, t, c)
  BY DEF Frames
<1> QED
  BY <1>1, <1>2, <1>3, <1>4

-----------------------------------------------------------------------------
\* A step that puts no file to another use, and changes none that is in use.
ArtifactsStay ==
  \A i \in Inodes : HoldsArtifact(i)' => HoldsArtifact(i) /\ data'[i] = data[i]
OutputsStay ==
  \A i \in Inodes : HoldsOutput(i)' => HoldsOutput(i) /\ data'[i] = data[i]

\* Such a step keeps what the files are and consist of.
LEMMA ContentsStay ==
  ASSUME Contents, ArtifactsStay, OutputsStay
  PROVE  Contents'
BY DEF Contents, ArtifactsStay, OutputsStay

\* The locals of the calls after a step of one.
LEMMA PackerLocalsTyped ==
  ASSUME Types, NEW p \in Packers, NEW r, packer' = [packer EXCEPT ![p] = r],
         PackerTyped(p, r)
  PROVE  /\ DOMAIN packer' = Packers /\ packer' = [q \in Packers |-> packer'[q]]
         /\ \A q \in Packers : PackerTyped(q, packer'[q])
         /\ packer'[p] = r /\ \A q \in Packers \ {p} : packer'[q] = packer[q]
BY DEF Types

\* The same for the unpackers.
LEMMA UnpackerLocalsTyped ==
  ASSUME Types, NEW u \in Unpackers, NEW r, unpacker' = [unpacker EXCEPT ![u] = r],
         UnpackerTyped(r)
  PROVE  /\ DOMAIN unpacker' = Unpackers
         /\ unpacker' = [v \in Unpackers |-> unpacker'[v]]
         /\ \A v \in Unpackers : UnpackerTyped(unpacker'[v])
         /\ unpacker'[u] = r /\ \A v \in Unpackers \ {u} : unpacker'[v] = unpacker[v]
BY DEF Types

\* Which names are of which kind, and that they are distinct.
LEMMA NamesOfKinds ==
  /\ Artifact \in ArtifactNames /\ Packing \in ArtifactNames /\ Received \in ArtifactNames
  /\ \A n \in 1..Outputs : Output(n) \in OutputNames /\ Unpacking(n) \in OutputNames
  /\ ArtifactNames \cap OutputNames = {}
  /\ \A m, n : Output(m) = Output(n) => m = n
  /\ \A m, n : Unpacking(m) = Unpacking(n) => m = n
  /\ \A m, n : Unpacking(m) # Output(n)
BY DEF ArtifactNames, OutputNames, Artifact, Packing, Received, Output, Unpacking

\* A packer that opens no file, and only renames or removes its own.
LEMMA PackerUses ==
  ASSUME Types, NEW p \in Packers, NEW r, packer' = [packer EXCEPT ![p] = r],
         unpacker' = unpacker, r.dst \in {packer[p].dst, NoFile},
         \/ dir' = dir
         \/ dir' = [dir EXCEPT ![Packing] = NoFile]
         \/ dir' = [dir EXCEPT ![Artifact] = dir[Packing], ![Packing] = NoFile]
  PROVE  /\ \A i \in Inodes : HoldsArtifact(i)' => HoldsArtifact(i)
         /\ \A i \in Inodes : HoldsOutput(i)' => HoldsOutput(i)
         /\ dir' \in [Names -> Files]
<1>1. NoFile \notin Inodes /\ NoFile \in Files
  BY FilesOK DEF Files
<1>2. \A q \in Packers : packer'[q].dst \in {packer[q].dst, NoFile}
  BY DEF Types
<1>3. \A n \in ArtifactNames : dir'[n] \in {dir[n], dir[Packing], NoFile}
  BY NamesOfKinds, NamesSplit DEF Types
<1>4. \A n \in OutputNames : dir'[n] = dir[n]
  BY NamesOfKinds, NamesSplit DEF Types
<1>5. \A i \in Inodes : HoldsArtifact(i)' => HoldsArtifact(i)
  BY <1>1, <1>2, <1>3, NamesOfKinds DEF HoldsArtifact
<1>6. \A i \in Inodes : HoldsOutput(i)' => HoldsOutput(i)
  BY <1>4 DEF HoldsOutput
<1>7. dir' \in [Names -> Files]
  BY <1>1, NamesOfKinds, NamesSplit DEF Types
<1> QED
  BY <1>5, <1>6, <1>7

\* An unpacker that reads no other artifact than before and opens no output.
LEMMA UnpackerUses ==
  ASSUME Types, NEW u \in Unpackers, NEW r, unpacker' = [unpacker EXCEPT ![u] = r],
         packer' = packer, r.dst \in {unpacker[u].dst, NoFile},
         r.src \in {unpacker[u].src, NoFile} \cup {dir[n] : n \in ArtifactNames},
         \/ dir' = dir
         \/ \E n \in 1..Outputs :
              \/ dir' = [dir EXCEPT ![Unpacking(n)] = NoFile]
              \/ dir' = [dir EXCEPT ![Output(n)] = dir[Unpacking(n)],
                                    ![Unpacking(n)] = NoFile]
  PROVE  /\ \A i \in Inodes : HoldsArtifact(i)' => HoldsArtifact(i)
         /\ \A i \in Inodes : HoldsOutput(i)' => HoldsOutput(i)
         /\ dir' \in [Names -> Files]
<1>1. NoFile \notin Inodes /\ NoFile \in Files
  BY FilesOK DEF Files
<1>2. /\ \A v \in Unpackers : unpacker'[v].dst \in {unpacker[v].dst, NoFile}
      /\ \A v \in Unpackers :
           unpacker'[v].src \in {unpacker[v].src, NoFile} \cup {dir[n] : n \in ArtifactNames}
  BY DEF Types
<1>3. \A n \in ArtifactNames : dir'[n] = dir[n]
  BY NamesOfKinds, NamesSplit DEF Types
<1>4. \A n \in OutputNames : dir'[n] \in {dir[m] : m \in OutputNames} \cup {NoFile}
  BY NamesOfKinds, NamesSplit DEF Types
<1>5. \A i \in Inodes : HoldsArtifact(i)' => HoldsArtifact(i)
  BY <1>1, <1>2, <1>3 DEF HoldsArtifact
<1>6. \A i \in Inodes : HoldsOutput(i)' => HoldsOutput(i)
  BY <1>1, <1>2, <1>4 DEF HoldsOutput
<1>7. dir' \in [Names -> Files]
  BY <1>1, NamesOfKinds, NamesSplit DEF Types
<1> QED
  BY <1>5, <1>6, <1>7

-----------------------------------------------------------------------------
\* The steps of a packer that write nothing: it begins, has read or written
\* everything, or ends, its temporary file renamed, removed or left.
PlainPack(p, r) ==
  /\ packer' = [packer EXCEPT ![p] = r]
  /\ UNCHANGED <<source, unpacker, sealed>> /\ events' \in 0..MaxEvents
  /\ \/ dir' = dir
     \/ dir' = [dir EXCEPT ![Packing] = NoFile]
     \/ dir' = [dir EXCEPT ![Artifact] = dir[Packing], ![Packing] = NoFile]
  /\ data' = data \/ Store(data)
  /\ PackerTyped(p, r) /\ r.dst \in {packer[p].dst, NoFile}
  /\ r.buffer \in {packer[p].buffer, <<>>}
  /\ \/ /\ packer[p].pc = "idle" /\ r.pc = "opening"
        /\ r.header.totalSize <= MaxFileSize
        /\ r.read = packer[p].read /\ r.written = packer[p].written
     \/ /\ packer[p].pc \in {"writing", "closing"} /\ r.pc \in {"closing", "replacing"}
        /\ r.header = packer[p].header
        /\ r.read = packer[p].read /\ r.written = packer[p].written
     \/ r.pc \in {"done", "failed", "killed", "stranded"}

\* A packer that ends takes a plain step.
LEMMA PackerEnds ==
  ASSUME Types, NEW p \in Packers, NEW pc \in {"done", "failed", "killed", "stranded"},
         PackStops(p, pc),
         UNCHANGED <<source, unpacker, sealed>>, events' \in 0..MaxEvents,
         data' = data \/ Store(data),
         \/ dir' = dir
         \/ dir' = [dir EXCEPT ![Packing] = NoFile]
         \/ dir' = [dir EXCEPT ![Artifact] = dir[Packing], ![Packing] = NoFile]
  PROVE  \E r : PlainPack(p, r)
<1> DEFINE r == NotPacking(pc)
<1>1. packer' = [packer EXCEPT ![p] = r]
  BY DEF PackStops
<1>2. PackerTyped(p, r) /\ r.pc = pc /\ r.dst = NoFile /\ r.buffer = <<>>
  BY StoppedTyped DEF NotPacking, Ended
<1> HIDE DEF r
<1>3. PlainPack(p, r)
  BY <1>1, <1>2 DEF PlainPack
<1> QED
  BY <1>3

\* All steps of a packer but those that open or write a file are plain.
LEMMA PackerPlain ==
  ASSUME Types, NEW p \in Packers,
         \/ BeginPack(p) \/ EndOfSource(p) \/ ClosePacking(p) \/ ReplaceArtifact(p)
         \/ PackFails(p)
  PROVE  \E r : PlainPack(p, r)
<1>0. events \in 0..MaxEvents /\ PackerTyped(p, packer[p]) /\ MaxEvents \in Nat
  BY FilesOK DEF Types
<1>1. CASE BeginPack(p)
  <2>1. /\ packer[p].pc = "idle"
        /\ UNCHANGED <<source, dir, data, unpacker, sealed, events>>
    BY <1>1 DEF BeginPack
  <2>2. CASE PackStops(p, "failed")
    BY <1>0, <2>1, <2>2, PackerEnds
  <2>3. CASE Len(source) <= MaxFileSize
    <3> DEFINE h == Header(p, Len(source), PackChunkSize[p])
               r == [packer[p] EXCEPT !.pc = "opening", !.header = h]
    <3>0. Len(source) \in Nat
      BY DEF Types
    <3>1. h \in Headers /\ h.fileId = p /\ h.totalSize = Len(source)
      BY <3>0, HeaderTyped DEF Header
    <3>2. packer' = [packer EXCEPT ![p].pc = "opening", ![p].header = h]
      BY <1>1, <2>3, <3>0, LimitsOK DEF BeginPack
    <3> HIDE DEF h
    <3>3. packer' = [packer EXCEPT ![p] = r]
      BY <3>2
    <3>4. /\ PackerTyped(p, r) /\ r.dst = packer[p].dst
          /\ r.pc = "opening" /\ r.header = h /\ r.buffer = packer[p].buffer
          /\ r.read = packer[p].read /\ r.written = packer[p].written
      BY <1>0, <3>1 DEF PackerTyped, PackerRecords, Active, Ended
    <3> HIDE DEF r
    <3>5. PlainPack(p, r)
      BY <1>0, <2>1, <2>3, <3>1, <3>3, <3>4 DEF PlainPack
    <3> QED
      BY <3>5
  <2>4. Len(source) \in Nat /\ MaxFileSize \in Nat
    BY LimitsOK DEF Types
  <2>5. Len(source) > MaxFileSize => PackStops(p, "failed")
    BY <1>1 DEF BeginPack
  <2>6. Len(source) > MaxFileSize \/ Len(source) <= MaxFileSize
    BY <2>4
  <2> QED
    BY <2>2, <2>3, <2>5, <2>6
<1>2. CASE EndOfSource(p)
  <2>1. /\ packer[p].pc = "writing"
        /\ UNCHANGED <<source, dir, data, unpacker, sealed, events>>
    BY <1>2 DEF EndOfSource
  <2> DEFINE r == [packer[p] EXCEPT !.pc = "closing"]
  <2>2. packer' = [packer EXCEPT ![p] = r]
    BY <1>2 DEF EndOfSource
  <2>3. /\ PackerTyped(p, r) /\ r.dst = packer[p].dst /\ r.buffer = packer[p].buffer
        /\ r.pc = "closing" /\ r.header = packer[p].header
        /\ r.read = packer[p].read /\ r.written = packer[p].written
    BY <1>0, <2>1 DEF PackerTyped, PackerRecords, Active, Ended
  <2> HIDE DEF r
  <2>4. PlainPack(p, r)
    BY <1>0, <2>1, <2>2, <2>3 DEF PlainPack
  <2> QED
    BY <2>4
<1>5. CASE ClosePacking(p)
  <2>1. /\ packer[p].pc = "closing" /\ packer[p].buffer = <<>>
        /\ UNCHANGED <<source, unpacker, sealed, events>> /\ Store(data)
    BY <1>5 DEF ClosePacking
  <2>2. CASE CountMatches(p)
    <3> DEFINE r == [packer[p] EXCEPT !.pc = "replacing", !.dst = NoFile]
    <3>1. packer' = [packer EXCEPT ![p] = r] /\ dir' = dir
      BY <1>5, <2>2 DEF ClosePacking
    <3>2. /\ PackerTyped(p, r) /\ r.dst = NoFile /\ r.buffer = packer[p].buffer
          /\ r.pc = "replacing" /\ r.header = packer[p].header
          /\ r.read = packer[p].read /\ r.written = packer[p].written
      BY <1>0, <2>1 DEF PackerTyped, PackerRecords, Active, Ended, Files
    <3> HIDE DEF r
    <3>3. PlainPack(p, r)
      BY <1>0, <2>1, <3>1, <3>2 DEF PlainPack
    <3> QED
      BY <3>3
  <2>3. CASE ~CountMatches(p)
    BY <1>0, <1>5, <2>1, <2>3, PackerEnds DEF ClosePacking, Unlinked
  <2> QED
    BY <2>2, <2>3
<1>3. CASE ReplaceArtifact(p)
  BY <1>0, <1>3, PackerEnds DEF ReplaceArtifact, Renamed
<1>4. CASE PackFails(p)
  <2>1. events' \in 0..MaxEvents
    BY <1>0, <1>4 DEF PackFails, PackIOError, PackStrands, KillPack, Interferes
  <2> QED
    BY <1>4, <2>1, PackerEnds
    DEF PackFails, PackIOError, PackStrands, KillPack, Unlinked
<1> QED
  BY <1>1, <1>2, <1>3, <1>4, <1>5

\* A plain step of a packer keeps the files.
LEMMA PlainPackStays ==
  ASSUME FilesInv, NEW p \in Packers, NEW r, PlainPack(p, r)
  PROVE  /\ FilesInv' /\ ArtifactsStay /\ OutputsStay
         /\ packer'[p] = r /\ \A q \in Packers \ {p} : packer'[q] = packer[q]
<1> USE DEF FilesInv, PlainPack
<1>1. /\ \A i \in Inodes : HoldsArtifact(i)' => HoldsArtifact(i)
      /\ \A i \in Inodes : HoldsOutput(i)' => HoldsOutput(i)
      /\ dir' \in [Names -> Files]
  BY PackerUses
<1>2. ArtifactsStay /\ OutputsStay /\ DOMAIN data' = Inodes
  BY <1>1, Stored DEF ArtifactsStay, OutputsStay, Types
<1>3. Types'
  BY <1>1, <1>2, PackerLocalsTyped DEF Types
<1> QED
  BY <1>2, <1>3, ContentsStay, PackerLocalsTyped

-----------------------------------------------------------------------------
\* What u has read is what it had, and frames of artifacts that are there.
TakesFrames(u, r) ==
  \A S : /\ unpacker[u].read \in Seq(S)
         /\ \A i \in Inodes : HoldsArtifact(i) => data[i] \in Seq(S)
         => r.read \in Seq(S)

\* The steps of an unpacker that write no file: it has opened an artifact, has
\* an output name, reads on, has verified everything, or ends.
PlainUnpack(u, r) ==
  /\ unpacker' = [unpacker EXCEPT ![u] = r]
  /\ UNCHANGED <<source, packer, sealed>> /\ events' \in 0..MaxEvents
  /\ data' = data \/ Store(data)
  /\ UnpackerTyped(r) /\ r.dst \in {unpacker[u].dst, NoFile} /\ TakesFrames(u, r)
  /\ r.pc \in {"resolving", "opening", "verifying"} =>
       r.index = unpacker[u].index /\ r.written = unpacker[u].written
  /\ \/ /\ unpacker[u].pc = "idle" /\ r.pc = "resolving" /\ dir' = dir
        /\ MayBegin(u, Unpackers, unpacker)
        /\ \E n \in {Artifact, Received} : r.src = dir[n]
        /\ r.header = r.read[1].plain[1] /\ r.read # <<>>
        /\ r.read[1].aad = HeaderAad /\ HeaderValid(r.header)
     \/ /\ unpacker[u].pc = "resolving" /\ r.pc = "opening" /\ dir' = dir
        /\ r.src = unpacker[u].src /\ r.header = unpacker[u].header
        /\ r.read = unpacker[u].read
        /\ dir[Output(r.out)] = NoFile
     \/ /\ unpacker[u].pc = "verifying" /\ r.pc = "verifying" /\ dir' = dir
        /\ r.src = unpacker[u].src /\ r.dst = unpacker[u].dst
        /\ r.header = unpacker[u].header /\ r.out = unpacker[u].out
        /\ Len(unpacker[u].read) <= Len(r.read)
        /\ \A k \in 1..Len(unpacker[u].read) : r.read[k] = unpacker[u].read[k]
     \/ /\ unpacker[u].pc = "verifying" /\ r.pc = "replacing" /\ dir' = dir
        /\ r.src = NoFile
        /\ r.header = unpacker[u].header /\ r.out = unpacker[u].out
        /\ unpacker[u].written = unpacker[u].header.totalSize
     \/ /\ r.pc \in {"failed", "killed", "stranded"} /\ r.src = NoFile
        /\ \/ dir' = dir
           \/ /\ unpacker[u].pc \in {"opening", "verifying", "replacing"}
              /\ dir' = Unlinked(Unpacking(unpacker[u].out))
     \/ /\ unpacker[u].pc = "replacing" /\ r.pc = "done" /\ r.src = NoFile
        /\ dir[Unpacking(unpacker[u].out)] # NoFile
        /\ dir' = Renamed(Unpacking(unpacker[u].out), Output(unpacker[u].out))

\* Frames that are taken from a file, from wherever to wherever, are its own.
LEMMA TakenFrom ==
  ASSUME NEW S, NEW content \in Seq(S), NEW i \in Nat, NEW k \in i..Len(content)
  PROVE  /\ SubSeq(content, i + 1, k) \in Seq(S)
         /\ \A old \in Seq(S) : old \o SubSeq(content, i + 1, k) \in Seq(S)
<1>1. \A j \in (i + 1)..k : content[j] \in S
  OBVIOUS
<1>2. SubSeq(content, i + 1, k) \in Seq(S)
  BY <1>1, SubSeqProperties
<1> QED
  BY <1>2, ConcatProperties

\* The locals of an unpacker that ends.
LEMMA UnpackerStopped ==
  ASSUME Types, NEW u \in Unpackers, NEW pc \in {"done", "failed", "killed", "stranded"},
         UnpackStops(u, pc)
  PROVE  \E r : /\ unpacker' = [unpacker EXCEPT ![u] = r]
                /\ UnpackerTyped(r) /\ r.pc = pc /\ r.dst = NoFile /\ r.src = NoFile
                /\ TakesFrames(u, r)
<1> DEFINE r == NotUnpacking(pc)
<1>1. unpacker' = [unpacker EXCEPT ![u] = r]
  BY DEF UnpackStops
<1>2. UnpackerTyped(r) /\ r.pc = pc /\ r.dst = NoFile /\ r.src = NoFile
  BY StoppedTyped DEF NotUnpacking, Ended
<1>3. TakesFrames(u, r)
  BY DEF NotUnpacking, TakesFrames
<1> HIDE DEF r
<1> QED
  BY <1>1, <1>2, <1>3

\* An unpacker that fails takes a plain step.
LEMMA UnpackerFails ==
  ASSUME Types, NEW u \in Unpackers, Fails(u),
         UNCHANGED <<source, packer, sealed>>, events' \in 0..MaxEvents,
         Store(data), unpacker[u].pc \in {"opening", "verifying", "replacing"}
  PROVE  \E r : PlainUnpack(u, r)
BY UnpackerStopped DEF Fails, PlainUnpack

\* All steps of an unpacker but those that open or write a file are plain.
LEMMA UnpackerPlain ==
  ASSUME FilesInv, NEW u \in Unpackers,
         \/ BeginUnpack(u) \/ ResolveOutput(u) \/ ReadFrames(u) \/ RejectChunk(u)
         \/ EndOfChunks(u) \/ ReplaceOutput(u) \/ UnpackFails(u)
  PROVE  \E r : PlainUnpack(u, r)
<1>0. /\ events \in 0..MaxEvents /\ UnpackerTyped(unpacker[u]) /\ MaxEvents \in Nat
      /\ Types
  BY FilesOK DEF FilesInv, Types
<1>1. CASE BeginUnpack(u)
  <2>1. /\ unpacker[u].pc = "idle" /\ MayBegin(u, Unpackers, unpacker)
        /\ UNCHANGED <<source, dir, data, packer, sealed, events>>
    BY <1>1 DEF BeginUnpack
  <2>2. PICK n \in {Artifact, Received} :
          /\ dir[n] # NoFile
          /\ IF HeaderOpens(data[dir[n]], Secret[u])
             THEN \E k \in 1..Len(data[dir[n]]) : HeaderRead(u, dir[n], k)
             ELSE UnpackStops(u, "failed")
    BY <1>1 DEF BeginUnpack
  <2>3. CASE UnpackStops(u, "failed")
    <3>1. PICK r : /\ unpacker' = [unpacker EXCEPT ![u] = r]
                   /\ UnpackerTyped(r) /\ r.pc = "failed"
                   /\ r.dst = NoFile /\ r.src = NoFile /\ TakesFrames(u, r)
      BY <1>0, <2>3, UnpackerStopped
    <3>2. PlainUnpack(u, r)
      BY <1>0, <2>1, <3>1 DEF PlainUnpack
    <3> QED
      BY <3>2
  <2>4. CASE HeaderOpens(data[dir[n]], Secret[u])
    <3>1. PICK i \in Inodes : i = dir[n] /\ HoldsArtifact(i)
      BY <1>0, <2>2, NamesOfKinds, NamesSplit DEF Types, Files, HoldsArtifact
    <3>2. PICK k \in 1..Len(data[i]) : HeaderRead(u, i, k)
      BY <2>2, <2>4, <3>1
    <3>3. data[i] \in Seq(Frames) /\ data[i] # <<>> /\ data[i][1].aad = HeaderAad
      BY <2>4, <3>1 DEF FilesInv, Contents, HeaderOpens, Opens
    <3> DEFINE taken == SubSeq(data[i], 1, k)
               h == data[i][1].plain[1]
               r == [unpacker[u] EXCEPT !.pc = "resolving", !.src = i,
                                        !.read = taken, !.header = h]
    <3>4. /\ \A S : data[i] \in Seq(S) => taken \in Seq(S)
          /\ taken \in Seq(Frames) /\ taken # <<>> /\ taken[1] = data[i][1]
      <4>1. ASSUME NEW S, data[i] \in Seq(S)
            PROVE  taken \in Seq(S) /\ Len(taken) = k /\ taken[1] = data[i][1]
        <5>1. \A j \in 1..k : data[i][j] \in S
          BY <4>1
        <5>2. 1 \in 1..(k - 1 + 1) /\ 1 <= k
          OBVIOUS
        <5>3. /\ taken \in Seq(S) /\ Len(taken) = IF 1 <= k THEN k - 1 + 1 ELSE 0
              /\ \A j \in 1..(k - 1 + 1) : taken[j] = data[i][1 + j - 1]
          BY <5>1, SubSeqProperties
        <5> HIDE DEF taken
        <5> QED
          BY <5>2, <5>3
      <4> HIDE DEF taken
      <4> QED
        BY <3>3, <4>1
    <3>5. h \in Headers
      <4>1. data[i][1] \in Frames
        BY <3>3
      <4> QED
        BY <3>3, <4>1, FramesOpen
    <3>6. unpacker' = [unpacker EXCEPT ![u].pc = "resolving", ![u].src = i,
                                       ![u].read = taken, ![u].header = h]
      BY <3>2 DEF HeaderRead
    <3>7. h = taken[1].plain[1] /\ taken[1].aad = HeaderAad /\ HeaderValid(h)
      BY <2>4, <3>1, <3>3, <3>4 DEF HeaderOpens
    <3> HIDE DEF h, taken
    <3>8. unpacker' = [unpacker EXCEPT ![u] = r]
      BY <3>6
    <3>9. /\ UnpackerTyped(r) /\ r.pc = "resolving" /\ r.src = i /\ r.header = h
          /\ r.dst = NoFile /\ r.read = taken /\ r.dst = unpacker[u].dst
          /\ r.index = unpacker[u].index /\ r.written = unpacker[u].written
      BY <1>0, <2>1, <3>1, <3>4, <3>5 DEF UnpackerTyped, UnpackerRecords, Files
    <3> HIDE DEF r
    <3>10. TakesFrames(u, r)
      BY <3>1, <3>4, <3>9 DEF TakesFrames
    <3>11. PlainUnpack(u, r)
      BY <1>0, <2>1, <3>1, <3>4, <3>7, <3>8, <3>9, <3>10 DEF PlainUnpack
    <3> QED
      BY <3>11
  <2> QED
    BY <2>2, <2>3, <2>4
<1>2. CASE ResolveOutput(u)
  <2>1. PICK n \in 1..Outputs :
          /\ dir[Output(n)] = NoFile
          /\ unpacker' = [unpacker EXCEPT ![u].pc = "opening", ![u].out = n]
    BY <1>2 DEF ResolveOutput, FreeOutput
  <2> DEFINE r == [unpacker[u] EXCEPT !.pc = "opening", !.out = n]
  <2>2. unpacker' = [unpacker EXCEPT ![u] = r]
    BY <2>1
  <2>5. /\ unpacker[u].pc = "resolving"
        /\ UNCHANGED <<source, dir, data, packer, sealed, events>>
    BY <1>2 DEF ResolveOutput
  <2>6. n \in 0..Outputs /\ Outputs \in Nat
    BY FilesOK
  <2>7. /\ unpacker[u] \in UnpackerRecords /\ unpacker[u].dst = NoFile
        /\ unpacker[u].header \in Headers /\ unpacker[u].src \in Inodes
    BY <1>0, <2>5 DEF UnpackerTyped
  <2>8. r \in UnpackerRecords
    BY <2>6, <2>7 DEF UnpackerRecords
  <2>3. /\ UnpackerTyped(r) /\ r.pc = "opening" /\ r.out = n /\ r.dst = NoFile
        /\ r.src = unpacker[u].src /\ r.header = unpacker[u].header
        /\ r.index = unpacker[u].index /\ r.written = unpacker[u].written
        /\ r.read = unpacker[u].read
    <3>1. /\ r.pc = "opening" /\ r.out = n /\ r.dst = NoFile
          /\ r.src = unpacker[u].src /\ r.header = unpacker[u].header
          /\ r.index = unpacker[u].index /\ r.written = unpacker[u].written
          /\ r.read = unpacker[u].read
      BY <2>7 DEF UnpackerRecords
    <3> HIDE DEF r
    <3> QED
      BY <2>7, <2>8, <3>1 DEF UnpackerTyped
  <2> HIDE DEF r
  <2>4. PlainUnpack(u, r)
    BY <1>0, <2>1, <2>2, <2>3, <2>5 DEF PlainUnpack, TakesFrames
  <2> QED
    BY <2>4
<1>8. CASE ReadFrames(u)
  <2>1. /\ unpacker[u].pc = "verifying"
        /\ UNCHANGED <<source, dir, data, packer, sealed, events>>
    BY <1>8 DEF ReadFrames
  <2>2. PICK old, i : old = unpacker[u].read /\ i = unpacker[u].src
    OBVIOUS
  <2>3. PICK k \in (Len(old) + 1)..Len(data[i]) :
          unpacker' = [unpacker EXCEPT ![u].read =
                         old \o SubSeq(data[i], Len(old) + 1, k)]
    BY <1>8, <2>2 DEF ReadFrames
  <2>4. /\ unpacker[u] \in UnpackerRecords /\ i \in Inodes /\ HoldsArtifact(i)
        /\ old \in Seq(Frames)
    BY <1>0, <2>1, <2>2 DEF UnpackerTyped, UnpackerRecords, HoldsArtifact
  <2>5. data[i] \in Seq(Frames)
    BY <2>4 DEF FilesInv, Contents
  <2>6. PICK more : more = old \o SubSeq(data[i], Len(old) + 1, k)
    OBVIOUS
  <2>7. \A S : old \in Seq(S) /\ data[i] \in Seq(S) => more \in Seq(S)
    <3>1. ASSUME NEW S, old \in Seq(S), data[i] \in Seq(S)
          PROVE  old \o SubSeq(data[i], Len(old) + 1, k) \in Seq(S)
      <4>1. Len(old) \in Nat /\ Len(data[i]) \in Nat
        BY <3>1
      <4>2. k \in Len(old)..Len(data[i])
        BY <4>1
      <4> QED
        BY <3>1, <4>1, <4>2, TakenFrom
    <3> QED
      BY <2>6, <3>1
  <2>13. Len(old) <= Len(more) /\ \A j \in 1..Len(old) : more[j] = old[j]
    <3>1. PICK new : new = SubSeq(data[i], Len(old) + 1, k)
      OBVIOUS
    <3>2. new \in Seq(Frames)
      <4>1. Len(old) \in Nat /\ Len(data[i]) \in Nat
        BY <2>4, <2>5
      <4>2. k \in Len(old)..Len(data[i])
        BY <4>1
      <4> QED
        BY <2>5, <3>1, <4>1, <4>2, TakenFrom
    <3>3. /\ Len(old \o new) = Len(old) + Len(new)
          /\ \A j \in 1..(Len(old) + Len(new)) :
               (old \o new)[j] = IF j <= Len(old) THEN old[j] ELSE new[j - Len(old)]
      BY <2>4, <3>2, ConcatProperties
    <3>4. Len(old) \in Nat /\ Len(new) \in Nat /\ more = old \o new
      BY <2>4, <2>6, <3>1, <3>2
    <3> QED
      BY <3>3, <3>4
  <2> DEFINE r == [unpacker[u] EXCEPT !.read = more]
  <2>8. unpacker' = [unpacker EXCEPT ![u] = r]
    BY <2>3, <2>6
  <2>9. more \in Seq(Frames)
    BY <2>4, <2>5, <2>7
  <2>10. /\ UnpackerTyped(r) /\ r.pc = "verifying" /\ r.read = more
         /\ r.src = unpacker[u].src /\ r.dst = unpacker[u].dst
         /\ r.header = unpacker[u].header /\ r.out = unpacker[u].out
         /\ r.index = unpacker[u].index /\ r.written = unpacker[u].written
    BY <1>0, <2>1, <2>4, <2>9 DEF UnpackerTyped, UnpackerRecords
  <2> HIDE DEF r
  <2>11. TakesFrames(u, r)
    BY <2>2, <2>4, <2>7, <2>10 DEF TakesFrames
  <2>12. PlainUnpack(u, r)
    BY <1>0, <2>1, <2>2, <2>8, <2>10, <2>11, <2>13 DEF PlainUnpack
  <2> QED
    BY <2>12
<1>3. CASE RejectChunk(u)
  BY <1>0, <1>3, UnpackerFails DEF RejectChunk
<1>4. CASE EndOfChunks(u)
  <2>1. CASE EndsExactly(u)
    <3> DEFINE r == [unpacker[u] EXCEPT !.pc = "replacing", !.src = NoFile,
                                        !.dst = NoFile]
    <3>1. /\ unpacker' = [unpacker EXCEPT ![u] = r] /\ unpacker[u].pc = "verifying"
          /\ UNCHANGED <<source, packer, sealed, events, dir>> /\ Store(data)
      BY <1>4, <2>1 DEF EndOfChunks
    <3>2. /\ UnpackerTyped(r) /\ r.pc = "replacing" /\ r.dst = NoFile
          /\ r.src = NoFile /\ r.read = unpacker[u].read
          /\ r.out = unpacker[u].out /\ r.header = unpacker[u].header
      BY <1>0, <3>1 DEF UnpackerTyped, UnpackerRecords, Files
    <3> HIDE DEF r
    <3>3. PlainUnpack(u, r)
      BY <1>0, <2>1, <3>1, <3>2 DEF PlainUnpack, EndsExactly, TakesFrames
    <3> QED
      BY <3>3
  <2>2. CASE ~EndsExactly(u)
    BY <1>0, <1>4, <2>2, UnpackerFails DEF EndOfChunks
  <2> QED
    BY <2>1, <2>2
<1>5. CASE ReplaceOutput(u)
  <2>1. CASE dir[Unpacking(unpacker[u].out)] # NoFile
    <3>1. PICK r : /\ unpacker' = [unpacker EXCEPT ![u] = r]
                   /\ UnpackerTyped(r) /\ r.pc = "done"
                   /\ r.dst = NoFile /\ r.src = NoFile /\ TakesFrames(u, r)
      BY <1>0, <1>5, <2>1, UnpackerStopped DEF ReplaceOutput
    <3>2. PlainUnpack(u, r)
      BY <1>0, <1>5, <2>1, <3>1 DEF PlainUnpack, ReplaceOutput
    <3> QED
      BY <3>2
  <2>2. CASE dir[Unpacking(unpacker[u].out)] = NoFile
    BY <1>0, <1>5, <2>2, UnpackerFails DEF ReplaceOutput
  <2> QED
    BY <2>1, <2>2
<1>6. CASE UnpackIOError(u)
  <2>1. events' \in 0..MaxEvents
    BY <1>0, <1>6 DEF UnpackIOError, Interferes
  <2> QED
    BY <1>0, <1>6, <2>1, UnpackerFails DEF UnpackIOError
<1>7. CASE UnpackStrands(u) \/ KillUnpack(u)
  <2>1. events' \in 0..MaxEvents
    BY <1>0, <1>7 DEF UnpackStrands, KillUnpack, Interferes
  <2>2. PICK r : /\ unpacker' = [unpacker EXCEPT ![u] = r]
                 /\ UnpackerTyped(r) /\ r.pc \in {"killed", "stranded"}
                 /\ r.dst = NoFile /\ r.src = NoFile /\ TakesFrames(u, r)
    BY <1>0, <1>7, UnpackerStopped DEF UnpackStrands, KillUnpack
  <2>3. PlainUnpack(u, r)
    BY <1>7, <2>1, <2>2 DEF PlainUnpack, UnpackStrands, KillUnpack
  <2> QED
    BY <2>3
<1> QED
  BY <1>1, <1>2, <1>3, <1>4, <1>5, <1>6, <1>7, <1>8 DEF UnpackFails

\* A plain step of an unpacker keeps the files.
LEMMA PlainUnpackStays ==
  ASSUME FilesInv, NEW u \in Unpackers, NEW r, PlainUnpack(u, r)
  PROVE  /\ FilesInv' /\ ArtifactsStay /\ OutputsStay
         /\ unpacker'[u] = r /\ \A v \in Unpackers \ {u} : unpacker'[v] = unpacker[v]
<1> USE DEF FilesInv
<1>1. /\ unpacker' = [unpacker EXCEPT ![u] = r] /\ UnpackerTyped(r)
      /\ packer' = packer /\ r.dst \in {unpacker[u].dst, NoFile}
      /\ source' = source /\ sealed' = sealed /\ events' \in 0..MaxEvents
      /\ data' = data \/ Store(data)
  BY DEF PlainUnpack
<1>2. r.src \in {unpacker[u].src, NoFile} \cup {dir[n] : n \in ArtifactNames}
  BY NamesOfKinds DEF PlainUnpack
<1>3. \/ dir' = dir
      \/ \E n \in 1..Outputs :
           \/ dir' = [dir EXCEPT ![Unpacking(n)] = NoFile]
           \/ dir' = [dir EXCEPT ![Output(n)] = dir[Unpacking(n)],
                                 ![Unpacking(n)] = NoFile]
  <2>1. unpacker[u].pc \in {"opening", "verifying", "replacing"} =>
          unpacker[u].out \in 1..Outputs
    BY DEF Types, UnpackerTyped
  <2> QED
    BY <2>1 DEF PlainUnpack, Unlinked, Renamed
<1>4. /\ \A i \in Inodes : HoldsArtifact(i)' => HoldsArtifact(i)
      /\ \A i \in Inodes : HoldsOutput(i)' => HoldsOutput(i)
      /\ dir' \in [Names -> Files]
  BY <1>1, <1>2, <1>3, UnpackerUses
<1>5. ArtifactsStay /\ OutputsStay /\ DOMAIN data' = Inodes
  BY <1>1, <1>4, Stored DEF ArtifactsStay, OutputsStay, Types
<1>6. Types'
  BY <1>1, <1>4, <1>5, UnpackerLocalsTyped DEF Types
<1> QED
  BY <1>1, <1>5, <1>6, ContentsStay, UnpackerLocalsTyped

-----------------------------------------------------------------------------
(* Sequences of frames and of bytes *)

\* A function on 1..n is a sequence.
LEMMA FunctionIsSequence ==
  ASSUME NEW S, NEW n \in Nat, NEW f \in [1..n -> S]
  PROVE  f \in Seq(S) /\ Len(f) = n
OBVIOUS

\* A write leaves old elements, new ones and the gap; at the end it appends.
LEMMA Written ==
  ASSUME NEW S, NEW content \in Seq(S), NEW offset \in Nat, NEW piece \in Seq(S),
         NEW gap \in S
  PROVE  /\ WriteAt(content, offset, piece, gap) \in Seq(S)
         /\ offset = Len(content) =>
              WriteAt(content, offset, piece, gap) = content \o piece
<1> DEFINE end == offset + Len(piece)
           n == IF Len(content) > end THEN Len(content) ELSE end
           w == WriteAt(content, offset, piece, gap)
<1>1. /\ Len(content) \in Nat /\ Len(piece) \in Nat /\ end \in Nat /\ n \in Nat
      /\ \A k \in 1..Len(content) : content[k] \in S
      /\ \A k \in 1..Len(piece) : piece[k] \in S
  OBVIOUS
<1>2. w = [k \in 1..n |->
             IF k \in (offset + 1)..end THEN piece[k - offset]
             ELSE IF k <= Len(content) THEN content[k] ELSE gap]
  BY DEF WriteAt
<1>3. \A k \in (offset + 1)..end : k - offset \in 1..Len(piece)
  BY <1>1
<1>4. end = offset + Len(piece) /\ (offset = Len(content) => n = end)
  BY <1>1
<1> HIDE DEF w, n, end
<1>5. w \in [1..n -> S]
  <2>1. ASSUME NEW k \in 1..n
        PROVE  (IF k \in (offset + 1)..end THEN piece[k - offset]
                ELSE IF k <= Len(content) THEN content[k] ELSE gap) \in S
    <3>1. CASE k \in (offset + 1)..end
      BY <1>1, <1>3, <3>1
    <3>2. CASE k \notin (offset + 1)..end /\ k <= Len(content)
      <4>1. k \in 1..Len(content)
        BY <1>1, <3>2
      <4> QED
        BY <1>1, <3>2, <4>1
    <3> QED
      BY <3>1, <3>2
  <2> QED
    BY <1>2, <2>1
<1>6. w \in Seq(S) /\ Len(w) = n
  BY <1>1, <1>5, FunctionIsSequence
<1>7. ASSUME offset = Len(content) PROVE w = content \o piece
  <2> DEFINE cat == content \o piece
  <2>1. /\ cat \in Seq(S) /\ Len(cat) = Len(content) + Len(piece)
        /\ \A k \in 1..(Len(content) + Len(piece)) :
             cat[k] = IF k <= Len(content) THEN content[k] ELSE piece[k - Len(content)]
    BY ConcatProperties
  <2> HIDE DEF cat
  <2>2. Len(w) = Len(cat)
    BY <1>1, <1>4, <1>6, <1>7, <2>1
  <2>3. ASSUME NEW k \in 1..n PROVE w[k] = cat[k]
    BY <1>1, <1>2, <1>4, <1>7, <2>1
  <2>4. w = cat
    BY <1>1, <1>4, <1>6, <2>1, <2>2, <2>3, SeqEqual
  <2> QED
    BY <2>4 DEF cat
<1> QED
  BY <1>6, <1>7 DEF w

\* The way consists of pieces of the two artifacts and damage.
LEMMA OnTheWayOf ==
  ASSUME NEW S, NEW new \in Seq(S), NEW other \in Seq(S), Damaged \in S,
         NEW content \in OnTheWay(new, other)
  PROVE  content \in Seq(S)
<1>1. /\ \A i \in 1..Len(new) : new[i] \in S
      /\ \A i \in 1..Len(other) : other[i] \in S
      /\ Len(new) \in Nat /\ Len(other) \in Nat
  OBVIOUS
<1>2. \A k \in 0..Len(new) : SubSeq(new, 1, k) \in Seq(S)
  BY <1>1, SubSeqProperties
<1>3. \A k \in 1..Len(new) : SubSeq(other, k + 1, Len(other)) \in Seq(S)
  <2>1. \A k \in 1..Len(new) : \A i \in (k + 1)..Len(other) : other[i] \in S
    BY <1>1
  <2> QED
    BY <1>1, <2>1, SubSeqProperties
<1>4. \A k \in 1..Len(new) : [new EXCEPT ![k] = Damaged] \in Seq(S)
  BY ExceptSeq
<1>5. \A j, k \in 2..Len(new) : [new EXCEPT ![k] = new[j], ![j] = new[k]] \in Seq(S)
  OBVIOUS
<1>6. \A k \in 1..Len(new) :
        SubSeq(new, 1, k) \o SubSeq(other, k + 1, Len(other)) \in Seq(S)
  BY <1>1, <1>2, <1>3, ConcatProperties
<1>7. \A k \in 0..(Len(new) - 1) : SubSeq(new, 1, k) \in Seq(S)
  BY <1>1, <1>2
<1>8. \A k \in 1..Len(other) : Append(new, other[k]) \in Seq(S)
  BY <1>1, AppendProperties
<1> DEFINE Cut == {SubSeq(new, 1, k) : k \in 0..(Len(new) - 1)}
           Damage == {[new EXCEPT ![k] = Damaged] : k \in 1..Len(new)}
           Swap == {[new EXCEPT ![k] = new[j], ![j] = new[k]] : j, k \in 2..Len(new)}
           Splice == {SubSeq(new, 1, k) \o SubSeq(other, k + 1, Len(other)) :
                        k \in 1..Len(new)}
           RunOn == {Append(new, other[k]) : k \in 1..Len(other)}
<1>9. content \in {new} \cup Cut \cup Damage \cup Swap \cup Splice \cup RunOn
  <2>1. OnTheWay(new, other) = {new} \cup Cut \cup Damage \cup Swap \cup Splice \cup RunOn
    BY DEF OnTheWay
  <2> HIDE DEF Cut, Damage, Swap, Splice, RunOn
  <2> QED
    BY <2>1
<1>10. Cut \subseteq Seq(S) /\ Damage \subseteq Seq(S)
  BY <1>4, <1>7
<1>11. Swap \subseteq Seq(S)
  BY <1>5
<1>12. Splice \subseteq Seq(S) /\ RunOn \subseteq Seq(S)
  BY <1>6, <1>8
<1> HIDE DEF Cut, Damage, Swap, Splice, RunOn
<1> QED
  BY <1>9, <1>10, <1>11, <1>12

\* A seal adds a content of the size in the header, or none.
LEMMA SealsWhole ==
  ASSUME NEW h \in Headers, NEW content \in Seq(Bytes), Sealing(h, content)
  PROVE  \/ sealed' = sealed /\ Len(content) < h.totalSize
         \/ /\ sealed' = sealed \cup {SubSeq(content, 1, h.totalSize)}
            /\ Len(content) >= h.totalSize
            /\ SubSeq(content, 1, h.totalSize) \in [1..h.totalSize -> Bytes]
            /\ SubSeq(content, 1, h.totalSize) \in Seq(Bytes)
<1>1. h.totalSize \in Nat /\ Len(content) \in Nat
  BY DEF Headers
<1>3. \/ Len(content) >= h.totalSize
      \/ Len(content) < h.totalSize /\ ~(Len(content) >= h.totalSize)
  BY <1>1
<1>2. CASE Len(content) >= h.totalSize
  <2>1. \A i \in 1..h.totalSize : content[i] \in Bytes
    BY <1>1, <1>2
  <2>2. /\ SubSeq(content, 1, h.totalSize) \in Seq(Bytes)
        /\ Len(SubSeq(content, 1, h.totalSize)) = h.totalSize
    BY <1>1, <2>1, SubSeqProperties
  <2>3. \A s : s \in Seq(Bytes) => s \in [1..Len(s) -> Bytes]
    OBVIOUS
  <2>4. SubSeq(content, 1, h.totalSize) \in [1..h.totalSize -> Bytes]
    BY <2>2, <2>3
  <2> QED
    BY <1>2, <2>2, <2>4 DEF Sealing
<1> QED
  BY <1>2, <1>3 DEF Sealing

\* What is sealed are bytes.
LEMMA SealsTyped ==
  ASSUME NEW h \in Headers, NEW content \in Seq(Bytes), Sealing(h, content),
         sealed \subseteq Seq(Bytes)
  PROVE  sealed' \subseteq Seq(Bytes)
<1>1. \/ sealed' = sealed
      \/ \E c \in Seq(Bytes) : sealed' = sealed \cup {c}
  BY SealsWhole
<1> QED
  BY <1>1

\* A packer reads bytes.
LEMMA PieceTyped ==
  ASSUME Types, NEW p \in Packers, packer[p].pc = "writing"
  PROVE  NextPiece(p) \in Seq(Bytes)
<1> DEFINE from == Len(packer[p].read)
           size == packer[p].header.chunkSize
           to == IF from + size < Len(source) THEN from + size ELSE Len(source)
<1>1. from \in Nat /\ size \in Nat /\ Len(source) \in Nat
  <2>1. PackerTyped(p, packer[p]) /\ source \in Seq(Bytes)
    BY DEF Types
  <2>2. packer[p].read \in Seq(Bytes)
    BY <2>1 DEF PackerTyped, PackerRecords
  <2>3. packer[p].header \in Headers
    BY <2>1 DEF PackerTyped, Active, Ended
  <2>4. packer[p].header.chunkSize \in Nat
    BY <2>3 DEF Headers
  <2> QED
    BY <2>1, <2>2, <2>4
<1>2. to \in Int /\ to <= Len(source)
  BY <1>1
<1>3. NextPiece(p) = SubSeq(source, from + 1, to)
  BY DEF NextPiece
<1>4. \A i \in 1..Len(source) : source[i] \in Bytes
  BY DEF Types
<1> HIDE DEF from, size, to
<1>5. \A i \in (from + 1)..to : source[i] \in Bytes
  BY <1>1, <1>2, <1>4
<1> QED
  BY <1>1, <1>2, <1>3, <1>5, SubSeqProperties

-----------------------------------------------------------------------------
(* The steps that write *)

\* The file i now holds new; the other files of its kind stay.
ArtifactWritten(i, new) ==
  /\ i \in Inodes
  /\ \A j \in Inodes : HoldsArtifact(j)' =>
       IF j = i THEN data'[j] = new ELSE HoldsArtifact(j) /\ data'[j] = data[j]
OutputWritten(i, new) ==
  /\ i \in Inodes
  /\ \A j \in Inodes : HoldsOutput(j)' =>
       IF j = i THEN data'[j] = new ELSE HoldsOutput(j) /\ data'[j] = data[j]

\* Artifacts made of pieces of a kind stay so when such a one is written.
LEMMA ArtifactsOf ==
  ASSUME NEW S, \A i \in Inodes : HoldsArtifact(i) => data[i] \in Seq(S),
         \/ ArtifactsStay
         \/ \E i, new : ArtifactWritten(i, new) /\ new \in Seq(S)
  PROVE  \A i \in Inodes : HoldsArtifact(i)' => data'[i] \in Seq(S)
BY DEF ArtifactsStay, ArtifactWritten

\* An artifact is written with frames.
LEMMA ContentsAfterArtifact ==
  ASSUME Contents, NEW i, NEW new \in Seq(Frames), ArtifactWritten(i, new),
         OutputsStay, ~HoldsOutput(i)
  PROVE  Contents'
BY DEF Contents, ArtifactWritten, OutputsStay

\* An output is written with whatever.
LEMMA ContentsAfterOutput ==
  ASSUME Contents, NEW i, NEW new, OutputWritten(i, new), ArtifactsStay,
         ~HoldsArtifact(i)
  PROVE  Contents'
BY DEF Contents, OutputWritten, ArtifactsStay

\* What a packer seals under its header are frames.
LEMMA FrameTyped ==
  ASSUME NEW p \in Packers, NEW h \in Headers, h.fileId = p
  PROVE  /\ HeaderFrame(Secret[p], h) \in Frames /\ Damaged \in Frames
         /\ \A n \in Nat, t \in Packers \X Int, c \in Seq(Bytes) :
              ChunkFrame(Secret[p], h, n, t, c) \in Frames
BY DEF Frames

\* open() of the temporary file of a packer: it is no output, and empty; the
\* header is in the buffer.
LEMMA OpenPackingWrites ==
  ASSUME FilesInv, NEW p \in Packers, OpenPacking(p)
  PROVE  \E i \in Inodes :
           /\ ArtifactWritten(i, <<>>)
           /\ OutputsStay /\ ~HoldsOutput(i) /\ FilesInv'
           /\ packer' = [packer EXCEPT ![p] =
                           [packer[p] EXCEPT !.pc = "writing", !.dst = i,
                              !.buffer = <<HeaderFrame(Secret[p], packer[p].header)>>]]
           /\ dir' = [dir EXCEPT ![Packing] = i]
<1> USE DEF FilesInv
<1> DEFINE i == Created(Packing)
           frames == <<HeaderFrame(Secret[p], packer[p].header)>>
           r == [packer[p] EXCEPT !.pc = "writing", !.dst = i, !.buffer = frames]
<1>1. /\ packer[p].pc = "opening" /\ UNCHANGED <<source, unpacker, events>>
      /\ packer' = [packer EXCEPT ![p] = r]
      /\ dir' = [dir EXCEPT ![Packing] = i]
      /\ Store([data EXCEPT ![i] = <<>>]) /\ Sealing(packer[p].header, <<>>)
  BY DEF OpenPacking
<1>2. Packing \in Names /\ NoFile \notin Inodes
  BY NamesDiffer, FilesOK
<1>3. /\ i \in Inodes
      /\ dir[Packing] = i \/ (~HoldsArtifact(i) /\ ~HoldsOutput(i))
  BY <1>2, CreatedFile DEF Types
<1> HIDE DEF i
<1>4. ~HoldsOutput(i)
  BY <1>3, NamesOfKinds DEF Contents, HoldsArtifact
<1>5. /\ packer[p] \in PackerRecords /\ packer[p].header \in Headers
      /\ packer[p].header.fileId = p
  BY <1>1 DEF Types, PackerTyped, Active, Ended
<1>8. frames \in Seq(Frames) /\ Len(frames) = 1
  BY <1>5, FrameTyped
<1>17. frames = <<HeaderFrame(Secret[p], packer[p].header)>>
  OBVIOUS
<1> HIDE DEF frames
<1>6. /\ PackerTyped(p, r) /\ r.dst = i
  <2>1. packer[p].written \in Nat
    BY <1>5 DEF PackerRecords
  <2>2. 1 <= packer[p].written + 1
    BY <2>1
  <2>3. r \in PackerRecords /\ r.pc = "writing" /\ r.dst = i
        /\ r.header = packer[p].header /\ r.buffer = frames
        /\ r.written = packer[p].written
    BY <1>3, <1>5, <1>8 DEF PackerRecords, Files
  <2> HIDE DEF r
  <2> QED
    BY <1>3, <1>5, <1>8, <2>2, <2>3 DEF PackerTyped
<1>7. i = Created(Packing)
  BY DEF i
<1>16. r = [packer[p] EXCEPT !.pc = "writing", !.dst = i, !.buffer = frames]
  OBVIOUS
<1> HIDE DEF r
<1>9. /\ DOMAIN packer' = Packers /\ packer' = [q \in Packers |-> packer'[q]]
      /\ \A q \in Packers : PackerTyped(q, packer'[q])
      /\ packer'[p] = r /\ \A q \in Packers \ {p} : packer'[q] = packer[q]
  BY <1>1, <1>6, PackerLocalsTyped
<1>10. \A j \in Inodes : HoldsArtifact(j)' => j = i \/ HoldsArtifact(j)
  <2>1. \A n \in ArtifactNames : dir'[n] \in {dir[n], i}
    BY <1>1, <1>2, NamesSplit DEF Types
  <2>2. \A q \in Packers : packer'[q].dst \in {packer[q].dst, i}
    BY <1>6, <1>9
  <2> QED
    BY <1>1, <2>1, <2>2 DEF HoldsArtifact
<1>11. \A j \in Inodes : HoldsOutput(j)' => HoldsOutput(j) /\ j # i
  <2>1. \A n \in OutputNames : dir'[n] = dir[n]
    BY <1>1, NamesOfKinds, NamesSplit DEF Types
  <2> QED
    BY <1>1, <1>4, <2>1 DEF HoldsOutput
<1>12. /\ DOMAIN data' = Inodes
       /\ \A j \in Inodes : HoldsArtifact(j)' \/ HoldsOutput(j)' =>
            data'[j] = IF j = i THEN <<>> ELSE data[j]
  BY <1>1, <1>3, StoredWith DEF Types
<1>13. ArtifactWritten(i, <<>>) /\ OutputsStay
  BY <1>3, <1>10, <1>11, <1>12 DEF ArtifactWritten, OutputsStay
<1>14. Contents'
  <2>1. <<>> \in Seq(Frames)
    OBVIOUS
  <2> QED
    BY <1>4, <1>13, <2>1, ContentsAfterArtifact
<1>15. Types'
  <2>1. dir' \in [Names -> Files]
    BY <1>1, <1>2, <1>3 DEF Types, Files
  <2>2. sealed' \subseteq Seq(Bytes)
    <3>1. <<>> \in Seq(Bytes)
      OBVIOUS
    <3> QED
      BY <1>1, <1>5, <3>1, SealsTyped DEF Types
  <2> QED
    BY <1>1, <1>9, <1>12, <2>1, <2>2 DEF Types
<1> QED
  BY <1>1, <1>3, <1>4, <1>13, <1>14, <1>15, <1>16, <1>17

\* The next piece is sealed as a frame; some of the buffer goes to the file.
Buffers(p, n, frame) ==
  /\ frame \in Frames /\ ArtifactsStay /\ OutputsStay /\ FilesInv' /\ dir' = dir
  /\ packer' = [packer EXCEPT ![p] =
                  [packer[p] EXCEPT !.written = n + 1,
                     !.read = packer[p].read \o NextPiece(p),
                     !.buffer = Append(packer[p].buffer, frame)]]
Flushes(p, b, i) ==
  /\ i \in Inodes /\ HoldsArtifact(i) /\ OutputsStay /\ FilesInv' /\ dir' = dir
  /\ Flushed(packer[p]) \in Nat /\ b \in Seq(Frames)
  /\ \E k \in 1..Len(b) :
       /\ ArtifactWritten(i, WriteAt(data[i], Flushed(packer[p]),
                                     SubSeq(b, 1, k), Damaged))
       /\ packer' = [packer EXCEPT ![p] =
                       [packer[p] EXCEPT !.buffer = SubSeq(b, k + 1, Len(b))]]

\* A chunk goes into the buffer.
LEMMA PackChunkBuffers ==
  ASSUME FilesInv, NEW p \in Packers, PackChunk(p),
         NEW n, n = packer[p].written,
         NEW t, t = IF n = 0 THEN HeaderTag(p) ELSE ChunkTag(p, n - 1),
         NEW frame, frame = ChunkFrame(Secret[p], packer[p].header, n, t, NextPiece(p))
  PROVE  t \in Packers \X Int /\ Buffers(p, n, frame)
<1> USE DEF FilesInv
<1> DEFINE h == packer[p].header
           all == packer[p].read \o NextPiece(p)
           frames == Append(packer[p].buffer, frame)
           r == [packer[p] EXCEPT !.written = n + 1, !.read = all, !.buffer = frames]
<1>1. /\ packer[p].pc = "writing" /\ UNCHANGED <<source, dir, data, unpacker, events>>
      /\ packer' = [packer EXCEPT ![p] = r]
      /\ Sealing(h, all)
  BY DEF PackChunk
<1>2. /\ packer[p] \in PackerRecords /\ h \in Headers /\ h.fileId = p
      /\ packer[p].dst \in Inodes /\ n \in Nat /\ packer[p].read \in Seq(Bytes)
      /\ packer[p].buffer \in Seq(Frames) /\ Len(packer[p].buffer) <= n + 1
  BY <1>1 DEF Types, PackerTyped, Active, Ended, PackerRecords
<1>3. NextPiece(p) \in Seq(Bytes)
  BY <1>1, PieceTyped
<1>4. all \in Seq(Bytes)
  BY <1>2, <1>3, ConcatProperties
<1>5. t \in Packers \X Int
  BY <1>2 DEF HeaderTag, ChunkTag
<1>6. frame \in Frames
  BY <1>2, <1>3, <1>5, FrameTyped
<1>7. frames \in Seq(Frames) /\ Len(frames) = Len(packer[p].buffer) + 1
  BY <1>2, <1>6, AppendProperties
<1>8. /\ all = packer[p].read \o NextPiece(p)
      /\ frames = Append(packer[p].buffer, frame)
  OBVIOUS
<1> HIDE DEF all, frames
<1>9. PackerTyped(p, r) /\ r.dst = packer[p].dst
  <2>1. n + 1 \in Nat /\ Len(frames) <= (n + 1) + 1
    <3>1. Len(packer[p].buffer) \in Nat
      BY <1>2
    <3> QED
      BY <1>2, <1>7, <3>1
  <2>2. /\ r \in PackerRecords /\ r.pc = "writing" /\ r.dst = packer[p].dst
        /\ r.header = h /\ r.buffer = frames /\ r.written = n + 1
    BY <1>1, <1>2, <1>4, <1>7, <2>1 DEF PackerRecords
  <2> HIDE DEF r
  <2> QED
    BY <1>2, <2>1, <2>2 DEF PackerTyped
<1>10. r = [packer[p] EXCEPT !.written = n + 1, !.read = all, !.buffer = frames]
  OBVIOUS
<1> HIDE DEF r, h
<1>11. /\ DOMAIN packer' = Packers /\ packer' = [q \in Packers |-> packer'[q]]
       /\ \A q \in Packers : PackerTyped(q, packer'[q])
       /\ packer'[p] = r /\ \A q \in Packers \ {p} : packer'[q] = packer[q]
  BY <1>1, <1>9, PackerLocalsTyped
<1>12. ArtifactsStay /\ OutputsStay
  <2>1. \A q \in Packers : packer'[q].dst = packer[q].dst
    BY <1>9, <1>11
  <2> QED
    BY <1>1, <2>1 DEF ArtifactsStay, OutputsStay, HoldsArtifact, HoldsOutput
<1>13. Contents'
  BY <1>12, ContentsStay
<1>14. Types'
  <2>1. sealed' \subseteq Seq(Bytes)
    BY <1>1, <1>2, <1>4, SealsTyped DEF Types, h
  <2> QED
    BY <1>1, <1>11, <2>1 DEF Types
<1> QED
  BY <1>1, <1>5, <1>6, <1>8, <1>10, <1>12, <1>13, <1>14 DEF Buffers

\* What is in the buffer goes to the open file of the packer, wherever that is
\* by now.
LEMMA FlushPackingWrites ==
  ASSUME FilesInv, NEW p \in Packers, FlushPacking(p),
         NEW b, b = packer[p].buffer, NEW i, i = packer[p].dst
  PROVE  Flushes(p, b, i)
<1> USE DEF FilesInv
<1>1. /\ packer[p].pc \in {"writing", "closing"}
      /\ UNCHANGED <<source, dir, unpacker, sealed, events>>
  BY DEF FlushPacking
<1>2. PICK k \in 1..Len(b) :
        /\ packer' = [packer EXCEPT ![p].buffer = SubSeq(b, k + 1, Len(b))]
        /\ data' = [data EXCEPT ![i] =
                      WriteAt(data[i], Flushed(packer[p]), SubSeq(b, 1, k), Damaged)]
  BY DEF FlushPacking
<1>3. /\ packer[p] \in PackerRecords /\ packer[p].header \in Headers
      /\ packer[p].header.fileId = p /\ i \in Inodes /\ packer[p].written \in Nat
      /\ b \in Seq(Frames) /\ Len(b) <= packer[p].written + 1 /\ Len(b) \in Nat
  BY <1>1 DEF Types, PackerTyped, Active, Ended, PackerRecords
<1>4. Flushed(packer[p]) \in Nat
  BY <1>3 DEF Flushed
<1>5. HoldsArtifact(i)
  BY DEF HoldsArtifact
<1>6. PICK head, rest : head = SubSeq(b, 1, k) /\ rest = SubSeq(b, k + 1, Len(b))
  OBVIOUS
<1>7. /\ head \in Seq(Frames) /\ rest \in Seq(Frames)
      /\ Len(rest) <= packer[p].written + 1
  <2>1. (\A j \in 1..k : b[j] \in Frames) /\ \A j \in (k + 1)..Len(b) : b[j] \in Frames
    BY <1>3
  <2>2. head \in Seq(Frames)
    BY <1>6, <2>1, SubSeqProperties
  <2>3. /\ rest \in Seq(Frames)
        /\ Len(rest) = IF k + 1 <= Len(b) THEN Len(b) - (k + 1) + 1 ELSE 0
    BY <1>3, <1>6, <2>1, SubSeqProperties
  <2> QED
    BY <1>3, <2>2, <2>3
<1>8. PICK new : new = WriteAt(data[i], Flushed(packer[p]), head, Damaged)
  OBVIOUS
<1>9. new \in Seq(Frames)
  <2>1. data[i] \in Seq(Frames) /\ Damaged \in Frames
    BY <1>3, <1>5, FrameTyped DEF Contents
  <2> QED
    BY <1>4, <1>7, <1>8, <2>1, Written
<1> DEFINE r == [packer[p] EXCEPT !.buffer = rest]
<1>10. packer' = [packer EXCEPT ![p] = r]
  BY <1>2, <1>6
<1>11. PackerTyped(p, r) /\ r.dst = i
  <2>1. /\ r \in PackerRecords /\ r.pc = packer[p].pc /\ r.dst = i
        /\ r.header = packer[p].header /\ r.buffer = rest
        /\ r.written = packer[p].written
    BY <1>3, <1>7 DEF PackerRecords
  <2> HIDE DEF r
  <2> QED
    BY <1>3, <1>7, <2>1 DEF PackerTyped
<1>12. r = [packer[p] EXCEPT !.buffer = rest]
  OBVIOUS
<1> HIDE DEF r
<1>13. /\ DOMAIN packer' = Packers /\ packer' = [q \in Packers |-> packer'[q]]
       /\ \A q \in Packers : PackerTyped(q, packer'[q])
       /\ packer'[p] = r /\ \A q \in Packers \ {p} : packer'[q] = packer[q]
  BY <1>10, <1>11, PackerLocalsTyped
<1>14. \A j \in Inodes : HoldsArtifact(j)' => HoldsArtifact(j)
  <2>1. \A q \in Packers : packer'[q].dst = packer[q].dst
    BY <1>11, <1>13
  <2> QED
    BY <1>1, <2>1 DEF HoldsArtifact
<1>15. \A j \in Inodes : HoldsOutput(j)' => HoldsOutput(j) /\ j # i
  BY <1>1, <1>3, <1>5 DEF HoldsOutput, Contents
<1>16. DOMAIN data' = Inodes /\ \A j \in Inodes : data'[j] = IF j = i THEN new ELSE data[j]
  BY <1>2, <1>3, <1>6, <1>8 DEF Types
<1>17. ArtifactWritten(i, new) /\ OutputsStay
  BY <1>3, <1>14, <1>15, <1>16 DEF ArtifactWritten, OutputsStay
<1>18. Contents'
  BY <1>3, <1>5, <1>9, <1>17, ContentsAfterArtifact DEF Contents
<1>19. Types'
  BY <1>1, <1>13, <1>16 DEF Types
<1> QED
  BY <1>1, <1>3, <1>4, <1>5, <1>6, <1>8, <1>10, <1>12, <1>17, <1>18, <1>19 DEF Flushes

\* open() of the temporary file of an unpacker: it is no artifact, and empty.
LEMMA OpenUnpackingWrites ==
  ASSUME FilesInv, NEW u \in Unpackers, OpenUnpacking(u)
  PROVE  \E i \in Inodes :
           /\ OutputWritten(i, <<>>)
           /\ ArtifactsStay /\ ~HoldsArtifact(i) /\ FilesInv'
           /\ dir[Unpacking(unpacker[u].out)] = i \/ ~HoldsOutput(i)
           /\ unpacker' = [unpacker EXCEPT ![u] =
                             [unpacker[u] EXCEPT !.pc = "verifying", !.dst = i]]
           /\ dir' = [dir EXCEPT ![Unpacking(unpacker[u].out)] = i]
<1> USE DEF FilesInv
<1> DEFINE name == Unpacking(unpacker[u].out)
           i == Created(name)
           r == [unpacker[u] EXCEPT !.pc = "verifying", !.dst = i]
<1>1. /\ unpacker[u].pc = "opening" /\ UNCHANGED <<source, packer, sealed, events>>
      /\ unpacker' = [unpacker EXCEPT ![u] = r]
      /\ dir' = [dir EXCEPT ![name] = i]
      /\ Store([data EXCEPT ![i] = <<>>])
  BY DEF OpenUnpacking
<1>2. /\ unpacker[u] \in UnpackerRecords /\ UnpackerTyped(unpacker[u])
      /\ unpacker[u].out \in 1..Outputs
      /\ unpacker[u].header \in Headers /\ unpacker[u].src \in Inodes
  BY <1>1 DEF Types, UnpackerTyped
<1>3. name \in OutputNames /\ name \in Names /\ name \notin ArtifactNames
  BY <1>2, NamesOfKinds, NamesSplit
<1>4. name = Unpacking(unpacker[u].out)
  OBVIOUS
<1>5. PICK k : k = name
  OBVIOUS
<1> HIDE DEF name
<1>6. /\ i \in Inodes
      /\ dir[name] = i \/ (~HoldsArtifact(i) /\ ~HoldsOutput(i))
  BY <1>3, CreatedFile DEF Types
<1>7. PICK j \in Inodes : j = i
  BY <1>6
<1>8. r = [unpacker[u] EXCEPT !.pc = "verifying", !.dst = j]
  BY <1>7
<1> HIDE DEF i, r
<1>9. ~HoldsArtifact(j)
  BY <1>3, <1>6, <1>7 DEF Contents, HoldsOutput
<1>10. PICK s : s = r
  OBVIOUS
<1>11. UnpackerTyped(s) /\ s.dst = j /\ s.src = unpacker[u].src
  BY <1>2, <1>8, <1>10 DEF UnpackerTyped, UnpackerRecords, Files
<1>12. /\ DOMAIN unpacker' = Unpackers
       /\ unpacker' = [v \in Unpackers |-> unpacker'[v]]
       /\ \A v \in Unpackers : UnpackerTyped(unpacker'[v])
       /\ unpacker'[u] = s /\ \A v \in Unpackers \ {u} : unpacker'[v] = unpacker[v]
  BY <1>1, <1>10, <1>11, UnpackerLocalsTyped
<1>13. dir' = [dir EXCEPT ![k] = j]
  BY <1>1, <1>5, <1>7
<1>14. \A m \in Inodes : HoldsOutput(m)' => m = j \/ HoldsOutput(m)
  <2>1. \A n \in OutputNames : dir'[n] \in {dir[n], j}
    BY <1>13, NamesSplit DEF Types
  <2>2. \A v \in Unpackers : unpacker'[v].dst \in {unpacker[v].dst, j}
    BY <1>11, <1>12
  <2> QED
    BY <2>1, <2>2 DEF HoldsOutput
<1>15. \A m \in Inodes : HoldsArtifact(m)' => HoldsArtifact(m) /\ m # j
  <2>1. \A n \in ArtifactNames : dir'[n] = dir[n]
    BY <1>3, <1>5, <1>13, NamesSplit DEF Types
  <2>2. \A v \in Unpackers : unpacker'[v].src = unpacker[v].src
    BY <1>11, <1>12
  <2> QED
    BY <1>1, <1>9, <2>1, <2>2 DEF HoldsArtifact
<1>16. /\ DOMAIN data' = Inodes
       /\ \A m \in Inodes : HoldsArtifact(m)' \/ HoldsOutput(m)' =>
            data'[m] = IF m = j THEN <<>> ELSE data[m]
  BY <1>1, <1>7, StoredWith DEF Types
<1>17. OutputWritten(j, <<>>) /\ ArtifactsStay
  BY <1>14, <1>15, <1>16 DEF OutputWritten, ArtifactsStay
<1>18. Contents'
  BY <1>9, <1>17, ContentsAfterOutput
<1>19. dir' \in [Names -> Files]
  BY <1>13 DEF Types, Files
<1>20. Types'
  BY <1>1, <1>12, <1>16, <1>19 DEF Types
<1> QED
  BY <1>1, <1>4, <1>5, <1>6, <1>7, <1>8, <1>9, <1>13, <1>17, <1>18, <1>20

\* A verified chunk goes to the open file of the unpacker; it was sealed as
\* this chunk of this artifact.
LEMMA VerifyChunkWrites ==
  ASSUME FilesInv, NEW u \in Unpackers, VerifyChunk(u)
  PROVE  LET n == unpacker[u].index
             frame == unpacker[u].read[n + 2]
             i == unpacker[u].dst
         IN  /\ OutputWritten(i, WriteAt(data[i], unpacker[u].written, frame.plain, Zero))
             /\ HoldsOutput(i) /\ ArtifactsStay /\ FilesInv' /\ dir' = dir
             /\ frame \in Frames /\ frame.plain \in Seq(Bytes)
             /\ Len(unpacker[u].read) >= n + 2
             /\ \E t : frame.aad = ChunkAad(unpacker[u].header.fileId, n, t)
             /\ unpacker' = [unpacker EXCEPT ![u] =
                               [unpacker[u] EXCEPT !.index = n + 1,
                                  !.written = @ + Len(frame.plain)]]
<1> USE DEF FilesInv
<1> DEFINE n == unpacker[u].index
           src == unpacker[u].src
           i == unpacker[u].dst
           read == unpacker[u].read
           frame == read[n + 2]
           new == WriteAt(data[i], unpacker[u].written, frame.plain, Zero)
           more == unpacker[u].written + Len(frame.plain)
           r == [unpacker[u] EXCEPT !.index = n + 1, !.written = more]
<1>1. /\ unpacker[u].pc = "verifying" /\ ChunkVerified(u)
      /\ UNCHANGED <<source, dir, packer, sealed, events>>
      /\ unpacker' = [unpacker EXCEPT ![u] = r]
      /\ data' = [data EXCEPT ![i] = new]
  BY DEF VerifyChunk
<1>2. /\ unpacker[u] \in UnpackerRecords /\ n \in Nat /\ unpacker[u].written \in Nat
      /\ i \in Inodes /\ src \in Inodes
      /\ unpacker[u].header \in Headers /\ unpacker[u].out \in 1..Outputs
      /\ read \in Seq(Frames)
  BY <1>1 DEF Types, UnpackerTyped, UnpackerRecords
<1>3. HoldsOutput(i)
  BY DEF HoldsOutput
<1>5. PICK t : /\ Len(read) >= n + 2
               /\ frame.aad = ChunkAad(unpacker[u].header.fileId, n, t)
  BY <1>1 DEF ChunkVerified, ChunkOpens, Opens
<1>6. frame \in Frames
  <2> HIDE DEF n, read
  <2>1. n + 2 \in 1..Len(read)
    BY <1>2, <1>5
  <2> QED
    BY <1>2, <2>1
<1>7. frame.plain \in Seq(Bytes) /\ Len(frame.plain) \in Nat
  <2> HIDE DEF frame, n, read
  <2>1. ChunkAad(unpacker[u].header.fileId, n, t) # HeaderAad
    BY DEF ChunkAad, HeaderAad
  <2>2. frame.plain \in Seq(Bytes)
    BY <1>5, <1>6, <2>1, FramesOpen
  <2> QED
    BY <2>2
<1>9. UnpackerTyped(r) /\ r.dst = i /\ r.src = src
  <2>1. more \in Nat /\ n + 1 \in Nat
    <3> HIDE DEF frame, n
    <3> QED
      BY <1>2, <1>7
  <2>2. /\ r.pc = "verifying" /\ r.dst = i /\ r.src = src
        /\ r.out = unpacker[u].out /\ r.header = unpacker[u].header
    BY <1>1, <1>2 DEF UnpackerRecords
  <2>3. r \in UnpackerRecords
    <3> HIDE DEF more, n
    <3> QED
      BY <1>2, <2>1 DEF UnpackerRecords
  <2> HIDE DEF r, n, more, src, i
  <2> QED
    BY <1>2, <2>2, <2>3 DEF UnpackerTyped
<1>10. /\ n = unpacker[u].index /\ src = unpacker[u].src /\ i = unpacker[u].dst
       /\ frame = read[n + 2] /\ read = unpacker[u].read
       /\ new = WriteAt(data[i], unpacker[u].written, frame.plain, Zero)
       /\ r = [unpacker[u] EXCEPT !.index = n + 1,
                                  !.written = unpacker[u].written + Len(frame.plain)]
  OBVIOUS
<1>11. PICK w : w = new
  OBVIOUS
<1>12. PICK j \in Inodes : j = i
  BY <1>2
<1>13. PICK s : s = r
  OBVIOUS
<1> HIDE DEF r, more, new, frame, read, i, src, n
<1>14. /\ DOMAIN unpacker' = Unpackers
       /\ unpacker' = [v \in Unpackers |-> unpacker'[v]]
       /\ \A v \in Unpackers : UnpackerTyped(unpacker'[v])
       /\ unpacker'[u] = s /\ \A v \in Unpackers \ {u} : unpacker'[v] = unpacker[v]
  BY <1>1, <1>9, <1>13, UnpackerLocalsTyped
<1>15. /\ \A k \in Inodes : HoldsOutput(k)' => HoldsOutput(k)
       /\ \A k \in Inodes : HoldsArtifact(k)' => HoldsArtifact(k) /\ k # j
  <2>1. \A v \in Unpackers :
          unpacker'[v].dst = unpacker[v].dst /\ unpacker'[v].src = unpacker[v].src
    BY <1>9, <1>10, <1>13, <1>14
  <2>2. ~HoldsArtifact(j)
    BY <1>3, <1>12 DEF Contents
  <2> QED
    BY <1>1, <2>1, <2>2 DEF HoldsOutput, HoldsArtifact
<1>16. DOMAIN data' = Inodes /\ \A k \in Inodes : data'[k] = IF k = j THEN w ELSE data[k]
  BY <1>1, <1>11, <1>12 DEF Types
<1>17. OutputWritten(j, w) /\ ArtifactsStay
  BY <1>15, <1>16 DEF OutputWritten, ArtifactsStay
<1>18. Contents'
  BY <1>3, <1>12, <1>17, ContentsAfterOutput DEF Contents
<1>19. Types'
  BY <1>1, <1>14, <1>16 DEF Types
<1> QED
  BY <1>1, <1>3, <1>5, <1>6, <1>7, <1>10, <1>11, <1>12, <1>17, <1>18, <1>19

\* What arrives is a new file, made of pieces of artifacts that are there.
LEMMA ArriveWrites ==
  ASSUME FilesInv, Arrive
  PROVE  \E i, j, k \in Inodes : \E new :
           /\ HoldsArtifact(j) /\ HoldsArtifact(k) /\ new \in OnTheWay(data[j], data[k])
           /\ ArtifactWritten(i, new)
           /\ OutputsStay /\ ~HoldsArtifact(i) /\ ~HoldsOutput(i) /\ FilesInv'
           /\ dir' = [dir EXCEPT ![Received] = i]
           /\ UNCHANGED <<source, packer, unpacker, sealed>>
<1> USE DEF FilesInv
<1>1. PICK j \in Inodes : j = dir[Artifact] /\ HoldsArtifact(j)
  BY NamesOfKinds, NamesSplit DEF Arrive, Types, Files, HoldsArtifact
<1> DEFINE i == CHOOSE i \in Inodes : i \notin Named \cup Open
           others == {data[dir[n]] : n \in {m \in {Artifact, Packing, Received} :
                                              dir[m] # NoFile}}
<1>2. PICK other \in others : \E new \in OnTheWay(data[dir[Artifact]], other) :
        /\ dir' = [dir EXCEPT ![Received] = i]
        /\ Store([data EXCEPT ![i] = new])
  BY DEF Arrive
<1>16. PICK new \in OnTheWay(data[dir[Artifact]], other) :
         /\ dir' = [dir EXCEPT ![Received] = i]
         /\ Store([data EXCEPT ![i] = new])
  BY <1>2
<1>3. PICK k \in Inodes : HoldsArtifact(k) /\ other = data[k]
  BY NamesOfKinds, NamesSplit DEF Types, Files, HoldsArtifact
<1>4. i \in Inodes /\ i \notin Named \cup Open
  BY InodeFree
<1>5. PICK c \in Inodes : c = i
  BY <1>4
<1>6. ~HoldsArtifact(c) /\ ~HoldsOutput(c)
  BY <1>4, <1>5, UsedFiles
<1> HIDE DEF i
<1>7. /\ dir' = [dir EXCEPT ![Received] = c] /\ Store([data EXCEPT ![c] = new])
      /\ new \in OnTheWay(data[j], data[k])
  BY <1>1, <1>16, <1>3, <1>5
<1>8. UNCHANGED <<source, packer, unpacker, sealed>> /\ events' \in 0..MaxEvents
  BY FilesOK DEF Arrive, Interferes, Types
<1>9. new \in Seq(Frames)
  <2>1. data[j] \in Seq(Frames) /\ data[k] \in Seq(Frames) /\ Damaged \in Frames
    BY <1>1, <1>3 DEF Contents, Frames
  <2> QED
    BY <1>7, <2>1, OnTheWayOf
<1>10. \A m \in Inodes : HoldsArtifact(m)' => m = c \/ HoldsArtifact(m)
  <2>1. \A n \in ArtifactNames : dir'[n] \in {dir[n], c}
    BY <1>7, NamesSplit DEF Types
  <2> QED
    BY <1>8, <2>1 DEF HoldsArtifact
<1>11. \A m \in Inodes : HoldsOutput(m)' => HoldsOutput(m) /\ m # c
  <2>1. \A n \in OutputNames : dir'[n] = dir[n]
    BY <1>7, NamesOfKinds, NamesSplit DEF Types
  <2> QED
    BY <1>6, <1>8, <2>1 DEF HoldsOutput
<1>12. /\ DOMAIN data' = Inodes
       /\ \A m \in Inodes : HoldsArtifact(m)' \/ HoldsOutput(m)' =>
            data'[m] = IF m = c THEN new ELSE data[m]
  BY <1>7, StoredWith DEF Types
<1>13. ArtifactWritten(c, new) /\ OutputsStay
  BY <1>10, <1>11, <1>12 DEF ArtifactWritten, OutputsStay
<1>14. Contents'
  BY <1>6, <1>9, <1>13, ContentsAfterArtifact
<1>15. Types'
  <2>1. dir' \in [Names -> Files]
    BY <1>7 DEF Types, Files
  <2> QED
    BY <1>8, <1>12, <2>1 DEF Types
<1> QED
  BY <1>1, <1>3, <1>6, <1>7, <1>8, <1>13, <1>14, <1>15

-----------------------------------------------------------------------------
\* Before any call there are no files.
LEMMA FilesInit == Init => FilesInv
<1> SUFFICES ASSUME Init PROVE FilesInv
  OBVIOUS
<1> USE DEF Init
<1>1. /\ \A p \in Packers : PackerTyped(p, packer[p])
      /\ \A u \in Unpackers : UnpackerTyped(unpacker[u])
  BY StoppedTyped DEF Ended
<1>2. Types
  BY <1>1, FilesOK DEF Types, Files
<1>3. \A i \in Inodes : ~HoldsArtifact(i) /\ ~HoldsOutput(i)
  <2>1. NoFile \notin Inodes
    BY FilesOK
  <2>2. \A n \in Names : dir[n] = NoFile
    OBVIOUS
  <2>3. /\ \A p \in Packers : packer[p].dst = NoFile
        /\ \A u \in Unpackers : unpacker[u].src = NoFile /\ unpacker[u].dst = NoFile
    BY DEF NotPacking, NotUnpacking
  <2> QED
    BY <2>1, <2>2, <2>3, NamesSplit DEF HoldsArtifact, HoldsOutput
<1> QED
  BY <1>2, <1>3 DEF FilesInv, Contents

\* A step that changes no file and no call.
LEMMA NothingMoves ==
  ASSUME FilesInv, UNCHANGED <<dir, data, packer, unpacker, sealed>>,
         source' \in Seq(Bytes), events' \in 0..MaxEvents
  PROVE  FilesInv' /\ ArtifactsStay /\ OutputsStay
<1>1. \A i \in Inodes : HoldsArtifact(i)' = HoldsArtifact(i) /\ HoldsOutput(i)' = HoldsOutput(i)
  BY DEF HoldsArtifact, HoldsOutput
<1> QED
  BY <1>1 DEF FilesInv, Types, Contents, ArtifactsStay, OutputsStay

\* An edit leaves a file of bytes.
LEMMA EditTyped ==
  ASSUME FilesInv, EditSource
  PROVE  source' \in Seq(Bytes) /\ events' \in 0..MaxEvents
BY FilesOK DEF EditSource, Interferes, FilesInv, Types

\* The invariant is inductive: the steps that write, and the plain ones.
LEMMA FilesStep == FilesInv /\ [Next]_vars => FilesInv'
<1> SUFFICES ASSUME FilesInv, [Next]_vars PROVE FilesInv'
  OBVIOUS
<1>1. ASSUME NEW p \in Packers, PackStep(p) \/ PackFails(p) PROVE FilesInv'
  <2>1. CASE OpenPacking(p)
    BY <2>1, OpenPackingWrites
  <2>2. CASE PackChunk(p) \/ FlushPacking(p)
    BY <2>2, PackChunkBuffers, FlushPackingWrites DEF Buffers, Flushes
  <2>3. CASE \/ BeginPack(p) \/ EndOfSource(p) \/ ClosePacking(p) \/ ReplaceArtifact(p)
             \/ PackFails(p)
    BY <2>3, PackerPlain, PlainPackStays DEF FilesInv
  <2> QED
    BY <1>1, <2>1, <2>2, <2>3 DEF PackStep
<1>2. ASSUME NEW u \in Unpackers, UnpackStep(u) \/ UnpackFails(u) PROVE FilesInv'
  <2>1. CASE OpenUnpacking(u)
    BY <2>1, OpenUnpackingWrites
  <2>2. CASE VerifyChunk(u)
    BY <2>2, VerifyChunkWrites
  <2>3. CASE \/ BeginUnpack(u) \/ ResolveOutput(u) \/ ReadFrames(u) \/ RejectChunk(u)
             \/ EndOfChunks(u) \/ ReplaceOutput(u) \/ UnpackFails(u)
    BY <2>3, UnpackerPlain, PlainUnpackStays
  <2> QED
    BY <1>2, <2>1, <2>2, <2>3 DEF UnpackStep
<1>3. CASE EditSource
  BY <1>3, EditTyped, NothingMoves DEF EditSource
<1>4. CASE Arrive
  BY <1>4, ArriveWrites
<1>5. CASE UNCHANGED vars
  BY <1>5, NothingMoves DEF vars, FilesInv, Types
<1> QED
  BY <1>1, <1>2, <1>3, <1>4, <1>5 DEF Next

\* Every variable keeps its type, whatever overlaps: in particular a call that
\* writes has an open file, and there always is an inode for one more.
THEOREM FilesTyped == Spec => []TypeOK
<1>1. FilesInv => TypeOK
  BY TypesImply DEF FilesInv
<1> QED
  BY <1>1, FilesInit, FilesStep, PTL DEF Spec

-----------------------------------------------------------------------------
(* What is delivered was packed *)

\* H has the header of each packer, P the prefixes of its source that it has
\* read after each of its writes, none before the header is.  A frame
\* made by the packers holds what lies between two of these prefixes.
Made(H, P) ==
  {e \in Frames :
     /\ e.aad = HeaderAad => \E p \in Packers : P[p] # <<>> /\ e.plain = <<H[p]>>
     /\ \A p \in Packers, n \in Nat : \A t :
          e.aad = ChunkAad(p, n, t) =>
            n + 2 <= Len(P[p]) /\ P[p][n + 2] = P[p][n + 1] \o e.plain}

Packs(p, r, h, prefixes) ==
  /\ h.fileId = p
  /\ Active(r) => r.header = h /\ h.totalSize <= MaxFileSize
  /\ r.pc \in {"idle", "opening"} => prefixes = <<>> /\ r.read = <<>> /\ r.written = 0
  /\ r.pc \in {"writing", "closing"} =>
       Len(prefixes) = r.written + 1 /\ prefixes[r.written + 1] = r.read
  /\ prefixes # <<>> => prefixes[1] = <<>>

WholeSealed(h, prefixes) ==
  \A k \in 1..Len(prefixes) :
    Len(prefixes[k]) >= h.totalSize => SubSeq(prefixes[k], 1, h.totalSize) \in sealed

Packed(H, P) ==
  /\ H \in [Packers -> Headers] /\ P \in [Packers -> Seq(Seq(Bytes))]
  /\ \A p \in Packers : Packs(p, packer[p], H[p], P[p]) /\ WholeSealed(H[p], P[p])
  /\ \A p \in Packers : packer[p].buffer \in Seq(Made(H, P))
  /\ \A i \in Inodes : HoldsArtifact(i) => data[i] \in Seq(Made(H, P))

\* More prefixes, and the header of a packer that had none.
Grows(H, P, H2, P2) ==
  \A p \in Packers :
    /\ Len(P[p]) <= Len(P2[p]) /\ \A k \in 1..Len(P[p]) : P2[p][k] = P[p][k]
    /\ P[p] # <<>> => H2[p] = H[p]

\* Frames made stay made as the packers go on.
LEMMA MadeGrows ==
  ASSUME NEW H \in [Packers -> Headers], NEW P \in [Packers -> Seq(Seq(Bytes))],
         NEW H2 \in [Packers -> Headers], NEW P2 \in [Packers -> Seq(Seq(Bytes))],
         Grows(H, P, H2, P2)
  PROVE  /\ Made(H, P) \subseteq Made(H2, P2)
         /\ Seq(Made(H, P)) \subseteq Seq(Made(H2, P2))
         /\ \A p \in Packers : P[p] # <<>> => P2[p] # <<>>
<1>1. \A p \in Packers : Len(P[p]) \in Nat /\ Len(P2[p]) \in Nat
  OBVIOUS
<1>2. \A p \in Packers : P[p] # <<>> => P2[p] # <<>> /\ H2[p] = H[p]
  BY <1>1, EmptySeq DEF Grows
<1>3. ASSUME NEW e \in Made(H, P) PROVE e \in Made(H2, P2)
  <2>1. /\ e \in Frames
        /\ e.aad = HeaderAad => \E p \in Packers : P[p] # <<>> /\ e.plain = <<H[p]>>
        /\ \A p \in Packers, n \in Nat : \A t :
             e.aad = ChunkAad(p, n, t) =>
               n + 2 <= Len(P[p]) /\ P[p][n + 2] = P[p][n + 1] \o e.plain
    BY <1>3 DEF Made
  <2>2. e.aad = HeaderAad => \E p \in Packers : P2[p] # <<>> /\ e.plain = <<H2[p]>>
    BY <1>2, <2>1
  <2>3. ASSUME NEW p \in Packers, NEW n \in Nat, NEW t, e.aad = ChunkAad(p, n, t)
        PROVE  n + 2 <= Len(P2[p]) /\ P2[p][n + 2] = P2[p][n + 1] \o e.plain
    <3>1. n + 2 <= Len(P[p]) /\ P[p][n + 2] = P[p][n + 1] \o e.plain
      BY <2>1, <2>3
    <3>2. Len(P[p]) <= Len(P2[p]) /\ \A k \in 1..Len(P[p]) : P2[p][k] = P[p][k]
      BY DEF Grows
    <3>3. n + 1 \in 1..Len(P[p]) /\ n + 2 \in 1..Len(P[p]) /\ n + 2 <= Len(P2[p])
      BY <1>1, <3>1, <3>2
    <3> QED
      BY <3>1, <3>2, <3>3
  <2> QED
    BY <2>1, <2>2, <2>3 DEF Made
<1> QED
  BY <1>2, <1>3, SeqMonotonic

\* What packing may do to what AtomicDelivery sees of it.
Payloads == UNION {[1..n -> Bytes] : n \in 0..MaxFileSize}
SealsOne ==
  \/ sealed' = sealed
  \/ \E c \in Payloads : sealed' = sealed \cup {c}

\* A step of p after which it has the locals r, the header h and the prefixes s,
\* and of which only what p has written is new.
Advances(H, P, p, r, h, s, H2, P2) ==
  /\ packer'[p] = r /\ \A q \in Packers \ {p} : packer'[q] = packer[q]
  /\ h \in Headers /\ s \in Seq(Seq(Bytes))
  /\ Packs(p, r, h, s) /\ sealed \subseteq sealed'
  /\ P[p] # <<>> => h = H[p]
  /\ Len(P[p]) <= Len(s) /\ \A k \in 1..Len(P[p]) : s[k] = P[p][k]
  /\ H2 = [H EXCEPT ![p] = h] /\ P2 = [P EXCEPT ![p] = s]

\* The packers after such a step.
LEMMA PackedAfter ==
  ASSUME NEW H, NEW P, Packed(H, P), NEW p \in Packers, NEW r, NEW h, NEW s,
         NEW H2, NEW P2, Advances(H, P, p, r, h, s, H2, P2), WholeSealed(h, s)',
         r.buffer \in Seq(Made(H2, P2)),
         \/ ArtifactsStay
         \/ \E i, new : ArtifactWritten(i, new) /\ new \in Seq(Made(H2, P2))
  PROVE  Packed(H2, P2)' /\ Grows(H, P, H2, P2)
<1> USE DEF Advances
<1>1. H \in [Packers -> Headers] /\ P \in [Packers -> Seq(Seq(Bytes))]
  BY DEF Packed
<1>2. /\ H2 \in [Packers -> Headers] /\ P2 \in [Packers -> Seq(Seq(Bytes))]
      /\ H2[p] = h /\ P2[p] = s
      /\ \A q \in Packers \ {p} : H2[q] = H[q] /\ P2[q] = P[q]
  BY <1>1
<1>3. Grows(H, P, H2, P2)
  <2>1. \A q \in Packers : Len(P[q]) \in Nat
    BY <1>1
  <2>2. \A q \in Packers \ {p} : Len(P[q]) <= Len(P2[q])
    BY <1>2, <2>1
  <2> QED
    BY <1>2, <2>2 DEF Grows
<1>4. \A q \in Packers : Packs(q, packer[q], H2[q], P2[q])' /\ WholeSealed(H2[q], P2[q])'
  <2>1. ASSUME NEW q \in Packers \ {p}
        PROVE  Packs(q, packer'[q], H2[q], P2[q]) /\ WholeSealed(H2[q], P2[q])'
    <3>1. Packs(q, packer[q], H[q], P[q]) /\ WholeSealed(H[q], P[q])
      BY DEF Packed
    <3> QED
      BY <1>2, <3>1 DEF WholeSealed
  <2>2. Packs(p, packer'[p], H2[p], P2[p]) /\ WholeSealed(H2[p], P2[p])'
    BY <1>2
  <2> QED
    BY <2>1, <2>2
<1>5. \A i \in Inodes : HoldsArtifact(i) => data[i] \in Seq(Made(H2, P2))
  BY <1>1, <1>2, <1>3, MadeGrows DEF Packed
<1>6. \A i \in Inodes : HoldsArtifact(i)' => data'[i] \in Seq(Made(H2, P2))
  BY <1>5, ArtifactsOf
<1>7. \A q \in Packers : packer'[q].buffer \in Seq(Made(H2, P2))
  <2>1. ASSUME NEW q \in Packers \ {p} PROVE packer'[q].buffer \in Seq(Made(H2, P2))
    <3>1. packer[q].buffer \in Seq(Made(H, P))
      BY DEF Packed
    <3>2. Seq(Made(H, P)) \subseteq Seq(Made(H2, P2))
      BY <1>1, <1>2, <1>3, MadeGrows
    <3>3. packer'[q] = packer[q]
      OBVIOUS
    <3> QED
      BY <3>1, <3>2, <3>3
  <2> QED
    BY <2>1
<1> QED
  BY <1>2, <1>3, <1>4, <1>6, <1>7 DEF Packed

\* What a packing step adds to the ghosts.
PackedOn(H, P) ==
  /\ SealsOne /\ sealed \subseteq sealed' /\ OutputsStay /\ FilesInv'
  /\ \A n \in OutputNames : dir'[n] = dir[n]
  /\ \E H2, P2 : Packed(H2, P2)' /\ Grows(H, P, H2, P2)

\* A packer that begins fixes its header; one that ends, nothing.
LEMMA PlainPackPacks ==
  ASSUME FilesInv, NEW H, NEW P, Packed(H, P), NEW p \in Packers,
         NEW r, PlainPack(p, r)
  PROVE  PackedOn(H, P)
<1>1. /\ FilesInv' /\ ArtifactsStay /\ OutputsStay
      /\ packer'[p] = r /\ \A q \in Packers \ {p} : packer'[q] = packer[q]
  BY PlainPackStays
<1>2. \A n \in OutputNames : dir'[n] = dir[n]
  BY NamesOfKinds, NamesSplit DEF PlainPack, FilesInv, Types
<1>3. sealed' = sealed /\ PackerTyped(p, r)
  BY DEF PlainPack
<1>4. /\ H \in [Packers -> Headers] /\ P \in [Packers -> Seq(Seq(Bytes))]
      /\ Packs(p, packer[p], H[p], P[p]) /\ WholeSealed(H[p], P[p])
  BY DEF Packed
<1>5. PICK h \in Headers : /\ Packs(p, r, h, P[p]) /\ (P[p] # <<>> => h = H[p])
                           /\ WholeSealed(h, P[p])
  <2>1. CASE packer[p].pc = "idle" /\ r.pc = "opening"
    <3>1. P[p] = <<>> /\ r.header \in Headers /\ r.header.fileId = p
      BY <1>3, <1>4, <2>1 DEF Packs, PackerTyped, Active, Ended
    <3>2. /\ r.header.totalSize <= MaxFileSize
          /\ r.read = packer[p].read /\ r.written = packer[p].written
      BY <2>1 DEF PlainPack
    <3>3. Packs(p, r, r.header, P[p])
      BY <1>4, <2>1, <3>1, <3>2 DEF Packs
    <3>4. WholeSealed(r.header, P[p])
      BY <3>1 DEF WholeSealed
    <3> QED
      BY <3>1, <3>3, <3>4
  <2>2. CASE \/ /\ packer[p].pc \in {"writing", "closing"} /\ r.header = packer[p].header
                /\ r.pc \in {"closing", "replacing"}
                /\ r.read = packer[p].read /\ r.written = packer[p].written
             \/ r.pc \in {"done", "failed", "killed", "stranded"}
    <3>1. Packs(p, r, H[p], P[p])
      BY <1>4, <2>2 DEF Packs, Active, Ended
    <3> QED
      BY <1>4, <3>1
  <2> QED
    BY <2>1, <2>2 DEF PlainPack
<1>6. PICK H2, P2 : H2 = [H EXCEPT ![p] = h] /\ P2 = [P EXCEPT ![p] = P[p]]
  OBVIOUS
<1>7. WholeSealed(h, P[p])'
  BY <1>3, <1>5 DEF WholeSealed
<1>8. P[p] \in Seq(Seq(Bytes)) /\ Len(P[p]) \in Nat
  BY <1>4
<1>9. Packed(H2, P2)' /\ Grows(H, P, H2, P2)
  <2>1. Advances(H, P, p, r, h, P[p], H2, P2)
    BY <1>1, <1>3, <1>5, <1>6, <1>8 DEF Advances
  <2>2. /\ H2 \in [Packers -> Headers] /\ P2 \in [Packers -> Seq(Seq(Bytes))]
        /\ Grows(H, P, H2, P2)
    <3>1. /\ P2 = P /\ H2[p] = h /\ \A q \in Packers \ {p} : H2[q] = H[q]
          /\ \A q \in Packers : Len(P[q]) \in Nat
      BY <1>4, <1>6
    <3> QED
      BY <1>4, <1>5, <1>6, <3>1 DEF Grows
  <2>3. r.buffer \in Seq(Made(H2, P2))
    <3>1. <<>> \in Seq(Made(H2, P2))
      OBVIOUS
    <3>2. packer[p].buffer \in Seq(Made(H, P))
      BY DEF Packed
    <3>3. r.buffer \in {packer[p].buffer, <<>>}
      BY DEF PlainPack
    <3> QED
      BY <1>4, <2>2, <3>1, <3>2, <3>3, MadeGrows
  <2> QED
    BY <1>1, <1>7, <2>1, <2>3, PackedAfter
<1> QED
  BY <1>1, <1>2, <1>3, <1>9 DEF PackedOn, SealsOne

\* A seal of what p has read by now.
LEMMA SealingPacks ==
  ASSUME NEW h \in Headers, h.totalSize <= MaxFileSize,
         NEW content \in Seq(Bytes), Sealing(h, content),
         NEW old \in Seq(Seq(Bytes)), WholeSealed(h, old)
  PROVE  /\ SealsOne /\ sealed \subseteq sealed'
         /\ Append(old, content) \in Seq(Seq(Bytes))
         /\ WholeSealed(h, Append(old, content))'
<1>1. /\ h.totalSize \in 0..MaxFileSize /\ Len(content) \in Nat
      /\ h.totalSize \in Nat
  BY LimitsOK DEF Headers
<1>2. \/ sealed' = sealed /\ Len(content) < h.totalSize
      \/ /\ sealed' = sealed \cup {SubSeq(content, 1, h.totalSize)}
         /\ SubSeq(content, 1, h.totalSize) \in [1..h.totalSize -> Bytes]
  BY SealsWhole
<1>3. SealsOne /\ sealed \subseteq sealed'
  BY <1>1, <1>2 DEF SealsOne, Payloads
<1>4. Len(content) >= h.totalSize => SubSeq(content, 1, h.totalSize) \in sealed'
  <2>1. PICK c : c = SubSeq(content, 1, h.totalSize)
    OBVIOUS
  <2>2. ~(Len(content) < h.totalSize /\ Len(content) >= h.totalSize)
    BY <1>1
  <2> QED
    BY <1>2, <2>1, <2>2, Zenon
<1>5. PICK new : new = Append(old, content)
  OBVIOUS
<1>6. /\ new \in Seq(Seq(Bytes)) /\ Len(new) = Len(old) + 1 /\ Len(old) \in Nat
      /\ \A i \in 1..Len(old) : new[i] = old[i]
      /\ new[Len(old) + 1] = content
  BY <1>5, AppendProperties
<1>7. WholeSealed(h, new)'
  <2> SUFFICES ASSUME NEW k \in 1..Len(new), Len(new[k]) >= h.totalSize
               PROVE  SubSeq(new[k], 1, h.totalSize) \in sealed'
    BY DEF WholeSealed
  <2>1. k \in 1..Len(old) \/ k = Len(old) + 1
    BY <1>6
  <2> QED
    BY <1>3, <1>4, <1>6, <2>1 DEF WholeSealed
<1> QED
  BY <1>3, <1>5, <1>6, <1>7

\* The header is in the buffer: the first prefix is the empty one.
LEMMA OpenPackingPacks ==
  ASSUME FilesInv, NEW H, NEW P, Packed(H, P), NEW p \in Packers, OpenPacking(p)
  PROVE  PackedOn(H, P)
<1>1. PICK i \in Inodes :
        /\ ArtifactWritten(i, <<>>)
        /\ OutputsStay /\ ~HoldsOutput(i) /\ FilesInv'
        /\ packer' = [packer EXCEPT ![p] =
                        [packer[p] EXCEPT !.pc = "writing", !.dst = i,
                           !.buffer = <<HeaderFrame(Secret[p], packer[p].header)>>]]
        /\ dir' = [dir EXCEPT ![Packing] = i]
  BY OpenPackingWrites
<1>2. /\ packer[p].pc = "opening" /\ Sealing(packer[p].header, <<>>)
  BY DEF OpenPacking
<1>3. /\ H \in [Packers -> Headers] /\ P \in [Packers -> Seq(Seq(Bytes))]
      /\ Packs(p, packer[p], H[p], P[p]) /\ WholeSealed(H[p], P[p])
  BY DEF Packed
<1>4. /\ packer[p] \in PackerRecords /\ DOMAIN packer = Packers
  BY DEF FilesInv, Types, PackerTyped
<1>5. /\ packer[p].header = H[p] /\ H[p] \in Headers /\ H[p].totalSize <= MaxFileSize
      /\ P[p] = <<>> /\ packer[p].read = <<>> /\ packer[p].written = 0
      /\ H[p].fileId = p
  BY <1>2, <1>3 DEF Packs, Active, Ended
<1>17. PICK b : b = <<HeaderFrame(Secret[p], H[p])>>
  OBVIOUS
<1>6. PICK r : r = [packer[p] EXCEPT !.pc = "writing", !.dst = i, !.buffer = b]
  OBVIOUS
<1>7. /\ packer'[p] = r /\ \A q \in Packers \ {p} : packer'[q] = packer[q]
      /\ r.pc = "writing" /\ r.header = H[p] /\ r.read = <<>> /\ r.written = 0
      /\ r.buffer = b
  BY <1>1, <1>4, <1>5, <1>6, <1>17 DEF PackerRecords
<1>8. PICK s : s = Append(P[p], <<>>)
  OBVIOUS
<1>9. /\ SealsOne /\ sealed \subseteq sealed' /\ s \in Seq(Seq(Bytes))
      /\ WholeSealed(H[p], s)'
  <2>1. <<>> \in Seq(Bytes)
    OBVIOUS
  <2> QED
    BY <1>2, <1>3, <1>5, <1>8, <2>1, SealingPacks
<1>10. Len(s) = 1 /\ s[1] = <<>> /\ s # <<>>
  BY <1>5, <1>8
<1>11. Packs(p, r, H[p], s)
  BY <1>5, <1>7, <1>10 DEF Packs
<1>12. PICK H2, P2 : H2 = [H EXCEPT ![p] = H[p]] /\ P2 = [P EXCEPT ![p] = s]
  OBVIOUS
<1>13. <<HeaderFrame(Secret[p], H[p])>> \in Seq(Made(H2, P2))
  <2>1. PICK e : e = HeaderFrame(Secret[p], H[p])
    OBVIOUS
  <2>2. e \in Frames
    BY <1>5, <2>1, FrameTyped
  <2>3. e.aad = HeaderAad /\ e.plain = <<H[p]>>
    BY <2>1 DEF HeaderFrame, Frame
  <2>4. \A q, n, t : e.aad # ChunkAad(q, n, t)
    BY <2>3 DEF HeaderAad, ChunkAad
  <2>5. P2[p] # <<>> /\ H2[p] = H[p]
    BY <1>3, <1>10, <1>12
  <2>6. e \in Made(H2, P2)
    BY <2>2, <2>3, <2>4, <2>5 DEF Made
  <2> QED
    BY <2>1, <2>6
<1>14. Len(P[p]) = 0
  BY <1>5
<1>15. Packed(H2, P2)' /\ Grows(H, P, H2, P2)
  <2>1. Advances(H, P, p, r, H[p], s, H2, P2)
    BY <1>5, <1>7, <1>9, <1>10, <1>11, <1>12, <1>14 DEF Advances
  <2>2. \E k, new : ArtifactWritten(k, new) /\ new \in Seq(Made(H2, P2))
    <3>1. <<>> \in Seq(Made(H2, P2))
      OBVIOUS
    <3> QED
      BY <1>1, <3>1
  <2>3. r.buffer \in Seq(Made(H2, P2))
    BY <1>7, <1>13, <1>17
  <2> QED
    BY <1>9, <2>1, <2>2, <2>3, PackedAfter
<1>16. \A n \in OutputNames : dir'[n] = dir[n]
  BY <1>1, NamesOfKinds, NamesSplit DEF FilesInv, Types
<1> QED
  BY <1>1, <1>9, <1>15, <1>16 DEF PackedOn

\* A chunk is sealed: it is what lies between the last prefix and the new one.
LEMMA PackChunkPacks ==
  ASSUME FilesInv, NEW H, NEW P, Packed(H, P), NEW p \in Packers, PackChunk(p)
  PROVE  PackedOn(H, P)
<1>21. PICK n, c : n = packer[p].written /\ c = NextPiece(p)
  OBVIOUS
<1>22. PICK t : t = IF n = 0 THEN HeaderTag(p) ELSE ChunkTag(p, n - 1)
  OBVIOUS
<1>16. PICK e : e = ChunkFrame(Secret[p], packer[p].header, n, t, c)
  OBVIOUS
<1>1. /\ n = packer[p].written /\ c = NextPiece(p)
      /\ t \in Packers \X Int /\ e \in Frames
      /\ ArtifactsStay /\ OutputsStay /\ FilesInv' /\ dir' = dir
      /\ packer' = [packer EXCEPT ![p] =
                      [packer[p] EXCEPT !.written = n + 1, !.read = packer[p].read \o c,
                                        !.buffer = Append(packer[p].buffer, e)]]
  <2>1. t \in Packers \X Int /\ Buffers(p, n, e)
    <3>1. /\ n = packer[p].written
          /\ t = IF n = 0 THEN HeaderTag(p) ELSE ChunkTag(p, n - 1)
          /\ e = ChunkFrame(Secret[p], packer[p].header, n, t, NextPiece(p))
      BY <1>16, <1>21, <1>22
    <3> QED
      BY <3>1, PackChunkBuffers
  <2> QED
    BY <1>21, <2>1 DEF Buffers
<1>2. /\ packer[p].pc = "writing" /\ Sealing(packer[p].header, packer[p].read \o c)
  BY <1>1 DEF PackChunk
<1>3. /\ H \in [Packers -> Headers] /\ P \in [Packers -> Seq(Seq(Bytes))]
      /\ Packs(p, packer[p], H[p], P[p]) /\ WholeSealed(H[p], P[p])
  BY DEF Packed
<1>4. /\ packer[p] \in PackerRecords /\ DOMAIN packer = Packers
  BY <1>1, <1>2 DEF FilesInv, Types, PackerTyped
<1>5. /\ packer[p].header = H[p] /\ H[p] \in Headers /\ H[p].totalSize <= MaxFileSize
      /\ H[p].fileId = p
      /\ n \in Nat /\ packer[p].read \in Seq(Bytes)
      /\ Len(P[p]) = n + 1 /\ P[p][n + 1] = packer[p].read
  BY <1>1, <1>2, <1>3, <1>4 DEF Packs, Active, Ended, PackerRecords
<1>6. c \in Seq(Bytes)
  BY <1>1, <1>2, PieceTyped DEF FilesInv
<1>7. PICK all \in Seq(Bytes) : all = packer[p].read \o c
  BY <1>5, <1>6, ConcatProperties
<1>23. PICK b : b = Append(packer[p].buffer, e)
  OBVIOUS
<1>8. PICK r : r = [packer[p] EXCEPT !.written = n + 1, !.read = all, !.buffer = b]
  OBVIOUS
<1>9. /\ packer'[p] = r /\ \A q \in Packers \ {p} : packer'[q] = packer[q]
      /\ r.pc = "writing" /\ r.header = H[p] /\ r.read = all /\ r.written = n + 1
      /\ r.buffer = b
  BY <1>1, <1>2, <1>4, <1>5, <1>7, <1>8, <1>23 DEF PackerRecords
<1>10. PICK s : s = Append(P[p], all)
  OBVIOUS
<1>11. /\ SealsOne /\ sealed \subseteq sealed' /\ s \in Seq(Seq(Bytes))
       /\ WholeSealed(H[p], s)'
  BY <1>2, <1>3, <1>5, <1>7, <1>10, SealingPacks
<1>12. /\ Len(s) = n + 2 /\ \A k \in 1..Len(P[p]) : s[k] = P[p][k]
       /\ s[n + 2] = all /\ s[n + 1] = packer[p].read /\ s # <<>>
       /\ Len(P[p]) <= Len(s) /\ P[p] # <<>> /\ s[1] = P[p][1]
  <2>1. PICK old \in Seq(Seq(Bytes)) : old = P[p]
    BY <1>3
  <2>6. all \in Seq(Bytes) /\ s = Append(old, all)
    BY <1>7, <1>10, <2>1
  <2>2. /\ Len(s) = Len(old) + 1 /\ \A k \in 1..Len(old) : s[k] = old[k]
        /\ s[Len(old) + 1] = all /\ s # <<>>
    BY <2>6, AppendProperties
  <2>3. Len(old) = n + 1 /\ old # <<>> /\ 1 \in 1..Len(old) /\ n + 1 \in 1..Len(old)
    BY <1>5, <2>1
  <2>4. Len(s) = n + 2 /\ s[n + 2] = all /\ s[n + 1] = old[n + 1] /\ s[1] = old[1]
    BY <1>5, <2>2, <2>3
  <2>5. Len(old) <= Len(s)
    BY <1>5, <2>3, <2>4
  <2> QED
    BY <1>5, <2>1, <2>2, <2>3, <2>4, <2>5
<1>13. Packs(p, r, H[p], s)
  <2>1. s[1] = <<>>
    BY <1>3, <1>12 DEF Packs
  <2>2. Len(s) = r.written + 1 /\ s[r.written + 1] = r.read
    BY <1>5, <1>9, <1>12
  <2> QED
    BY <1>5, <1>9, <2>1, <2>2 DEF Packs
<1>14. PICK H2, P2 : H2 = [H EXCEPT ![p] = H[p]] /\ P2 = [P EXCEPT ![p] = s]
  OBVIOUS
<1>15. /\ H2 \in [Packers -> Headers] /\ P2 \in [Packers -> Seq(Seq(Bytes))]
       /\ Grows(H, P, H2, P2) /\ P2[p] = s
  <2>1. \A q \in Packers : Len(P[q]) \in Nat
    BY <1>3
  <2>2. \A q \in Packers \ {p} : P2[q] = P[q] /\ H2[q] = H[q]
    BY <1>3, <1>14
  <2>3. P2[p] = s /\ H2[p] = H[p]
    BY <1>3, <1>14
  <2>4. Grows(H, P, H2, P2)
    BY <1>12, <2>1, <2>2, <2>3 DEF Grows
  <2> QED
    BY <1>3, <1>5, <1>11, <1>14, <2>3, <2>4
<1>17. e \in Made(H2, P2)
  <2>1. e \in Frames
    BY <1>1
  <2>2. e.aad = ChunkAad(p, n, t) /\ e.plain = c
    BY <1>5, <1>16 DEF ChunkFrame, Frame
  <2>3. e.aad # HeaderAad
    BY <2>2 DEF ChunkAad, HeaderAad
  <2>4. ASSUME NEW q \in Packers, NEW m \in Nat, NEW w, e.aad = ChunkAad(q, m, w)
        PROVE  m + 2 <= Len(P2[q]) /\ P2[q][m + 2] = P2[q][m + 1] \o e.plain
    <3>1. q = p /\ m = n
      BY <2>2, <2>4 DEF ChunkAad
    <3>2. n + 2 <= Len(s) /\ s[n + 2] = s[n + 1] \o c
      BY <1>5, <1>7, <1>12
    <3> QED
      BY <1>15, <2>2, <3>1, <3>2
  <2> QED
    BY <2>1, <2>3, <2>4 DEF Made
<1>18. b \in Seq(Made(H2, P2))
  <2>1. packer[p].buffer \in Seq(Made(H, P))
    BY DEF Packed
  <2>2. Seq(Made(H, P)) \subseteq Seq(Made(H2, P2))
    BY <1>3, <1>15, MadeGrows
  <2>3. packer[p].buffer \in Seq(Made(H2, P2))
    BY <2>1, <2>2
  <2> QED
    BY <1>17, <1>23, <2>3, AppendProperties
<1>19. Packed(H2, P2)' /\ Grows(H, P, H2, P2)
  <2>1. Advances(H, P, p, r, H[p], s, H2, P2)
    BY <1>5, <1>9, <1>11, <1>12, <1>13, <1>14 DEF Advances
  <2> QED
    BY <1>1, <1>9, <1>11, <1>18, <2>1, PackedAfter
<1>20. \A m \in OutputNames : dir'[m] = dir[m]
  BY <1>1
<1> QED
  BY <1>1, <1>11, <1>19, <1>20 DEF PackedOn

\* What is written is what the packer has made, wherever the file is by now.
LEMMA FlushPackingPacks ==
  ASSUME FilesInv, NEW H, NEW P, Packed(H, P), NEW p \in Packers, FlushPacking(p)
  PROVE  PackedOn(H, P)
<1>1. PICK b, i : b = packer[p].buffer /\ i = packer[p].dst
  OBVIOUS
<1>2. /\ i \in Inodes /\ HoldsArtifact(i) /\ OutputsStay /\ FilesInv' /\ dir' = dir
      /\ Flushed(packer[p]) \in Nat /\ b \in Seq(Frames)
      /\ \E k \in 1..Len(b) :
           /\ ArtifactWritten(i, WriteAt(data[i], Flushed(packer[p]),
                                         SubSeq(b, 1, k), Damaged))
           /\ packer' = [packer EXCEPT ![p] =
                           [packer[p] EXCEPT !.buffer = SubSeq(b, k + 1, Len(b))]]
  <2>1. Flushes(p, b, i)
    BY <1>1, FlushPackingWrites
  <2> QED
    BY <2>1 DEF Flushes
<1>3. PICK k \in 1..Len(b) :
        /\ ArtifactWritten(i, WriteAt(data[i], Flushed(packer[p]), SubSeq(b, 1, k), Damaged))
        /\ packer' = [packer EXCEPT ![p] =
                        [packer[p] EXCEPT !.buffer = SubSeq(b, k + 1, Len(b))]]
  BY <1>2
<1>4. PICK rest, piece : rest = SubSeq(b, k + 1, Len(b)) /\ piece = SubSeq(b, 1, k)
  OBVIOUS
<1>5. /\ H \in [Packers -> Headers] /\ P \in [Packers -> Seq(Seq(Bytes))]
      /\ Packs(p, packer[p], H[p], P[p]) /\ WholeSealed(H[p], P[p])
      /\ b \in Seq(Made(H, P)) /\ data[i] \in Seq(Made(H, P))
  BY <1>1, <1>2 DEF Packed
<1>6. rest \in Seq(Made(H, P)) /\ piece \in Seq(Made(H, P))
  <2>1. Len(b) \in Nat /\ k \in Nat /\ 0 \in Nat
    BY <1>2
  <2>2. Len(b) \in k..Len(b) /\ k \in 0..Len(b)
    BY <2>1
  <2>3. SubSeq(b, k + 1, Len(b)) \in Seq(Made(H, P))
    BY <1>5, <2>1, <2>2, TakenFrom
  <2>4. SubSeq(b, 0 + 1, k) \in Seq(Made(H, P))
    BY <1>5, <2>1, <2>2, TakenFrom
  <2> QED
    BY <1>4, <2>3, <2>4
<1>7. PICK r : r = [packer[p] EXCEPT !.buffer = rest]
  OBVIOUS
<1>8. /\ packer[p] \in PackerRecords /\ DOMAIN packer = Packers
      /\ packer[p].pc \in {"writing", "closing"}
      /\ UNCHANGED <<source, dir, unpacker, sealed, events>>
  BY DEF FilesInv, Types, PackerTyped, FlushPacking
<1>9. /\ packer'[p] = r /\ \A q \in Packers \ {p} : packer'[q] = packer[q]
      /\ r.pc = packer[p].pc /\ r.header = packer[p].header /\ r.read = packer[p].read
      /\ r.written = packer[p].written /\ r.buffer = rest
  BY <1>3, <1>4, <1>7, <1>8 DEF PackerRecords
<1>10. Packs(p, r, H[p], P[p])
  BY <1>5, <1>9 DEF Packs, Active
<1>11. PICK H2, P2 : H2 = [H EXCEPT ![p] = H[p]] /\ P2 = [P EXCEPT ![p] = P[p]]
  OBVIOUS
<1>12. H2 = H /\ P2 = P
  BY <1>5, <1>11
<1>13. P[p] \in Seq(Seq(Bytes)) /\ H[p] \in Headers /\ Len(P[p]) \in Nat
  BY <1>5
<1>14. Advances(H, P, p, r, H[p], P[p], H2, P2)
  BY <1>8, <1>9, <1>10, <1>11, <1>13 DEF Advances
<1>15. WholeSealed(H[p], P[p])'
  BY <1>5, <1>8 DEF WholeSealed
<1>16. WriteAt(data[i], Flushed(packer[p]), piece, Damaged) \in Seq(Made(H, P))
  <2>1. Damaged \in Made(H, P)
    <3>1. Damaged \in Frames /\ Damaged.aad # HeaderAad
      BY DEF Damaged, Frame, HeaderAad, Frames
    <3>2. \A q, m, w : Damaged.aad # ChunkAad(q, m, w)
      BY DEF Damaged, Frame, ChunkAad
    <3> QED
      BY <3>1, <3>2 DEF Made
  <2> QED
    BY <1>2, <1>5, <1>6, <2>1, Written
<1>17. \E j, new : ArtifactWritten(j, new) /\ new \in Seq(Made(H2, P2))
  BY <1>3, <1>4, <1>12, <1>16
<1>18. r.buffer \in Seq(Made(H2, P2))
  BY <1>6, <1>9, <1>12
<1>19. Packed(H2, P2)' /\ Grows(H, P, H2, P2)
  BY <1>14, <1>15, <1>17, <1>18, PackedAfter
<1> QED
  BY <1>2, <1>8, <1>19 DEF PackedOn, SealsOne

\* At most one unpacker runs.
Alone == \A u, v \in Unpackers : Active(unpacker[u]) /\ Active(unpacker[v]) => u = v
NoOverlap == Overlapping \cap Unpackers = {}

\* No two output or temporary names are links to one file.
Distinct == \A m, n \in OutputNames : dir[m] = dir[n] /\ dir[m] # NoFile => m = n

\* An unpacker reads what packers made and has opened a header of one; its
\* output name is free; what it has written is a prefix that was packed; and
\* what it is about to deliver is a whole.
Unpacks(r, H, P) ==
  /\ r.read \in Seq(Made(H, P))
  /\ r.pc \in {"idle", "resolving", "opening"} => r.index = 0 /\ r.written = 0
  /\ r.pc \in {"resolving", "opening", "verifying"} =>
       P[r.header.fileId] # <<>> /\ r.header = H[r.header.fileId]
  /\ r.pc \in {"opening", "verifying", "replacing"} => dir[Output(r.out)] = NoFile
  /\ r.pc = "verifying" =>
       /\ dir[Unpacking(r.out)] = r.dst
       /\ r.index < Len(P[r.header.fileId])
       /\ data[r.dst] = P[r.header.fileId][r.index + 1]
       /\ r.written = Len(data[r.dst])
  /\ r.pc = "replacing" /\ dir[Unpacking(r.out)] \in Inodes =>
       data[dir[Unpacking(r.out)]] \in sealed

Unpacked(H, P) == Alone /\ Distinct /\ \A u \in Unpackers : Unpacks(unpacker[u], H, P)

DeliveryInv(H, P) == FilesInv /\ Packed(H, P) /\ Unpacked(H, P)

\* An unpacker that has ended or whose files are left alone.
LEMMA UnpacksStay ==
  ASSUME FilesInv, NEW H, NEW P, Packed(H, P), NEW H2, NEW P2, Packed(H2, P2)',
         Grows(H, P, H2, P2), sealed \subseteq sealed',
         NEW v \in Unpackers, Unpacks(unpacker[v], H, P), unpacker'[v] = unpacker[v],
         \/ ~Active(unpacker[v])
         \/ OutputsStay /\ \A n \in OutputNames : dir'[n] = dir[n]
  PROVE  Unpacks(unpacker[v], H2, P2)'
<1> DEFINE r == unpacker[v]
<1>1. UnpackerTyped(r)
  BY DEF FilesInv, Types
<1>2. /\ H \in [Packers -> Headers] /\ P \in [Packers -> Seq(Seq(Bytes))]
      /\ H2 \in [Packers -> Headers] /\ P2 \in [Packers -> Seq(Seq(Bytes))]
  BY DEF Packed
<1>5. r.read \in Seq(Made(H2, P2))
  <2>1. r.read \in Seq(Made(H, P))
    BY DEF Unpacks
  <2>2. Seq(Made(H, P)) \subseteq Seq(Made(H2, P2))
    BY <1>2, MadeGrows
  <2> QED
    BY <2>1, <2>2
<1>3. CASE ~Active(r)
  BY <1>3, <1>5 DEF Unpacks, Active, Ended
<1>4. CASE OutputsStay /\ \A n \in OutputNames : dir'[n] = dir[n]
  <2>1. r.pc \in {"idle", "resolving", "opening"} => r.index = 0 /\ r.written = 0
    BY DEF Unpacks
  <2>2. r.pc \in {"resolving", "opening", "verifying"} =>
          P2[r.header.fileId] # <<>> /\ r.header = H2[r.header.fileId]
    BY <1>1, <1>2, MadeGrows DEF Unpacks, Grows, UnpackerTyped, Headers
  <2>3. r.pc \in {"opening", "verifying", "replacing"} => dir'[Output(r.out)] = NoFile
    BY <1>1, <1>4, NamesOfKinds DEF Unpacks, UnpackerTyped
  <2>4. ASSUME r.pc = "verifying"
        PROVE  /\ dir'[Unpacking(r.out)] = r.dst
               /\ r.index < Len(P2[r.header.fileId])
               /\ data'[r.dst] = P2[r.header.fileId][r.index + 1]
               /\ r.written = Len(data'[r.dst])
    <3>1. PICK f \in Packers : f = r.header.fileId
      BY <1>1, <2>4 DEF UnpackerTyped, Headers
    <3>2. /\ dir[Unpacking(r.out)] = r.dst /\ r.index < Len(P[f])
          /\ data[r.dst] = P[f][r.index + 1] /\ r.written = Len(data[r.dst])
      BY <2>4, <3>1 DEF Unpacks
    <3>3. /\ r.index \in Nat /\ r.dst \in Inodes /\ r.out \in 1..Outputs
          /\ Len(P[f]) \in Nat /\ Len(P2[f]) \in Nat
      BY <1>1, <1>2, <2>4 DEF UnpackerTyped, UnpackerRecords
    <3>4. Len(P[f]) <= Len(P2[f]) /\ \A k \in 1..Len(P[f]) : P2[f][k] = P[f][k]
      BY DEF Grows
    <3>5. r.index + 1 \in 1..Len(P[f]) /\ r.index < Len(P2[f])
      BY <3>2, <3>3, <3>4
    <3>6. data'[r.dst] = data[r.dst]
      <4>1. HoldsOutput(r.dst)'
        BY DEF HoldsOutput
      <4> QED
        BY <1>4, <3>3, <4>1 DEF OutputsStay
    <3>7. dir'[Unpacking(r.out)] = r.dst
      BY <1>4, <3>2, <3>3, NamesOfKinds
    <3> QED
      BY <3>1, <3>2, <3>4, <3>5, <3>6, <3>7
  <2>5. ASSUME r.pc = "replacing", dir'[Unpacking(r.out)] \in Inodes
        PROVE  data'[dir'[Unpacking(r.out)]] \in sealed'
    <3>1. Unpacking(r.out) \in OutputNames
      BY <1>1, <2>5, NamesOfKinds DEF UnpackerTyped
    <3>2. PICK i \in Inodes : i = dir'[Unpacking(r.out)] /\ i = dir[Unpacking(r.out)]
      BY <1>4, <2>5, <3>1
    <3>3. data[i] \in sealed
      BY <2>5, <3>2 DEF Unpacks
    <3>4. HoldsOutput(i)'
      BY <3>1, <3>2 DEF HoldsOutput
    <3>5. data'[i] = data[i]
      BY <1>4, <3>4 DEF OutputsStay
    <3> QED
      BY <3>2, <3>3, <3>5
  <2> QED
    BY <1>5, <2>1, <2>2, <2>3, <2>4, <2>5 DEF Unpacks
<1> QED
  BY <1>3, <1>4

\* A step that leaves the unpackers and their files alone.
LEMMA UnpackedStays ==
  ASSUME FilesInv, NEW H, NEW P, Packed(H, P), NEW H2, NEW P2, Packed(H2, P2)',
         Grows(H, P, H2, P2), sealed \subseteq sealed', Unpacked(H, P),
         unpacker' = unpacker, OutputsStay, \A n \in OutputNames : dir'[n] = dir[n]
  PROVE  Unpacked(H2, P2)'
<1>1. \A v \in Unpackers : Unpacks(unpacker[v], H2, P2)'
  BY UnpacksStay DEF Unpacked
<1>2. Alone' /\ Distinct'
  BY DEF Unpacked, Alone, Distinct
<1> QED
  BY <1>1, <1>2 DEF Unpacked

\* A step that leaves the packers and the artifacts alone.
LEMMA PackedStays ==
  ASSUME NEW H, NEW P, Packed(H, P), packer' = packer, sealed' = sealed, ArtifactsStay
  PROVE  Packed(H, P)' /\ Grows(H, P, H, P)
<1>1. \A i \in Inodes : HoldsArtifact(i)' => data'[i] \in Seq(Made(H, P))
  BY ArtifactsOf DEF Packed
<1>2. \A p \in Packers : Len(P[p]) <= Len(P[p])
  <2>1. \A p \in Packers : Len(P[p]) \in Nat
    BY DEF Packed
  <2> QED
    BY <2>1
<1>3. \A p \in Packers : Packs(p, packer[p], H[p], P[p])' /\ WholeSealed(H[p], P[p])'
  BY DEF Packed, WholeSealed
<1> QED
  BY <1>1, <1>2, <1>3 DEF Packed, Grows

\* What is delivered is left alone.
LEMMA SameDelivered ==
  ASSUME \A n \in 1..Outputs : dir'[Output(n)] = dir[Output(n)],
         \A n \in 1..Outputs : dir[Output(n)] # NoFile =>
           data'[dir[Output(n)]] = data[dir[Output(n)]]
  PROVE  Delivered' = Delivered
BY DEF Delivered

\* The same for a step that changes no file that is in use.
LEMMA DeliveredStays ==
  ASSUME FilesInv, OutputsStay, \A n \in 1..Outputs : dir'[Output(n)] = dir[Output(n)]
  PROVE  Delivered' = Delivered
<1>1. ASSUME NEW n \in 1..Outputs, dir[Output(n)] # NoFile
      PROVE  data'[dir[Output(n)]] = data[dir[Output(n)]]
  <2>1. PICK i \in Inodes : i = dir[Output(n)]
    BY <1>1, NamesOfKinds, NamesSplit DEF FilesInv, Types, Files
  <2>2. HoldsOutput(i)'
    BY <2>1, NamesOfKinds DEF HoldsOutput
  <2> QED
    BY <2>1, <2>2 DEF OutputsStay
<1> QED
  BY <1>1, SameDelivered

\* What an unpacking step does: nothing that can be seen, or a delivery.
UnpackedOn(H, P) ==
  /\ DeliveryInv(H, P)' /\ sealed' = sealed
  /\ \/ Delivered' = Delivered
     \/ \E n \in 1..Outputs : Delivery!Deliver(n)

\* Only u may be running before and after a step of u.
LEMMA StaysAlone ==
  ASSUME Alone, NEW u \in Unpackers, \A v \in Unpackers \ {u} : unpacker'[v] = unpacker[v],
         \/ Active(unpacker[u])
         \/ ~Active(unpacker'[u])
         \/ \A v \in Unpackers \ {u} : ~Active(unpacker[v])
  PROVE  Alone'
BY DEF Alone

\* The plain steps of an unpacker: an opened header is one a packer wrote, a
\* number of bytes that matches makes the output a whole, and a rename delivers.
LEMMA PlainUnpackUnpacks ==
  ASSUME NoOverlap, NEW H, NEW P, DeliveryInv(H, P), NEW u \in Unpackers,
         NEW r, PlainUnpack(u, r)
  PROVE  UnpackedOn(H, P)
<1> USE DEF DeliveryInv
<1>1. /\ FilesInv' /\ ArtifactsStay /\ OutputsStay
      /\ unpacker'[u] = r /\ \A v \in Unpackers \ {u} : unpacker'[v] = unpacker[v]
  BY PlainUnpackStays
<1>2. /\ packer' = packer /\ sealed' = sealed /\ UnpackerTyped(r)
      /\ UnpackerTyped(unpacker[u])
  BY DEF PlainUnpack, FilesInv, Types
<1>3. Packed(H, P)' /\ Grows(H, P, H, P)
  BY <1>1, <1>2, PackedStays
<1>4. /\ H \in [Packers -> Headers] /\ P \in [Packers -> Seq(Seq(Bytes))]
      /\ \A p \in Packers : H[p].fileId = p /\ WholeSealed(H[p], P[p])
      /\ Unpacks(unpacker[u], H, P) /\ Alone /\ Distinct
      /\ \A v \in Unpackers : Unpacks(unpacker[v], H, P)
  BY DEF Packed, Packs, Unpacked
<1>14. r.read \in Seq(Made(H, P))
  <2>1. PICK S : S = Made(H, P)
    OBVIOUS
  <2>2. /\ unpacker[u].read \in Seq(S)
        /\ \A i \in Inodes : HoldsArtifact(i) => data[i] \in Seq(S)
    BY <1>4, <2>1 DEF Packed, Unpacks
  <2>3. TakesFrames(u, r)
    BY DEF PlainUnpack
  <2>4. r.read \in Seq(S)
    BY <2>2, <2>3 DEF TakesFrames
  <2> QED
    BY <2>1, <2>4
<1>5. /\ dir \in [Names -> Files] /\ DOMAIN dir = Names /\ NoFile \notin Inodes
      /\ \A n \in 1..Outputs : Output(n) \in Names /\ Unpacking(n) \in Names
  BY NamesOfKinds, NamesSplit, FilesOK DEF FilesInv, Types
<1>6. ASSUME Active(unpacker[u]) \/ \A v \in Unpackers \ {u} : ~Active(unpacker[v]),
             dir' = dir, Unpacks(r, H, P)'
      PROVE  UnpackedOn(H, P)
  <2>1. Alone'
    BY <1>1, <1>4, <1>6, StaysAlone
  <2>2. \A v \in Unpackers \ {u} : Unpacks(unpacker[v], H, P)'
    BY <1>1, <1>2, <1>3, <1>4, <1>6, UnpacksStay
  <2>3. Unpacks(unpacker[u], H, P)'
    BY <1>1, <1>6 DEF Unpacks
  <2>4. Distinct'
    BY <1>4, <1>6 DEF Distinct
  <2>5. Delivered' = Delivered
    BY <1>1, <1>6, DeliveredStays
  <2> QED
    BY <1>1, <1>2, <1>3, <2>1, <2>2, <2>3, <2>4, <2>5 DEF UnpackedOn, Unpacked
<1>7. CASE /\ unpacker[u].pc = "idle" /\ r.pc = "resolving" /\ dir' = dir
           /\ MayBegin(u, Unpackers, unpacker)
           /\ \E n \in {Artifact, Received} : r.src = dir[n]
           /\ r.header = r.read[1].plain[1] /\ r.read # <<>>
           /\ r.read[1].aad = HeaderAad
  <2>1. \A v \in Unpackers \ {u} : ~Active(unpacker[v])
    BY <1>7 DEF MayBegin, NoOverlap
  <2>3. PICK a \in Seq(Made(H, P)) : a = r.read
    BY <1>14
  <2>4. a # <<>> /\ a[1].aad = HeaderAad /\ r.header = a[1].plain[1]
    BY <1>7, <2>3
  <2>5. a[1] \in Made(H, P)
    BY <2>3, <2>4
  <2>6. PICK p \in Packers : P[p] # <<>> /\ a[1].plain = <<H[p]>>
    BY <2>4, <2>5 DEF Made
  <2>7. r.header = H[p] /\ r.header.fileId = p
    BY <1>4, <2>4, <2>6
  <2>8. r.index = 0 /\ r.written = 0
    BY <1>4, <1>7 DEF PlainUnpack, Unpacks
  <2>9. Unpacks(r, H, P)'
    BY <1>7, <1>14, <2>6, <2>7, <2>8 DEF Unpacks
  <2> QED
    BY <1>6, <1>7, <2>1, <2>9
<1>8. CASE /\ unpacker[u].pc = "resolving" /\ r.pc = "opening" /\ dir' = dir
           /\ r.src = unpacker[u].src /\ r.header = unpacker[u].header
           /\ dir[Output(r.out)] = NoFile
  <2>1. r.index = 0 /\ r.written = 0
    BY <1>4, <1>8 DEF PlainUnpack, Unpacks
  <2>2. Unpacks(r, H, P)'
    BY <1>4, <1>8, <1>14, <2>1 DEF Unpacks
  <2>3. Active(unpacker[u])
    BY <1>8 DEF Active, Ended
  <2> QED
    BY <1>6, <1>8, <2>2, <2>3
<1>15. CASE /\ unpacker[u].pc = "verifying" /\ r.pc = "verifying" /\ dir' = dir
            /\ r.src = unpacker[u].src /\ r.dst = unpacker[u].dst
            /\ r.header = unpacker[u].header /\ r.out = unpacker[u].out
  <2>1. r.index = unpacker[u].index /\ r.written = unpacker[u].written
    BY <1>15 DEF PlainUnpack
  <2>2. PICK i \in Inodes : i = unpacker[u].dst
    BY <1>2, <1>15 DEF UnpackerTyped
  <2>3. unpacker[u].out \in 1..Outputs
    BY <1>2, <1>15 DEF UnpackerTyped
  <2>4. dir[Unpacking(r.out)] = i
    BY <1>4, <1>15, <2>2 DEF Unpacks
  <2>5. data'[i] = data[i]
    <3>1. HoldsOutput(i)'
      BY <1>15, <2>3, <2>4, NamesOfKinds DEF HoldsOutput
    <3> QED
      BY <1>1, <3>1 DEF OutputsStay
  <2>6. Unpacks(r, H, P)'
    BY <1>4, <1>14, <1>15, <2>1, <2>2, <2>5 DEF Unpacks
  <2>7. Active(unpacker[u])
    BY <1>15 DEF Active, Ended
  <2> QED
    BY <1>6, <1>15, <2>6, <2>7
<1>9. CASE /\ unpacker[u].pc = "verifying" /\ r.pc = "replacing" /\ dir' = dir
           /\ r.src = NoFile
           /\ r.header = unpacker[u].header /\ r.out = unpacker[u].out
           /\ unpacker[u].written = unpacker[u].header.totalSize
  <2>1. PICK f \in Packers : f = unpacker[u].header.fileId
    BY <1>2, <1>9 DEF UnpackerTyped, Headers
  <2>2. PICK i \in Inodes : i = unpacker[u].dst
    BY <1>2, <1>9 DEF UnpackerTyped
  <2>3. PICK k : k = unpacker[u].index + 1
    OBVIOUS
  <2>4. /\ unpacker[u].index \in Nat /\ unpacker[u].out \in 1..Outputs
        /\ unpacker[u].header = H[f] /\ dir[Output(r.out)] = NoFile
        /\ dir[Unpacking(r.out)] = i /\ unpacker[u].index < Len(P[f])
        /\ data[i] = P[f][k] /\ Len(data[i]) = H[f].totalSize
    BY <1>2, <1>4, <1>9, <2>1, <2>2, <2>3
    DEF Unpacks, UnpackerTyped, UnpackerRecords
  <2>5. Len(P[f]) \in Nat
    BY <1>4
  <2>6. k \in 1..Len(P[f]) /\ P[f][k] \in Seq(Bytes)
    BY <1>4, <2>3, <2>4, <2>5
  <2>7. PICK c \in Seq(Bytes) : c = P[f][k]
    BY <2>6
  <2>8. H[f].totalSize = Len(c) /\ Len(c) \in Nat
    BY <2>4, <2>7
  <2>9. SubSeq(c, 1, Len(c)) \in sealed
    <3>1. Len(P[f][k]) >= H[f].totalSize
      BY <2>7, <2>8
    <3>2. SubSeq(P[f][k], 1, H[f].totalSize) \in sealed
      BY <1>4, <2>6, <3>1 DEF WholeSealed
    <3> QED
      BY <2>7, <2>8, <3>2, Zenon
  <2>10. data[i] \in sealed
    BY <2>4, <2>7, <2>9, SubSeqFull
  <2>11. data'[i] = data[i]
    <3>1. HoldsOutput(i)'
      BY <1>9, <2>4, NamesOfKinds DEF HoldsOutput
    <3> QED
      BY <1>1, <3>1 DEF OutputsStay
  <2>12. Unpacks(r, H, P)'
    BY <1>2, <1>9, <1>14, <2>4, <2>10, <2>11 DEF Unpacks
  <2>13. Active(unpacker[u])
    BY <1>9 DEF Active, Ended
  <2> QED
    BY <1>6, <1>9, <2>12, <2>13
<1>10. CASE r.pc \in {"failed", "killed", "stranded"} /\ dir' = dir
  <2>1. Unpacks(r, H, P)' /\ ~Active(r)
    BY <1>10, <1>14 DEF Unpacks, Active, Ended
  <2>2. \A v \in Unpackers \ {u} : Unpacks(unpacker[v], H, P)'
    BY <1>1, <1>2, <1>3, <1>4, <1>10, UnpacksStay
  <2>3. Unpacks(unpacker[u], H, P)'
    BY <1>1, <2>1 DEF Unpacks
  <2>4. Distinct' /\ Alone'
    BY <1>1, <1>4, <1>10, <2>1, StaysAlone DEF Distinct
  <2>5. Delivered' = Delivered
    BY <1>1, <1>10, DeliveredStays
  <2> QED
    BY <1>1, <1>2, <1>3, <2>2, <2>3, <2>4, <2>5 DEF UnpackedOn, Unpacked
<1>11. ASSUME Active(unpacker[u]), r.pc \in Ended \ {"idle"}, Distinct',
              \/ Delivered' = Delivered
              \/ \E n \in 1..Outputs : Delivery!Deliver(n)
       PROVE  UnpackedOn(H, P)
  <2>1. Unpacks(r, H, P)' /\ ~Active(r)
    BY <1>11, <1>14 DEF Unpacks, Active, Ended
  <2>2. \A v \in Unpackers \ {u} : ~Active(unpacker[v])
    BY <1>4, <1>11 DEF Alone
  <2>3. \A v \in Unpackers \ {u} : Unpacks(unpacker[v], H, P)'
    BY <1>1, <1>2, <1>3, <1>4, <2>2, UnpacksStay
  <2>4. Unpacks(unpacker[u], H, P)'
    BY <1>1, <2>1 DEF Unpacks
  <2>5. Alone'
    BY <1>1, <1>4, <2>2, StaysAlone
  <2> QED
    BY <1>1, <1>2, <1>3, <1>11, <2>3, <2>4, <2>5 DEF UnpackedOn, Unpacked
<1>12. CASE /\ r.pc \in {"failed", "killed", "stranded"}
            /\ unpacker[u].pc \in {"opening", "verifying", "replacing"}
            /\ dir' = Unlinked(Unpacking(unpacker[u].out))
  <2>1. PICK n \in 1..Outputs : n = unpacker[u].out
    BY <1>2, <1>12 DEF UnpackerTyped
  <2>2. dir' = [dir EXCEPT ![Unpacking(n)] = NoFile]
    BY <1>12, <2>1 DEF Unlinked
  <2>3. Distinct'
    BY <1>4, <1>5, <2>2, NamesSplit DEF Distinct
  <2>4. Delivered' = Delivered
    BY <1>1, <1>5, <2>2, NamesOfKinds, DeliveredStays
  <2> QED
    BY <1>11, <1>12, <2>3, <2>4 DEF Active, Ended
<1>13. CASE /\ unpacker[u].pc = "replacing" /\ r.pc = "done"
            /\ dir[Unpacking(unpacker[u].out)] # NoFile
            /\ dir' = Renamed(Unpacking(unpacker[u].out), Output(unpacker[u].out))
  <2>1. PICK n \in 1..Outputs : n = unpacker[u].out
    BY <1>2, <1>13 DEF UnpackerTyped
  <2>2. PICK i \in Inodes : i = dir[Unpacking(n)]
    BY <1>5, <1>13, <2>1 DEF Files
  <2>3. dir' = [dir EXCEPT ![Output(n)] = i, ![Unpacking(n)] = NoFile]
    BY <1>13, <2>1, <2>2 DEF Renamed
  <2>4. /\ dir'[Output(n)] = i /\ dir'[Unpacking(n)] = NoFile
        /\ \A m \in Names \ {Output(n), Unpacking(n)} : dir'[m] = dir[m]
    BY <1>5, <2>3, NamesOfKinds
  <2>5. Distinct'
    BY <1>4, <1>5, <2>2, <2>4, NamesOfKinds, NamesSplit DEF Distinct
  <2>6. dir[Output(n)] = NoFile /\ data[i] \in sealed
    BY <1>4, <1>13, <2>1, <2>2 DEF Unpacks
  <2>7. ASSUME NEW m \in 1..Outputs, m # n, dir[Output(m)] # NoFile
        PROVE  dir'[Output(m)] = dir[Output(m)]
               /\ data'[dir[Output(m)]] = data[dir[Output(m)]]
    <3>1. Output(m) \in Names \ {Output(n), Unpacking(n)}
      BY <1>5, <2>7, NamesOfKinds
    <3>2. PICK j \in Inodes : j = dir[Output(m)] /\ j = dir'[Output(m)]
      BY <1>5, <2>4, <2>7, <3>1 DEF Files
    <3>3. HoldsOutput(j)'
      BY <3>2, NamesOfKinds DEF HoldsOutput
    <3> QED
      BY <1>1, <3>2, <3>3 DEF OutputsStay
  <2>8. data'[i] = data[i]
    <3>1. HoldsOutput(i)'
      BY <2>4, NamesOfKinds DEF HoldsOutput
    <3> QED
      BY <1>1, <3>1 DEF OutputsStay
  <2>9. Delivery!Deliver(n)
    <3>1. Delivered[n] = Nothing
      BY <2>6 DEF Delivered
    <3>2. PICK c \in sealed : c = data[i]
      BY <2>6
    <3>3. Delivered'[n] = c
      BY <1>5, <2>2, <2>4, <2>8, <3>2 DEF Delivered
    <3>4. \A m \in 1..Outputs : m # n => Delivered'[m] = Delivered[m]
      <4>1. \A m \in 1..Outputs : m # n => dir'[Output(m)] = dir[Output(m)]
        BY <1>5, <2>4, NamesOfKinds
      <4> QED
        BY <2>7, <4>1 DEF Delivered
    <3>5. Delivered' = [Delivered EXCEPT ![n] = c]
      BY <3>3, <3>4 DEF Delivered
    <3> QED
      BY <1>2, <3>1, <3>5 DEF Delivery!Deliver
  <2> QED
    BY <1>11, <1>13, <2>5, <2>9 DEF Active, Ended
<1> QED
  BY <1>7, <1>8, <1>9, <1>10, <1>12, <1>13, <1>15 DEF PlainUnpack

\* The empty file is the first prefix.
LEMMA OpenUnpackingUnpacks ==
  ASSUME NEW H, NEW P, DeliveryInv(H, P), NEW u \in Unpackers, OpenUnpacking(u)
  PROVE  UnpackedOn(H, P)
<1> USE DEF DeliveryInv
<1>1. PICK i \in Inodes :
        /\ OutputWritten(i, <<>>)
        /\ ArtifactsStay /\ ~HoldsArtifact(i) /\ FilesInv'
        /\ dir[Unpacking(unpacker[u].out)] = i \/ ~HoldsOutput(i)
        /\ unpacker' = [unpacker EXCEPT ![u] =
                          [unpacker[u] EXCEPT !.pc = "verifying", !.dst = i]]
        /\ dir' = [dir EXCEPT ![Unpacking(unpacker[u].out)] = i]
  BY OpenUnpackingWrites
<1>2. /\ packer' = packer /\ sealed' = sealed /\ unpacker[u].pc = "opening"
      /\ UnpackerTyped(unpacker[u]) /\ DOMAIN unpacker = Unpackers
      /\ dir \in [Names -> Files] /\ NoFile \notin Inodes
  BY FilesOK DEF OpenUnpacking, FilesInv, Types
<1>3. Packed(H, P)' /\ Grows(H, P, H, P)
  BY <1>1, <1>2, PackedStays
<1>4. /\ P \in [Packers -> Seq(Seq(Bytes))] /\ \A p \in Packers : Packs(p, packer[p], H[p], P[p])
      /\ Alone /\ Distinct /\ \A v \in Unpackers : Unpacks(unpacker[v], H, P)
  BY DEF Packed, Unpacked
<1>5. PICK n \in 1..Outputs : n = unpacker[u].out
  BY <1>2 DEF UnpackerTyped
<1>6. PICK f \in Packers : f = unpacker[u].header.fileId
  BY <1>2 DEF UnpackerTyped, Headers
<1>7. PICK r : r = [unpacker[u] EXCEPT !.pc = "verifying", !.dst = i]
  OBVIOUS
<1>8. /\ unpacker'[u] = r /\ \A v \in Unpackers \ {u} : unpacker'[v] = unpacker[v]
      /\ r.pc = "verifying" /\ r.dst = i /\ r.out = n
      /\ r.header = unpacker[u].header /\ r.index = 0 /\ r.written = 0
      /\ r.read = unpacker[u].read
  <2>1. unpacker[u].index = 0 /\ unpacker[u].written = 0
    BY <1>2, <1>4 DEF Unpacks
  <2> QED
    BY <1>1, <1>2, <1>5, <1>7, <2>1 DEF UnpackerTyped, UnpackerRecords
<1>9. /\ P[f] # <<>> /\ r.header = H[f] /\ dir[Output(n)] = NoFile
  BY <1>2, <1>4, <1>5, <1>6, <1>8 DEF Unpacks
<1>10. P[f][1] = <<>> /\ 0 < Len(P[f])
  <2>1. P[f] \in Seq(Seq(Bytes))
    BY <1>4
  <2>2. 0 < Len(P[f])
    BY <1>9, <2>1, EmptySeq
  <2> QED
    BY <1>4, <1>9, <2>2 DEF Packs
<1>11. /\ dir'[Unpacking(n)] = i
       /\ \A m \in Names \ {Unpacking(n)} : dir'[m] = dir[m]
       /\ Unpacking(n) \in Names /\ Output(n) \in Names \ {Unpacking(n)}
       /\ Unpacking(n) \in OutputNames
  BY <1>1, <1>2, <1>5, NamesOfKinds, NamesSplit
<1>12. data'[i] = <<>>
  <2>1. HoldsOutput(i)'
    BY <1>11 DEF HoldsOutput
  <2> QED
    BY <1>1, <2>1 DEF OutputWritten
<1>13. Unpacks(r, H, P)'
  <2>1. 0 + 1 = 1 /\ Len(<<>>) = 0
    OBVIOUS
  <2>2. r.read \in Seq(Made(H, P))
    BY <1>4, <1>8 DEF Unpacks
  <2> QED
    BY <2>2, <1>5, <1>6, <1>8, <1>9, <1>10, <1>11, <1>12, <2>1 DEF Unpacks
<1>14. Unpacks(unpacker[u], H, P)'
  BY <1>8, <1>13 DEF Unpacks
<1>15. Active(unpacker[u])
  BY <1>2 DEF Active, Ended
<1>16. \A v \in Unpackers \ {u} : Unpacks(unpacker[v], H, P)'
  <2>1. \A v \in Unpackers \ {u} : ~Active(unpacker[v])
    BY <1>4, <1>15 DEF Alone
  <2> QED
    BY <1>2, <1>3, <1>4, <1>8, <2>1, UnpacksStay
<1>17. Alone'
  BY <1>4, <1>8, <1>15, StaysAlone
<1>18. \A m \in OutputNames \ {Unpacking(n)} : dir[m] # i
  BY <1>1, <1>2, <1>4, <1>5, <1>11 DEF HoldsOutput, Distinct
<1>19. Distinct'
  BY <1>4, <1>11, <1>18, NamesSplit DEF Distinct
<1>20. Delivered' = Delivered
  <2>1. ASSUME NEW m \in 1..Outputs, dir[Output(m)] # NoFile
        PROVE  data'[dir[Output(m)]] = data[dir[Output(m)]]
    <3>1. Output(m) \in OutputNames \ {Unpacking(n)} /\ Output(m) \in Names
      BY NamesOfKinds, NamesSplit
    <3>2. PICK j \in Inodes : j = dir[Output(m)] /\ j = dir'[Output(m)]
      BY <1>2, <1>11, <2>1, <3>1 DEF Files
    <3>3. HoldsOutput(j)' /\ j # i
      BY <1>18, <3>1, <3>2 DEF HoldsOutput
    <3> QED
      BY <1>1, <3>2, <3>3 DEF OutputWritten
  <2>2. \A m \in 1..Outputs : dir'[Output(m)] = dir[Output(m)]
    BY <1>11, NamesOfKinds, NamesSplit
  <2> QED
    BY <2>1, <2>2, SameDelivered
<1> QED
  BY <1>1, <1>2, <1>3, <1>14, <1>16, <1>17, <1>19, <1>20 DEF UnpackedOn, Unpacked

\* A verified chunk leads from one prefix to the next.
LEMMA VerifyChunkUnpacks ==
  ASSUME NEW H, NEW P, DeliveryInv(H, P), NEW u \in Unpackers, VerifyChunk(u)
  PROVE  UnpackedOn(H, P)
<1> USE DEF DeliveryInv
<1>1. PICK n, i, a, frame :
        /\ n = unpacker[u].index /\ i = unpacker[u].dst
        /\ a = unpacker[u].read /\ frame = a[n + 2]
  OBVIOUS
<1>2. /\ OutputWritten(i, WriteAt(data[i], unpacker[u].written, frame.plain, Zero))
      /\ HoldsOutput(i) /\ ArtifactsStay /\ FilesInv' /\ dir' = dir
      /\ frame.plain \in Seq(Bytes) /\ Len(a) >= n + 2
      /\ \E t : frame.aad = ChunkAad(unpacker[u].header.fileId, n, t)
      /\ unpacker' = [unpacker EXCEPT ![u] =
                        [unpacker[u] EXCEPT !.index = n + 1,
                           !.written = unpacker[u].written + Len(frame.plain)]]
  BY <1>1, VerifyChunkWrites
<1>3. /\ packer' = packer /\ sealed' = sealed /\ unpacker[u].pc = "verifying"
      /\ UnpackerTyped(unpacker[u]) /\ DOMAIN unpacker = Unpackers
      /\ dir \in [Names -> Files]
  BY DEF VerifyChunk, FilesInv, Types
<1>4. Packed(H, P)' /\ Grows(H, P, H, P)
  BY <1>2, <1>3, PackedStays
<1>5. /\ P \in [Packers -> Seq(Seq(Bytes))]
      /\ Alone /\ Distinct /\ \A v \in Unpackers : Unpacks(unpacker[v], H, P)
  BY DEF Packed, Unpacked
<1>6. PICK f \in Packers : f = unpacker[u].header.fileId
  BY <1>3 DEF UnpackerTyped, Headers
<1>7. n \in Nat /\ i \in Inodes /\ unpacker[u].out \in 1..Outputs
  BY <1>1, <1>3 DEF UnpackerTyped, UnpackerRecords
<1>8. /\ unpacker[u].header = H[f] /\ P[f] # <<>>
      /\ dir[Output(unpacker[u].out)] = NoFile
      /\ dir[Unpacking(unpacker[u].out)] = i /\ n < Len(P[f])
      /\ data[i] = P[f][n + 1] /\ unpacker[u].written = Len(data[i])
  BY <1>1, <1>3, <1>5, <1>6 DEF Unpacks
<1>9. frame \in Made(H, P)
  <2>1. a \in Seq(Made(H, P))
    BY <1>1, <1>5 DEF Unpacks
  <2> QED
    BY <1>1, <1>2, <1>7, <2>1
<1>10. n + 2 <= Len(P[f]) /\ P[f][n + 2] = P[f][n + 1] \o frame.plain
  BY <1>2, <1>6, <1>7, <1>9 DEF Made
<1>11. PICK old, piece : old = data[i] /\ piece = frame.plain
  OBVIOUS
<1>12. old \in Seq(Bytes) /\ piece \in Seq(Bytes)
  <2>1. P[f] \in Seq(Seq(Bytes)) /\ n + 1 \in 1..Len(P[f])
    BY <1>5, <1>7, <1>8
  <2>2. P[f][n + 1] \in Seq(Bytes)
    BY <2>1
  <2> QED
    BY <1>2, <1>8, <1>11, <2>2
<1>13. /\ WriteAt(old, Len(old), piece, Zero) = old \o piece
       /\ Len(old \o piece) = Len(old) + Len(piece)
  <2>1. PICK S : S = Bytes \cup {Zero}
    OBVIOUS
  <2>2. Bytes \subseteq S /\ Zero \in S
    BY <2>1
  <2>3. old \in Seq(S) /\ piece \in Seq(S) /\ Len(old) \in Nat
    BY <1>12, <2>2, SeqMonotonic
  <2>4. WriteAt(old, Len(old), piece, Zero) = old \o piece
    BY <2>2, <2>3, Written
  <2>5. Len(old \o piece) = Len(old) + Len(piece)
    BY <1>12, ConcatProperties
  <2> QED
    BY <2>4, <2>5
<1>14. PICK new : new = old \o piece
  OBVIOUS
<1>15. data'[i] = new
  <2>1. HoldsOutput(i)'
    BY <1>2, <1>7, <1>8, NamesOfKinds DEF HoldsOutput
  <2>2. data'[i] = WriteAt(data[i], unpacker[u].written, frame.plain, Zero)
    BY <1>2, <1>7, <2>1 DEF OutputWritten
  <2> QED
    BY <1>8, <1>11, <1>13, <1>14, <2>2
<1>16. PICK r : r = [unpacker[u] EXCEPT !.index = n + 1,
                       !.written = unpacker[u].written + Len(frame.plain)]
  OBVIOUS
<1>17. /\ unpacker'[u] = r /\ \A v \in Unpackers \ {u} : unpacker'[v] = unpacker[v]
       /\ r.pc = "verifying" /\ r.dst = i /\ r.out = unpacker[u].out
       /\ r.header = unpacker[u].header /\ r.index = n + 1 /\ r.written = Len(new)
       /\ r.read = a
  <2>1. unpacker[u].written + Len(frame.plain) = Len(new)
    BY <1>8, <1>11, <1>13, <1>14
  <2> QED
    BY <1>1, <1>2, <1>3, <1>16, <2>1 DEF UnpackerTyped, UnpackerRecords
<1>18. Unpacks(r, H, P)'
  <2>1. Len(P[f]) \in Nat
    BY <1>5
  <2>2. n + 1 < Len(P[f]) /\ (n + 1) + 1 = n + 2
    BY <1>7, <1>10, <2>1
  <2>3. new = P[f][n + 2]
    BY <1>8, <1>10, <1>11, <1>14
  <2>4. r.read \in Seq(Made(H, P))
    BY <1>1, <1>5, <1>17 DEF Unpacks
  <2> QED
    BY <2>4, <1>2, <1>6, <1>8, <1>15, <1>17, <2>2, <2>3 DEF Unpacks
<1>19. Unpacks(unpacker[u], H, P)'
  BY <1>17, <1>18 DEF Unpacks
<1>20. Active(unpacker[u])
  BY <1>3 DEF Active, Ended
<1>21. \A v \in Unpackers \ {u} : Unpacks(unpacker[v], H, P)'
  <2>1. \A v \in Unpackers \ {u} : ~Active(unpacker[v])
    BY <1>5, <1>20 DEF Alone
  <2> QED
    BY <1>3, <1>4, <1>5, <1>17, <2>1, UnpacksStay
<1>22. Alone' /\ Distinct'
  BY <1>2, <1>5, <1>17, <1>20, StaysAlone DEF Distinct
<1>23. Delivered' = Delivered
  <2>1. ASSUME NEW m \in 1..Outputs, dir[Output(m)] # NoFile
        PROVE  data'[dir[Output(m)]] = data[dir[Output(m)]]
    <3>1. /\ Output(m) \in OutputNames /\ Output(m) \in Names
          /\ Unpacking(unpacker[u].out) \in OutputNames
          /\ Output(m) # Unpacking(unpacker[u].out)
      BY <1>7, NamesOfKinds, NamesSplit
    <3>2. PICK j \in Inodes : j = dir[Output(m)]
      BY <1>3, <2>1, <3>1 DEF Files
    <3>3. j # i
      BY <1>5, <1>8, <2>1, <3>1, <3>2 DEF Distinct
    <3>4. HoldsOutput(j)'
      BY <1>2, <3>1, <3>2 DEF HoldsOutput
    <3> QED
      BY <1>2, <3>2, <3>3, <3>4 DEF OutputWritten
  <2> QED
    BY <1>2, <2>1, SameDelivered
<1> QED
  BY <1>2, <1>3, <1>4, <1>19, <1>21, <1>22, <1>23 DEF UnpackedOn, Unpacked

\* All steps of a packer add to the ghosts or leave them.
LEMMA PackersPack ==
  ASSUME FilesInv, NEW H, NEW P, Packed(H, P), NEW p \in Packers,
         PackStep(p) \/ PackFails(p)
  PROVE  PackedOn(H, P) /\ unpacker' = unpacker
<1>1. CASE OpenPacking(p)
  BY <1>1, OpenPackingPacks DEF OpenPacking
<1>2. CASE PackChunk(p)
  BY <1>2, PackChunkPacks DEF PackChunk
<1>4. CASE FlushPacking(p)
  BY <1>4, FlushPackingPacks DEF FlushPacking
<1>3. CASE \/ BeginPack(p) \/ EndOfSource(p) \/ ClosePacking(p) \/ ReplaceArtifact(p)
           \/ PackFails(p)
  <2>1. PICK r : PlainPack(p, r)
    BY <1>3, PackerPlain DEF FilesInv
  <2> QED
    BY <2>1, PlainPackPacks DEF PlainPack
<1> QED
  BY <1>1, <1>2, <1>3, <1>4 DEF PackStep

\* What arrives is made of frames that were made, and of damaged ones.
LEMMA ArrivePacks ==
  ASSUME FilesInv, NEW H, NEW P, Packed(H, P), Arrive
  PROVE  PackedOn(H, P) /\ unpacker' = unpacker
<1>1. PICK i, j, k \in Inodes : \E new :
        /\ HoldsArtifact(j) /\ HoldsArtifact(k) /\ new \in OnTheWay(data[j], data[k])
        /\ ArtifactWritten(i, new)
        /\ OutputsStay /\ ~HoldsOutput(i) /\ FilesInv'
        /\ dir' = [dir EXCEPT ![Received] = i]
        /\ UNCHANGED <<source, packer, unpacker, sealed>>
  BY ArriveWrites
<1>2. PICK new :
        /\ HoldsArtifact(j) /\ HoldsArtifact(k) /\ new \in OnTheWay(data[j], data[k])
        /\ ArtifactWritten(i, new)
        /\ OutputsStay /\ FilesInv'
        /\ dir' = [dir EXCEPT ![Received] = i]
        /\ UNCHANGED <<source, packer, unpacker, sealed>>
  BY <1>1
<1>3. Damaged \in Made(H, P)
  BY DEF Made, Damaged, Frame, HeaderAad, ChunkAad, Frames
<1>4. new \in Seq(Made(H, P))
  <2>1. data[j] \in Seq(Made(H, P)) /\ data[k] \in Seq(Made(H, P))
    BY <1>2 DEF Packed
  <2> QED
    BY <1>2, <1>3, <2>1, OnTheWayOf
<1>5. Packed(H, P)'
  <2>1. \A m \in Inodes : HoldsArtifact(m) => data[m] \in Seq(Made(H, P))
    BY DEF Packed
  <2>2. \A m \in Inodes : HoldsArtifact(m)' => data'[m] \in Seq(Made(H, P))
    BY <1>2, <1>4, <2>1, ArtifactsOf
  <2>3. \A p \in Packers : /\ Packs(p, packer[p], H[p], P[p])' /\ WholeSealed(H[p], P[p])'
                           /\ packer'[p].buffer \in Seq(Made(H, P))
    BY <1>2 DEF Packed, WholeSealed
  <2> QED
    BY <2>2, <2>3 DEF Packed
<1>6. Grows(H, P, H, P)
  <2>1. \A p \in Packers : Len(P[p]) \in Nat
    BY DEF Packed
  <2>2. \A p \in Packers : Len(P[p]) <= Len(P[p])
    BY <2>1
  <2> QED
    BY <2>2 DEF Grows
<1>7. \A n \in OutputNames : dir'[n] = dir[n]
  BY <1>2, NamesOfKinds, NamesSplit DEF FilesInv, Types
<1> QED
  BY <1>2, <1>5, <1>6, <1>7 DEF PackedOn, SealsOne

\* An edit of the source is nothing to what has been read of it.
LEMMA EditPacks ==
  ASSUME FilesInv, NEW H, NEW P, Packed(H, P), EditSource \/ UNCHANGED vars
  PROVE  PackedOn(H, P) /\ unpacker' = unpacker
<1>1. /\ UNCHANGED <<dir, data, packer, unpacker, sealed>>
      /\ source' \in Seq(Bytes) /\ events' \in 0..MaxEvents
  BY EditTyped DEF EditSource, vars, FilesInv, Types
<1>2. FilesInv' /\ ArtifactsStay /\ OutputsStay
  BY <1>1, NothingMoves
<1>3. Packed(H, P)' /\ Grows(H, P, H, P)
  BY <1>1, <1>2, PackedStays
<1> QED
  BY <1>1, <1>2, <1>3 DEF PackedOn, SealsOne

\* Nothing is packed or delivered before any call.
LEMMA DeliveryInit == Init => Delivery!Init /\ \E H, P : DeliveryInv(H, P)
<1> SUFFICES ASSUME Init PROVE Delivery!Init /\ \E H, P : DeliveryInv(H, P)
  OBVIOUS
<1>1. FilesInv
  BY FilesInit
<1>2. \A n \in 1..Outputs : dir[Output(n)] = NoFile
  BY NamesOfKinds, NamesSplit DEF Init
<1>3. Delivery!Init
  BY <1>2 DEF Init, Delivery!Init, Delivered
<1>4. PICK H, P : /\ H = [p \in Packers |-> Header(p, 0, PackChunkSize[p])]
                  /\ P = [p \in Packers |-> <<>>]
  OBVIOUS
<1>5. H \in [Packers -> Headers] /\ \A p \in Packers : H[p].fileId = p
  BY <1>4, HeaderTyped DEF Header
<1>6. P \in [Packers -> Seq(Seq(Bytes))] /\ \A p \in Packers : P[p] = <<>>
  BY <1>4
<1>7. \A p \in Packers : Packs(p, packer[p], H[p], P[p]) /\ WholeSealed(H[p], P[p])
  BY <1>5, <1>6 DEF Init, Packs, WholeSealed, NotPacking, Active, Ended
<1>8. /\ \A i \in Inodes : HoldsArtifact(i) => data[i] \in Seq(Made(H, P))
      /\ \A p \in Packers : packer[p].buffer \in Seq(Made(H, P))
  <2>1. <<>> \in Seq(Made(H, P))
    OBVIOUS
  <2>2. \A i \in Inodes : data[i] = <<>>
    BY DEF Init
  <2>3. \A p \in Packers : packer[p].buffer = <<>>
    BY DEF Init, NotPacking
  <2> QED
    BY <2>1, <2>2, <2>3
<1>9. /\ \A n \in OutputNames : dir[n] = NoFile
      /\ \A u \in Unpackers : unpacker[u] = NotUnpacking("idle")
  BY NamesSplit DEF Init
<1>10. Alone /\ Distinct /\ \A u \in Unpackers : Unpacks(unpacker[u], H, P)
  <2>1. \A u \in Unpackers : unpacker[u].pc = "idle"
    BY <1>9 DEF NotUnpacking
  <2>2. Alone /\ Distinct
    BY <1>9, <2>1 DEF Alone, Distinct, Active, Ended
  <2>3. ASSUME NEW u \in Unpackers PROVE Unpacks(unpacker[u], H, P)
    <3>1. unpacker[u].read = <<>> /\ unpacker[u].index = 0 /\ unpacker[u].written = 0
      BY <1>9 DEF NotUnpacking
    <3>2. unpacker[u].read \in Seq(Made(H, P))
      BY <3>1
    <3> QED
      BY <2>1, <3>1, <3>2 DEF Unpacks
  <2> QED
    BY <2>2, <2>3
<1> QED
  BY <1>1, <1>3, <1>5, <1>6, <1>7, <1>8, <1>10 DEF DeliveryInv, Packed, Unpacked

\* A packing step seals a content or does nothing that can be seen.
LEMMA PackingDelivers ==
  ASSUME NEW H, NEW P, DeliveryInv(H, P), PackedOn(H, P), unpacker' = unpacker
  PROVE  /\ \E H2, P2 : DeliveryInv(H2, P2)'
         /\ [Delivery!Next]_(Delivery!vars)
<1>1. PICK H2, P2 : Packed(H2, P2)' /\ Grows(H, P, H2, P2)
  BY DEF PackedOn
<1>2. Unpacked(H2, P2)'
  BY <1>1, UnpackedStays DEF DeliveryInv, PackedOn
<1>3. Delivered' = Delivered
  BY NamesOfKinds, DeliveredStays DEF DeliveryInv, PackedOn
<1>4. [Delivery!Next]_(Delivery!vars)
  BY <1>3 DEF PackedOn, SealsOne, Payloads, Delivery!Next, Delivery!vars, Delivery!Seal
<1> QED
  BY <1>1, <1>2, <1>4 DEF DeliveryInv, PackedOn

\* Every step keeps the invariant and is one AtomicDelivery allows.
LEMMA DeliveryStep ==
  ASSUME NoOverlap, NEW H, NEW P, DeliveryInv(H, P), [Next]_vars
  PROVE  /\ \E H2, P2 : DeliveryInv(H2, P2)'
         /\ [Delivery!Next]_(Delivery!vars)
<1>0. FilesInv /\ Packed(H, P)
  BY DEF DeliveryInv
<1>1. ASSUME NEW u \in Unpackers, UnpackStep(u) \/ UnpackFails(u)
      PROVE  UnpackedOn(H, P)
  <2>1. CASE OpenUnpacking(u)
    BY <2>1, OpenUnpackingUnpacks
  <2>2. CASE VerifyChunk(u)
    BY <2>2, VerifyChunkUnpacks
  <2>3. CASE \/ BeginUnpack(u) \/ ResolveOutput(u) \/ ReadFrames(u) \/ RejectChunk(u)
             \/ EndOfChunks(u) \/ ReplaceOutput(u) \/ UnpackFails(u)
    BY <1>0, <2>3, UnpackerPlain, PlainUnpackUnpacks
  <2> QED
    BY <1>1, <2>1, <2>2, <2>3 DEF UnpackStep
<1>2. ASSUME PackedOn(H, P), unpacker' = unpacker
      PROVE  /\ \E H2, P2 : DeliveryInv(H2, P2)'
             /\ [Delivery!Next]_(Delivery!vars)
  BY <1>2, PackingDelivers
<1>3. ASSUME UnpackedOn(H, P)
      PROVE  /\ \E H2, P2 : DeliveryInv(H2, P2)'
             /\ [Delivery!Next]_(Delivery!vars)
  BY <1>3 DEF UnpackedOn, Delivery!Next, Delivery!vars
<1> QED
  BY <1>0, <1>1, <1>2, <1>3, PackersPack, ArrivePacks, EditPacks DEF Next

\* If no two unpackers run at a time, a file appears under an output name at
\* once and whole, its content was packed, and it is then left alone: whatever
\* the packers overlap with, and whatever is edited, killed, cut off, damaged,
\* exchanged or run on on the way.
THEOREM DeliversAtomically == ASSUME NoOverlap PROVE Spec => DeliveryIsAtomic
<1> DEFINE Inv == \E H, P : DeliveryInv(H, P)
<1>1. Init => Delivery!Init /\ Inv
  BY DeliveryInit
<1>2. Inv /\ [Next]_vars => Inv' /\ [Delivery!Next]_(Delivery!vars)
  <2> SUFFICES ASSUME Inv, [Next]_vars
               PROVE  Inv' /\ [Delivery!Next]_(Delivery!vars)
    OBVIOUS
  <2>1. PICK H, P : DeliveryInv(H, P)
    OBVIOUS
  <2> QED
    BY <2>1, DeliveryStep
<1> HIDE DEF Inv
<1> QED
  BY <1>1, <1>2, PTL DEF Spec, DeliveryIsAtomic, Delivery!Spec

-----------------------------------------------------------------------------
(* Chunks *)

\* Products keep the order of their first factors.
LEMMA Products ==
  ASSUME NEW a \in Nat, NEW b \in Nat, NEW c \in Nat
  PROVE  /\ a * c \in Nat /\ (a + 1) * c = a * c + c
         /\ a <= b => a * c <= b * c
<1>1. a * c \in Nat /\ (a + 1) * c = a * c + c
  OBVIOUS
<1>2. ASSUME a <= b PROVE a * c <= b * c
  <2> DEFINE d == b - a
  <2>1. d \in Nat /\ b = a + d
    BY <1>2
  <2> HIDE DEF d
  <2>2. b * c = a * c + d * c /\ d * c \in Nat /\ a * c \in Nat
    BY <2>1
  <2> QED
    BY <2>2
<1> QED
  BY <1>1, <1>2

\* Quotient and remainder.
LEMMA Quotient ==
  ASSUME NEW n \in Nat, NEW b \in Nat \ {0}
  PROVE  /\ n \div b \in Nat /\ n % b \in Nat
         /\ n = (n \div b) * b + (n % b) /\ n % b < b
  OBVIOUS

\* ceil(size / chunk_size): the chunks before the last do not reach the size,
\* and all of them do.
LEMMA CountOfChunks ==
  ASSUME NEW size \in Nat, NEW cs \in Nat \ {0}, NEW t, t = ChunkCount(size, cs)
  PROVE  /\ t \in Nat /\ t = (size + cs - 1) \div cs
         /\ size <= t * cs
         /\ \A n \in Nat : n < t => n * cs < size
         /\ t = 0 <=> size = 0
<1> DEFINE m == size + cs - 1
           q == m \div cs
           r == m % cs
<1>1. m \in Nat /\ cs \in Nat
  OBVIOUS
<1>2. q \in Nat /\ r \in Nat /\ m = q * cs + r /\ r < cs
  BY <1>1, Quotient
<1>3. q = (size + cs - 1) \div cs
  OBVIOUS
<1>4. size + cs - 1 = q * cs + r
  BY <1>2
<1> HIDE DEF q, r, m
<1>5. q * cs \in Nat
  BY <1>1, <1>2, Products
<1>6. size <= q * cs
  BY <1>1, <1>2, <1>4, <1>5
<1>7. ASSUME NEW n \in Nat, n < q PROVE n * cs < size
  <2>1. n + 1 \in Nat /\ n + 1 <= q /\ (n + 1) * cs = n * cs + cs /\ n * cs \in Nat
    BY <1>1, <1>2, <1>7, Products
  <2>2. (n + 1) * cs <= q * cs
    BY <1>1, <1>2, <2>1, Products
  <2> QED
    BY <1>1, <1>2, <1>4, <1>5, <2>1, <2>2
<1>8. q = 0 <=> size = 0
  <2>1. 0 * cs = 0
    BY <1>1
  <2>2. q = 0 => size = 0
    BY <1>6, <2>1
  <2>3. size = 0 => ~(0 < q)
    BY <1>7, <2>1
  <2> QED
    BY <1>2, <2>2, <2>3
<1>9. t = q
  <2>1. CASE size = 0
    BY <1>8, <2>1 DEF ChunkCount
  <2>2. CASE size # 0
    BY <1>3, <2>2 DEF ChunkCount
  <2> QED
    BY <2>1, <2>2
<1> QED
  BY <1>2, <1>3, <1>6, <1>7, <1>8, <1>9

\* Where chunk n ends.
EndOf(n, size, cs) == IF (n + 1) * cs <= size THEN (n + 1) * cs ELSE size

\* expected_chunk_length(): a full chunk as long as it ends within the size, and
\* otherwise what is left.
LEMMA LengthOfChunk ==
  ASSUME NEW h, h.totalSize \in Nat, h.chunkSize \in Nat \ {0},
         h.totalChunks = ChunkCount(h.totalSize, h.chunkSize),
         NEW n \in Nat, n < h.totalChunks
  PROVE  /\ n * h.chunkSize \in Nat /\ n * h.chunkSize < h.totalSize
         /\ ExpectedChunkLength(h, n) =
              EndOf(n, h.totalSize, h.chunkSize) - n * h.chunkSize
         /\ EndOf(n, h.totalSize, h.chunkSize) =
              IF n + 1 = h.totalChunks THEN h.totalSize ELSE (n + 1) * h.chunkSize
<1>1. PICK size, cs, t : size = h.totalSize /\ cs = h.chunkSize /\ t = h.totalChunks
  OBVIOUS
<1>2. size \in Nat /\ cs \in Nat \ {0} /\ cs \in Nat /\ t = ChunkCount(size, cs)
  BY <1>1
<1>3. /\ t \in Nat /\ size <= t * cs /\ n * cs < size
      /\ \A k \in Nat : k < t => k * cs < size
  BY <1>1, <1>2, CountOfChunks
<1>4. PICK q, r : q = size \div cs /\ r = size % cs
  OBVIOUS
<1>5. q \in Nat /\ r \in Nat /\ size = q * cs + r /\ r < cs
  BY <1>2, <1>4, Quotient
<1>6. n + 1 \in Nat /\ n * cs \in Nat /\ (n + 1) * cs = n * cs + cs /\ q * cs \in Nat
  BY <1>2, <1>5, Products
<1>7. ASSUME n < q PROVE (n + 1) * cs <= size
  <2>1. (n + 1) * cs <= q * cs
    BY <1>2, <1>5, <1>6, <1>7, Products
  <2> QED
    BY <1>2, <1>5, <1>6, <2>1
<1>8. ASSUME ~(n < q) PROVE n = q /\ size < (n + 1) * cs
  <2>1. ASSUME q + 1 <= n PROVE FALSE
    <3>1. (q + 1) * cs <= n * cs /\ (q + 1) * cs = q * cs + cs
      BY <1>2, <1>5, <2>1, Products
    <3> QED
      BY <1>2, <1>3, <1>5, <1>6, <3>1
  <2>2. n = q
    BY <1>5, <1>8, <2>1
  <2> QED
    BY <1>2, <1>5, <1>6, <2>2
<1>9. ExpectedChunkLength(h, n) = IF n < q THEN cs ELSE r
  BY <1>1, <1>4, Zenon DEF ExpectedChunkLength
<1>10. EndOf(n, size, cs) = IF (n + 1) * cs <= size THEN (n + 1) * cs ELSE size
  BY DEF EndOf
<1>11. ExpectedChunkLength(h, n) = EndOf(n, size, cs) - n * cs
  <2>1. CASE n < q
    BY <1>2, <1>6, <1>7, <1>9, <1>10, <2>1
  <2>2. CASE ~(n < q)
    <3>1. EndOf(n, size, cs) = size
      BY <1>2, <1>6, <1>8, <1>10, <2>2
    <3>2. n * cs = q * cs
      BY <1>8, <2>2
    <3> QED
      BY <1>5, <1>6, <1>9, <2>2, <3>1, <3>2
  <2> QED
    BY <2>1, <2>2
<1>12. EndOf(n, size, cs) = IF n + 1 = t THEN size ELSE (n + 1) * cs
  <2>1. CASE n + 1 = t
    BY <1>2, <1>3, <1>6, <1>10, <2>1
  <2>2. CASE n + 1 # t
    <3>1. (n + 1) * cs < size
      BY <1>1, <1>3, <1>6, <2>2
    <3> QED
      BY <1>2, <1>6, <1>10, <2>2, <3>1
  <2> QED
    BY <2>1, <2>2
<1> QED
  BY <1>1, <1>3, <1>6, <1>11, <1>12

-----------------------------------------------------------------------------
(* The unpackers *)

\* The bytes of the first n chunks.
BytesIn(h, n) == IF n = h.totalChunks THEN h.totalSize ELSE n * h.chunkSize

\* The locals of an unpacker: the header is the first frame it has read, it has
\* read all the chunks it has verified, and they are as long as they should be.
Reads(r) ==
  /\ r.src # NoFile =>
       /\ r.pc \in {"resolving", "opening", "verifying"}
       /\ r.read[1].plain[1] = r.header
       /\ HeaderValid(r.header)
       /\ r.index <= r.header.totalChunks
       /\ r.index + 1 <= Len(r.read)
       /\ r.written = BytesIn(r.header, r.index)
  /\ r.pc = "idle" => r.index = 0 /\ r.written = 0
ReadsInv == FilesInv /\ \A u \in Unpackers : Reads(unpacker[u])

\* A valid header: what the lemmas on chunks ask of one.
LEMMA ValidHeader ==
  ASSUME NEW h \in Headers, HeaderValid(h)
  PROVE  /\ h.totalSize \in Nat /\ h.chunkSize \in Nat \ {0} /\ h.totalChunks \in Nat
         /\ h.totalChunks = ChunkCount(h.totalSize, h.chunkSize)
         /\ BytesIn(h, 0) = 0 /\ BytesIn(h, h.totalChunks) = h.totalSize
<1>1. /\ h.totalSize \in Nat /\ h.chunkSize \in Nat \ {0} /\ h.totalChunks \in Nat
      /\ h.totalChunks = ChunkCount(h.totalSize, h.chunkSize)
  BY LimitsOK DEF Headers, HeaderValid, ChunkSizeValid
<1>2. h.totalChunks = 0 => h.totalSize = 0
  <2>1. PICK s, c, t : s = h.totalSize /\ c = h.chunkSize /\ t = h.totalChunks
    OBVIOUS
  <2>2. t = 0 <=> s = 0
    BY <1>1, <2>1, CountOfChunks
  <2> QED
    BY <2>1, <2>2
<1>3. 0 * h.chunkSize = 0
  BY <1>1
<1> QED
  BY <1>1, <1>2, <1>3 DEF BytesIn

\* Each unpacking step: the header is what is read first; a verified chunk has
\* been read and has the length expected of it; who ends reads nothing.
LEMMA UnpackerReads ==
  ASSUME ReadsInv, NEW u \in Unpackers, UnpackStep(u) \/ UnpackFails(u)
  PROVE  /\ Reads(unpacker'[u])
         /\ \A v \in Unpackers \ {u} : unpacker'[v] = unpacker[v]
<1>0. /\ FilesInv /\ Reads(unpacker[u]) /\ UnpackerTyped(unpacker[u])
      /\ DOMAIN unpacker = Unpackers /\ NoFile \notin Inodes
      /\ unpacker[u] \in UnpackerRecords
  BY FilesOK DEF ReadsInv, FilesInv, Types, UnpackerTyped
<1>1. CASE OpenUnpacking(u)
  <2>1. PICK i \in Inodes :
          unpacker' = [unpacker EXCEPT ![u] =
                         [unpacker[u] EXCEPT !.pc = "verifying", !.dst = i]]
    BY <1>0, <1>1, OpenUnpackingWrites
  <2>2. PICK r : r = [unpacker[u] EXCEPT !.pc = "verifying", !.dst = i]
    OBVIOUS
  <2>3. /\ unpacker'[u] = r /\ r.pc = "verifying" /\ r.src = unpacker[u].src
        /\ r.header = unpacker[u].header /\ r.index = unpacker[u].index
        /\ r.written = unpacker[u].written /\ r.read = unpacker[u].read
        /\ \A v \in Unpackers \ {u} : unpacker'[v] = unpacker[v]
    BY <1>0, <2>1, <2>2 DEF UnpackerRecords
  <2>4. unpacker[u].src # NoFile
    BY <1>0, <1>1 DEF OpenUnpacking, UnpackerTyped
  <2> QED
    BY <1>0, <2>3, <2>4 DEF Reads
<1>2. CASE VerifyChunk(u)
  <2>1. PICK h, n, plain : /\ h = unpacker[u].header /\ n = unpacker[u].index
                           /\ plain = unpacker[u].read[n + 2].plain
    OBVIOUS
  <2>2. /\ unpacker[u].pc = "verifying" /\ n < h.totalChunks
        /\ Len(plain) = ExpectedChunkLength(h, n) /\ Len(unpacker[u].read) >= n + 2
        /\ unpacker' = [unpacker EXCEPT ![u] =
              [unpacker[u] EXCEPT !.index = n + 1,
                                  !.written = unpacker[u].written + Len(plain)]]
    BY <1>2, <2>1 DEF VerifyChunk, ChunkVerified, ChunkOpens
  <2>3. PICK m : m = unpacker[u].written + Len(plain)
    OBVIOUS
  <2>4. PICK r : r = [unpacker[u] EXCEPT !.index = n + 1, !.written = m]
    OBVIOUS
  <2>5. /\ unpacker'[u] = r /\ r.pc = "verifying" /\ r.src = unpacker[u].src
        /\ r.header = h /\ r.index = n + 1 /\ r.written = m
        /\ r.read = unpacker[u].read
        /\ \A v \in Unpackers \ {u} : unpacker'[v] = unpacker[v]
    BY <1>0, <2>1, <2>2, <2>3, <2>4 DEF UnpackerRecords
  <2>6. /\ unpacker[u].src \in Inodes /\ h \in Headers /\ n \in Nat
        /\ Len(unpacker[u].read) \in Nat
    BY <1>0, <2>1, <2>2 DEF UnpackerTyped, UnpackerRecords
  <2>7. /\ unpacker[u].written = BytesIn(h, n) /\ HeaderValid(h)
        /\ unpacker[u].read[1].plain[1] = h
    BY <1>0, <2>1, <2>6 DEF Reads
  <2>8. /\ h.totalSize \in Nat /\ h.chunkSize \in Nat \ {0} /\ h.totalChunks \in Nat
        /\ h.totalChunks = ChunkCount(h.totalSize, h.chunkSize)
    BY <2>6, <2>7, ValidHeader
  <2>9. /\ n * h.chunkSize \in Nat
        /\ Len(plain) = (IF n + 1 = h.totalChunks THEN h.totalSize
                         ELSE (n + 1) * h.chunkSize) - n * h.chunkSize
    <3>1. PICK e : e = EndOf(n, h.totalSize, h.chunkSize)
      OBVIOUS
    <3>2. /\ n * h.chunkSize \in Nat
          /\ ExpectedChunkLength(h, n) = e - n * h.chunkSize
          /\ e = IF n + 1 = h.totalChunks THEN h.totalSize ELSE (n + 1) * h.chunkSize
      BY <2>2, <2>6, <2>8, <3>1, LengthOfChunk
    <3> QED
      BY <2>2, <3>2
  <2>10. unpacker[u].written = n * h.chunkSize
    BY <2>2, <2>6, <2>7, <2>8 DEF BytesIn
  <2>11. m = BytesIn(h, n + 1)
    <3>1. (n + 1) * h.chunkSize \in Nat
      BY <2>6, <2>8, Products
    <3>2. PICK a, b : a = n * h.chunkSize /\ b = (n + 1) * h.chunkSize
      OBVIOUS
    <3>3. /\ a \in Nat /\ b \in Nat /\ m = a + Len(plain)
          /\ Len(plain) = (IF n + 1 = h.totalChunks THEN h.totalSize ELSE b) - a
      BY <2>3, <2>9, <2>10, <3>1, <3>2
    <3>4. BytesIn(h, n + 1) = IF n + 1 = h.totalChunks THEN h.totalSize ELSE b
      BY <3>2 DEF BytesIn
    <3> QED
      BY <2>8, <3>3, <3>4
  <2>12. n + 1 <= h.totalChunks /\ (n + 1) + 1 <= Len(unpacker[u].read)
    BY <2>2, <2>6, <2>8
  <2> QED
    BY <2>2, <2>5, <2>7, <2>11, <2>12 DEF Reads
<1>3. CASE \/ BeginUnpack(u) \/ ResolveOutput(u) \/ ReadFrames(u) \/ RejectChunk(u)
           \/ EndOfChunks(u) \/ ReplaceOutput(u) \/ UnpackFails(u)
  <2>1. PICK r : PlainUnpack(u, r)
    BY <1>0, <1>3, UnpackerPlain
  <2>2. /\ unpacker'[u] = r /\ \A v \in Unpackers \ {u} : unpacker'[v] = unpacker[v]
        /\ UnpackerTyped(r)
    BY <1>0, <2>1, PlainUnpackStays DEF PlainUnpack
  <2>3. CASE unpacker[u].pc = "idle" /\ r.pc = "resolving"
    <3>1. /\ r.index = 0 /\ r.written = 0
          /\ r.header = r.read[1].plain[1] /\ r.read # <<>> /\ HeaderValid(r.header)
      BY <1>0, <2>1, <2>3 DEF PlainUnpack, Reads
    <3>2. r.header \in Headers /\ r.read \in Seq(Frames)
      BY <2>2, <2>3 DEF UnpackerTyped, UnpackerRecords
    <3>3. 0 <= r.header.totalChunks /\ BytesIn(r.header, 0) = 0
      BY <3>1, <3>2, ValidHeader
    <3>4. 0 + 1 <= Len(r.read)
      <4>1. Len(r.read) \in Nat /\ Len(r.read) # 0
        BY <3>1, <3>2, EmptySeq
      <4> QED
        BY <4>1
    <3> QED
      BY <2>2, <2>3, <3>1, <3>3, <3>4 DEF Reads
  <2>4. CASE \/ /\ unpacker[u].pc = "resolving" /\ r.pc = "opening"
                /\ r.src = unpacker[u].src /\ r.header = unpacker[u].header
                /\ r.read = unpacker[u].read
             \/ /\ unpacker[u].pc = "verifying" /\ r.pc = "verifying"
                /\ r.src = unpacker[u].src /\ r.header = unpacker[u].header
                /\ Len(unpacker[u].read) <= Len(r.read)
                /\ \A k \in 1..Len(unpacker[u].read) : r.read[k] = unpacker[u].read[k]
    <3>1. unpacker[u].src \in Inodes
      BY <1>0, <2>4 DEF UnpackerTyped
    <3>2. r.index = unpacker[u].index /\ r.written = unpacker[u].written
      BY <2>1, <2>4 DEF PlainUnpack
    <3>3. /\ unpacker[u].index <= unpacker[u].header.totalChunks
          /\ unpacker[u].written = BytesIn(unpacker[u].header, unpacker[u].index)
          /\ unpacker[u].read[1].plain[1] = unpacker[u].header
          /\ HeaderValid(unpacker[u].header)
          /\ unpacker[u].index + 1 <= Len(unpacker[u].read)
      BY <1>0, <3>1 DEF Reads
    <3>4. /\ unpacker[u].index \in Nat /\ Len(unpacker[u].read) \in Nat
          /\ Len(r.read) \in Nat
      BY <1>0, <2>2 DEF UnpackerTyped, UnpackerRecords
    <3>5. unpacker[u].index + 1 <= Len(r.read) /\ 1 \in 1..Len(unpacker[u].read)
      BY <2>4, <3>3, <3>4
    <3>6. r.read[1] = unpacker[u].read[1]
      BY <2>4, <3>5
    <3> QED
      BY <2>2, <2>4, <3>2, <3>3, <3>5, <3>6 DEF Reads
  <2>5. CASE r.src = NoFile /\ r.pc \in {"replacing", "failed", "killed", "stranded", "done"}
    BY <2>2, <2>5 DEF Reads
  <2> QED
    BY <2>1, <2>3, <2>4, <2>5 DEF PlainUnpack
<1> QED
  BY <1>1, <1>2, <1>3 DEF UnpackStep

\* No file is read before any call.
LEMMA ReadsInit == Init => ReadsInv
BY FilesInit DEF Init, ReadsInv, NotUnpacking, Reads

\* Every step keeps what the unpackers know of what they have read.
LEMMA ReadsStep == ReadsInv /\ [Next]_vars => ReadsInv'
<1> SUFFICES ASSUME ReadsInv, [Next]_vars PROVE ReadsInv'
  OBVIOUS
<1>1. FilesInv'
  BY FilesStep DEF ReadsInv
<1>2. ASSUME NEW v \in Unpackers PROVE Reads(unpacker'[v])
  <2>1. Reads(unpacker[v])
    BY DEF ReadsInv
  <2>2. CASE unpacker' = unpacker
    BY <2>1, <2>2
  <2>3. ASSUME NEW u \in Unpackers, UnpackStep(u) \/ UnpackFails(u)
        PROVE  Reads(unpacker'[v])
    BY <2>1, <2>3, UnpackerReads
  <2>4. ASSUME NEW p \in Packers, PackStep(p) \/ PackFails(p)
        PROVE  unpacker' = unpacker
    BY <2>4 DEF PackStep, BeginPack, OpenPacking, PackChunk, FlushPacking, EndOfSource,
       ClosePacking, ReplaceArtifact, PackFails, PackIOError, PackStrands, KillPack
  <2> QED
    BY <2>2, <2>3, <2>4 DEF Next, vars, EditSource, Arrive
<1>3. \A v \in Unpackers : Reads(unpacker[v])'
  BY <1>2 DEF Reads
<1> QED
  BY <1>1, <1>3 DEF ReadsInv

\* The tag before chunk n.
TagBefore(id, n) == IF n = 0 THEN HeaderTag(id) ELSE ChunkTag(id, n - 1)

\* The parts of an artifact: its header, and the chunks of its content one behind
\* the other.
Parts(w, secret, id, c, cs, h) ==
  /\ h.totalChunks \in Nat /\ h.totalChunks = ChunkCount(Len(c), cs)
  /\ h.totalSize = Len(c) /\ h.chunkSize = cs /\ h.fileId = id
  /\ Len(w) = h.totalChunks + 1 /\ w[1] = HeaderFrame(secret, h)
  /\ \A n \in 0..(h.totalChunks - 1) :
       /\ w[n + 2] = ChunkFrame(secret, h, n, TagBefore(id, n), Chunk(c, cs, n))
       /\ w[n + 1].tag = TagBefore(id, n)
  /\ \E S : w \in Seq(S)

\* The reference artifact has these parts.
LEMMA ArtifactParts ==
  ASSUME NEW secret, NEW id, NEW c \in Seq(Bytes), NEW cs \in Nat \ {0},
         NEW h, h = Header(id, Len(c), cs),
         NEW w, w = ArtifactOf(secret, id, c, cs)
  PROVE  Parts(w, secret, id, c, cs, h)
<1>1. PICK t : t = ChunkCount(Len(c), cs)
  OBVIOUS
<1>2. t \in Nat /\ t = (Len(c) + cs - 1) \div cs
  BY <1>1, CountOfChunks
<1>3. h = [fileId |-> id, totalSize |-> Len(c), chunkSize |-> cs, totalChunks |-> t]
  BY <1>1 DEF Header
<1>4. w = [k \in 1..(t + 1) |->
             IF k = 1 THEN HeaderFrame(secret, h)
             ELSE ChunkFrame(secret, h, k - 2,
                             IF k = 2 THEN HeaderTag(id) ELSE ChunkTag(id, k - 3),
                             Chunk(c, cs, k - 2))]
  BY <1>2, <1>3, Zenon DEF ArtifactOf
<1>5. h.totalChunks = t /\ h.totalSize = Len(c) /\ h.chunkSize = cs /\ h.fileId = id
  BY <1>3
<1>6. 1 \in 1..(t + 1) /\ w[1] = HeaderFrame(secret, h) /\ w = [k \in 1..(t + 1) |-> w[k]]
  BY <1>2, <1>4
<1>7. Len(w) = t + 1
  BY <1>2, <1>6
<1>8. ASSUME NEW n \in 0..(t - 1)
      PROVE  w[n + 2] = ChunkFrame(secret, h, n, TagBefore(id, n), Chunk(c, cs, n))
  <2>1. PICK k : k = n + 2
    OBVIOUS
  <2>2. k \in 1..(t + 1) /\ k # 1 /\ k - 2 = n /\ (k = 2 <=> n = 0) /\ k - 3 = n - 1
    BY <1>2, <2>1
  <2>3. w[k] = ChunkFrame(secret, h, k - 2,
                          IF k = 2 THEN HeaderTag(id) ELSE ChunkTag(id, k - 3),
                          Chunk(c, cs, k - 2))
    BY <1>4, <2>2
  <2>4. (IF k = 2 THEN HeaderTag(id) ELSE ChunkTag(id, k - 3)) = TagBefore(id, n)
    BY <2>2 DEF TagBefore
  <2> QED
    BY <2>1, <2>2, <2>3, <2>4, Zenon
<1>9. ASSUME NEW n \in 0..(t - 1)
      PROVE  w[n + 1].tag = TagBefore(id, n)
  <2>1. CASE n = 0
    <3>1. n + 1 = 1
      BY <2>1
    <3> QED
      BY <1>5, <1>6, <2>1, <3>1 DEF HeaderFrame, Frame, TagBefore
  <2>2. CASE n # 0
    <3>1. PICK m \in 0..(t - 1) : m + 2 = n + 1 /\ m = n - 1
      BY <1>2, <2>2
    <3>2. w[m + 2] = ChunkFrame(secret, h, m, TagBefore(id, m), Chunk(c, cs, m))
      BY <1>8
    <3>3. w[m + 2].tag = ChunkTag(id, m)
      BY <1>5, <3>2 DEF ChunkFrame, Frame
    <3>4. TagBefore(id, n) = ChunkTag(id, m)
      BY <2>2, <3>1 DEF TagBefore
    <3> QED
      BY <3>1, <3>3, <3>4
  <2> QED
    BY <2>1, <2>2
<1>10. w \in Seq({w[k] : k \in 1..(t + 1)})
  <2>1. PICK f, N, S : f = w /\ N = t + 1 /\ S = {w[k] : k \in 1..(t + 1)}
    OBVIOUS
  <2>2. N \in Nat /\ f = [k \in 1..N |-> f[k]] /\ S = {f[k] : k \in 1..N}
    BY <1>2, <1>6, <2>1
  <2>3. f \in [1..N -> S]
    BY <2>2
  <2>4. f \in Seq(S)
    BY <2>2, <2>3, FunctionIsSequence
  <2> QED
    BY <2>1, <2>4
<1> QED
  BY <1>1, <1>2, <1>5, <1>6, <1>7, <1>8, <1>9, <1>10 DEF Parts

\* What a chunk of a content is.
LEMMA ChunkOf ==
  ASSUME NEW c \in Seq(Bytes), NEW cs \in Nat \ {0}, NEW n \in Nat,
         n < ChunkCount(Len(c), cs)
  PROVE  /\ n * cs \in Nat /\ n * cs < Len(c)
         /\ EndOf(n, Len(c), cs) \in (n * cs + 1)..Len(c)
         /\ Chunk(c, cs, n) = SubSeq(c, n * cs + 1, EndOf(n, Len(c), cs))
         /\ Chunk(c, cs, n) \in Seq(Bytes)
         /\ Len(Chunk(c, cs, n)) = EndOf(n, Len(c), cs) - n * cs
<1>1. PICK size \in Nat : size = Len(c)
  OBVIOUS
<1>2. PICK t : t = ChunkCount(size, cs)
  OBVIOUS
<1>3. t \in Nat /\ n < t /\ \A k \in Nat : k < t => k * cs < size
  BY <1>1, <1>2, CountOfChunks
<1>4. /\ n * cs \in Nat /\ (n + 1) * cs = n * cs + cs /\ n * cs < size
      /\ (n + 1) * cs \in Nat /\ cs \in Nat
  BY <1>3, Products
<1>5. PICK a, b, e : a = n * cs /\ b = (n + 1) * cs /\ e = EndOf(n, size, cs)
  OBVIOUS
<1>6. e = IF b <= size THEN b ELSE size
  BY <1>5 DEF EndOf
<1>7. a \in Nat /\ b = a + cs /\ a < size /\ e \in (a + 1)..size
  BY <1>4, <1>5, <1>6
<1>8. Chunk(c, cs, n) = SubSeq(c, a + 1, e)
  BY <1>1, <1>5, <1>6, Zenon DEF Chunk
<1>9. SubSeq(c, a + 1, e) \in Seq(Bytes) /\ Len(SubSeq(c, a + 1, e)) = e - a
  <2>1. PICK i : i = a + 1
    OBVIOUS
  <2>2. i \in 1..(Len(c) + 1) /\ e \in (i - 1)..Len(c)
    BY <1>1, <1>7, <2>1
  <2>3. SubSeq(c, i, e) \in Seq(Bytes) /\ Len(SubSeq(c, i, e)) = (IF i <= e THEN e - i + 1 ELSE 0)
    BY <2>2, SubSeqProperties
  <2>4. i <= e /\ e - i + 1 = e - a
    BY <1>7, <2>1
  <2> QED
    BY <2>1, <2>3, <2>4
<1> QED
  BY <1>1, <1>5, <1>7, <1>8, <1>9

\* The beginnings of a sequence.
LEMMA Beginnings ==
  ASSUME NEW S, NEW s \in Seq(S), NEW n \in 0..Len(s)
  PROVE  /\ SubSeq(s, 1, n) \in Seq(S) /\ Len(SubSeq(s, 1, n)) = n
         /\ \A k \in 1..n : SubSeq(s, 1, n)[k] = s[k]
<1>1. n \in Nat /\ Len(s) \in Nat /\ \A i \in 1..n : s[i] \in S
  OBVIOUS
<1>2. PICK b : b = SubSeq(s, 1, n)
  OBVIOUS
<1>3. /\ b \in Seq(S) /\ Len(b) = (IF 1 <= n THEN n - 1 + 1 ELSE 0)
      /\ \A i \in 1..(n - 1 + 1) : b[i] = s[1 + i - 1]
  BY <1>1, <1>2, SubSeqProperties
<1>4. Len(b) = n /\ n - 1 + 1 = n /\ \A i \in 1..n : 1 + i - 1 = i
  BY <1>1, <1>3
<1> QED
  BY <1>2, <1>3, <1>4

\* The chunk an unpacker comes to in a reference artifact verifies, and behind
\* the last one the length is right and the file ends.
LEMMA WholeVerifies ==
  ASSUME ReadsInv, NEW u \in Unpackers, unpacker[u].src # NoFile,
         NEW p \in Packers, NEW c \in Seq(Bytes),
         data[unpacker[u].src] = ArtifactOf(Secret[u], p, c, PackChunkSize[p]),
         NEW k \in 1..Len(data[unpacker[u].src]),
         unpacker[u].read = SubSeq(data[unpacker[u].src], 1, k)
  PROVE  /\ /\ unpacker[u].index < unpacker[u].header.totalChunks
            /\ Len(unpacker[u].read) > unpacker[u].index + 1 \/ AtEnd(u)
            => ChunkVerified(u)
         /\ unpacker[u].index = unpacker[u].header.totalChunks => EndsExactly(u)
<1>1. PICK cs, h, w, n, read :
        /\ cs = PackChunkSize[p] /\ h = Header(p, Len(c), cs)
        /\ w = ArtifactOf(Secret[u], p, c, cs) /\ n = unpacker[u].index
        /\ read = unpacker[u].read
  OBVIOUS
<1>2. cs \in Nat \ {0}
  BY <1>1, LimitsOK, FilesOK DEF ChunkSizeValid
<1>3. data[unpacker[u].src] = w
  BY <1>1
<1>4. /\ h.totalChunks \in Nat /\ h.totalChunks = ChunkCount(Len(c), cs)
      /\ h.totalSize = Len(c) /\ h.chunkSize = cs /\ h.fileId = p
      /\ Len(w) = h.totalChunks + 1 /\ w[1] = HeaderFrame(Secret[u], h)
      /\ \A m \in 0..(h.totalChunks - 1) :
           /\ w[m + 2] = ChunkFrame(Secret[u], h, m, TagBefore(p, m), Chunk(c, cs, m))
           /\ w[m + 1].tag = TagBefore(p, m)
      /\ \E S : w \in Seq(S)
  <2>1. PICK s : s = Secret[u]
    OBVIOUS
  <2>2. h = Header(p, Len(c), cs) /\ w = ArtifactOf(s, p, c, cs)
    BY <1>1, <2>1
  <2>3. Parts(w, s, p, c, cs, h)
    BY <1>2, <2>2, ArtifactParts
  <2> QED
    BY <2>1, <2>3 DEF Parts
<1>9. /\ k \in 1..Len(w) /\ Len(read) = k /\ k \in Nat
      /\ \A j \in 1..k : read[j] = w[j]
  <2>1. k \in 0..Len(w) /\ k \in 1..Len(w) /\ k \in Nat
    BY <1>3, <1>4
  <2>2. read = SubSeq(w, 1, k)
    BY <1>1, <1>3
  <2> QED
    BY <1>4, <2>1, <2>2, Beginnings
<1>5. unpacker[u].header = h
  <2>1. w[1].plain[1] = h /\ read[1] = w[1]
    BY <1>4, <1>9 DEF HeaderFrame, Frame
  <2> QED
    BY <1>1, <2>1 DEF ReadsInv, Reads
<1>6. /\ n \in Nat /\ unpacker[u].written = BytesIn(h, n) /\ n + 1 <= k
  BY <1>1, <1>5, <1>9 DEF ReadsInv, FilesInv, Types, UnpackerTyped, UnpackerRecords, Reads
<1>7. ASSUME n < h.totalChunks, k > n + 1 \/ AtEnd(u) PROVE ChunkVerified(u)
  <2>1. n \in 0..(h.totalChunks - 1)
    BY <1>4, <1>6, <1>7
  <2>6. n + 2 \in 1..k /\ n + 1 \in 1..k /\ Len(read) >= n + 2
    <3>1. CASE k > n + 1
      BY <1>6, <1>9, <3>1
    <3>2. CASE AtEnd(u)
      <4>1. Len(w) <= k
        BY <1>1, <1>3, <1>9, <3>2 DEF AtEnd
      <4> QED
        BY <1>4, <1>6, <1>7, <1>9, <4>1
    <3> QED
      BY <1>7, <3>1, <3>2
  <2>2. PICK f : f = read[n + 2]
    OBVIOUS
  <2>3. f = ChunkFrame(Secret[u], h, n, TagBefore(p, n), Chunk(c, cs, n))
    BY <1>4, <1>9, <2>1, <2>2, <2>6
  <2>4. /\ f.key = ChunkKey(Secret[u], p, n) /\ f.aad = ChunkAad(p, n, TagBefore(p, n))
        /\ f.plain = Chunk(c, cs, n)
    BY <1>4, <2>3 DEF ChunkFrame, Frame
  <2>5. Len(Chunk(c, cs, n)) = ExpectedChunkLength(h, n)
    <3>3. n < ChunkCount(Len(c), cs)
      BY <1>4, <1>7
    <3>4. /\ h.totalSize \in Nat /\ h.chunkSize \in Nat \ {0}
          /\ h.totalChunks = ChunkCount(h.totalSize, h.chunkSize)
      BY <1>2, <1>4
    <3>1. Len(Chunk(c, cs, n)) = EndOf(n, Len(c), cs) - n * cs
      BY <1>2, <1>6, <3>3, ChunkOf
    <3>2. ExpectedChunkLength(h, n) = EndOf(n, h.totalSize, h.chunkSize) - n * h.chunkSize
      BY <1>6, <1>7, <3>4, LengthOfChunk
    <3> QED
      BY <1>4, <3>1, <3>2
  <2>7. (IF n = 0 THEN HeaderTag(h.fileId) ELSE read[n + 1].tag) = TagBefore(p, n)
    BY <1>4, <1>9, <2>1, <2>6 DEF TagBefore
  <2>8. ChunkOpens(read, Secret[u], h, n, TagBefore(p, n))
    BY <1>4, <2>2, <2>4, <2>5, <2>6 DEF ChunkOpens, Opens
  <2> QED
    BY <1>1, <1>5, <2>7, <2>8, Zenon DEF ChunkVerified
<1>8. ASSUME n = h.totalChunks PROVE EndsExactly(u)
  <2>1. Len(read) = h.totalChunks + 1 /\ Len(w) <= Len(read)
    BY <1>4, <1>6, <1>8, <1>9
  <2> QED
    BY <1>1, <1>3, <1>4, <1>5, <1>6, <1>8, <2>1 DEF EndsExactly, AtEnd, BytesIn
<1> QED
  BY <1>1, <1>5, <1>7, <1>8, <1>9

\* unpack_file() never rejects a whole artifact of a content packed under its
\* secret, of any size and in chunks of any size, that it reads from its beginning
\* on, however packers overlap, whatever their buffers hold back and whatever else
\* arrives: only an error of the system or its death stops it.
THEOREM WholeUnpacks == Spec => WholeArtifactUnpacks
<1> DEFINE Step == \A u \in Unpackers :
       (/\ unpacker[u].src # NoFile
        /\ \E p \in Packers, c \in sealed :
             data[unpacker[u].src] = ArtifactOf(Secret[u], p, c, PackChunkSize[p])
        /\ \E k \in 1..Len(data[unpacker[u].src]) :
             unpacker[u].read = SubSeq(data[unpacker[u].src], 1, k)
        /\ UnpackStep(u)) => unpacker'[u].pc # "failed"
<1>1. ReadsInv /\ [Next]_vars => [Step]_vars
  <2> SUFFICES ASSUME ReadsInv, NEW u \in Unpackers, unpacker[u].src # NoFile,
                      NEW p \in Packers, NEW c \in sealed,
                      data[unpacker[u].src] =
                        ArtifactOf(Secret[u], p, c, PackChunkSize[p]),
                      NEW k \in 1..Len(data[unpacker[u].src]),
                      unpacker[u].read = SubSeq(data[unpacker[u].src], 1, k),
                      UnpackStep(u)
               PROVE  unpacker'[u].pc # "failed"
    BY DEF Step
  <2>1. /\ unpacker[u].pc \in {"resolving", "opening", "verifying"}
        /\ c \in Seq(Bytes) /\ DOMAIN unpacker = Unpackers
        /\ unpacker[u] \in UnpackerRecords
    BY DEF ReadsInv, Reads, FilesInv, Types, UnpackerTyped
  <2>2. /\ /\ unpacker[u].index < unpacker[u].header.totalChunks
           /\ Len(unpacker[u].read) > unpacker[u].index + 1 \/ AtEnd(u)
           => ChunkVerified(u)
        /\ unpacker[u].index = unpacker[u].header.totalChunks => EndsExactly(u)
    BY <2>1, WholeVerifies
  <2>3. CASE ResolveOutput(u)
    BY <2>1, <2>3 DEF ResolveOutput, UnpackerRecords
  <2>4. CASE OpenUnpacking(u)
    BY <2>1, <2>4 DEF OpenUnpacking, UnpackerRecords
  <2>5. CASE VerifyChunk(u)
    BY <2>1, <2>5 DEF VerifyChunk, UnpackerRecords
  <2>6. CASE EndOfChunks(u)
    BY <2>1, <2>2, <2>6 DEF EndOfChunks, UnpackerRecords
  <2>7. CASE ReadFrames(u)
    BY <2>1, <2>7 DEF ReadFrames, UnpackerRecords
  <2> QED
    BY <2>1, <2>2, <2>3, <2>4, <2>5, <2>6, <2>7
    DEF UnpackStep, BeginUnpack, RejectChunk, ReplaceOutput
<1> HIDE DEF Step
<1>2. Spec => [][Step]_vars
  BY <1>1, ReadsInit, ReadsStep, PTL DEF Spec
<1> QED
  BY <1>2 DEF Step, WholeArtifactUnpacks

-----------------------------------------------------------------------------
(* What an undisturbed packer writes *)

\* Induction, over the set of the numbers something holds of.
LEMMA ByInduction ==
  ASSUME NEW S, 0 \in S, \A n \in Nat : n \in S => n + 1 \in S
  PROVE  Nat \subseteq S
<1> SUFFICES ASSUME Nat \ S # {}
             PROVE  FALSE
  OBVIOUS
<1>1. PICK R : R = OpToRel(<, Nat) /\ IsWellFoundedOn(R, Nat)
  BY NatLessThanWellFounded, Zenon
<1>2. PICK m \in Nat \ S : \A k \in Nat \ S : ~(<<k, m>> \in R)
  BY <1>1, WFMin
<1>3. m # 0
  OBVIOUS
<1>4. m - 1 \in Nat /\ (m - 1) + 1 = m /\ m - 1 < m
  BY <1>3
<1>5. m - 1 \in S
  <2>1. ASSUME m - 1 \notin S PROVE FALSE
    <3>1. ~(<<m - 1, m>> \in R)
      BY <1>2, <1>4, <2>1
    <3>2. <<m - 1, m>> \in R
      BY <1>1, <1>4, Zenon DEF OpToRel
    <3> QED
      BY <3>1, <3>2
  <2> QED
    BY <2>1
<1> QED
  BY <1>2, <1>4, <1>5

\* The names of the packers differ.
LEMMA PackersNames ==
  /\ Packing \in Names /\ Artifact \in Names /\ Received \in Names
  /\ Packing # Artifact /\ Packing # Received /\ Artifact # Received
BY DEF Names, Packing, Artifact, Received

\* An unpacker leaves the packers and every artifact as they are.
LEMMA UnpackersLeave ==
  ASSUME FilesInv, NEW u \in Unpackers, UnpackStep(u) \/ UnpackFails(u)
  PROVE  ArtifactsStay /\ packer' = packer /\ sealed' = sealed
<1>1. CASE OpenUnpacking(u)
  <2>1. packer' = packer /\ sealed' = sealed
    BY <1>1 DEF OpenUnpacking
  <2> QED
    BY <1>1, <2>1, OpenUnpackingWrites
<1>2. CASE VerifyChunk(u)
  BY <1>2, VerifyChunkWrites DEF VerifyChunk
<1>3. CASE \/ BeginUnpack(u) \/ ResolveOutput(u) \/ ReadFrames(u) \/ RejectChunk(u)
           \/ EndOfChunks(u) \/ ReplaceOutput(u) \/ UnpackFails(u)
  <2>1. PICK r : PlainUnpack(u, r)
    BY <1>3, UnpackerPlain
  <2>2. ArtifactsStay
    BY <2>1, PlainUnpackStays
  <2> QED
    BY <2>1, <2>2 DEF PlainUnpack
<1> QED
  BY <1>1, <1>2, <1>3 DEF UnpackStep

\* The headers are those of the sources the packers began with; who is about to
\* rename has sealed as many chunks as the header says, and written all of them.
HeadersOwn ==
  \A p \in Packers :
    /\ Active(packer[p]) =>
         packer[p].header = Header(p, packer[p].header.totalSize, PackChunkSize[p])
    /\ packer[p].pc = "replacing" =>
         packer[p].written = packer[p].header.totalChunks /\ packer[p].buffer = <<>>
PacksInv == FilesInv /\ (\E H, P : Packed(H, P)) /\ HeadersOwn

\* No call has a header at the start.
LEMMA PacksInit == Init => PacksInv
<1> SUFFICES ASSUME Init PROVE PacksInv
  OBVIOUS
<1>1. FilesInv /\ \E H, P : Packed(H, P)
  BY FilesInit, DeliveryInit DEF DeliveryInv
<1>2. \A p \in Packers : packer[p].pc = "idle"
  BY DEF Init, NotPacking
<1> QED
  BY <1>1, <1>2 DEF PacksInv, HeadersOwn, Active, Ended

\* What a step of a packer does to its own locals.
LEMMA PackerGoesOn ==
  ASSUME FilesInv, HeadersOwn, NEW p \in Packers, PackStep(p) \/ PackFails(p)
  PROVE  /\ \A q \in Packers \ {p} : packer'[q] = packer[q]
         /\ Active(packer'[p]) =>
              packer'[p].header =
                Header(p, packer'[p].header.totalSize, PackChunkSize[p])
         /\ packer'[p].pc = "replacing" =>
              packer'[p].written = packer'[p].header.totalChunks
                /\ packer'[p].buffer = <<>>
<1>0. /\ DOMAIN packer = Packers /\ packer[p] \in PackerRecords
      /\ Active(packer[p]) =>
           packer[p].header = Header(p, packer[p].header.totalSize, PackChunkSize[p])
  BY DEF FilesInv, Types, PackerTyped, HeadersOwn
<1>1. ASSUME NEW pc \in {"failed", "done", "killed", "stranded"}, PackStops(p, pc)
      PROVE  /\ \A q \in Packers \ {p} : packer'[q] = packer[q]
             /\ ~Active(packer'[p]) /\ packer'[p].pc = pc
  BY <1>0, <1>1 DEF PackStops, NotPacking, Active, Ended
<1>2. CASE BeginPack(p) /\ ~PackStops(p, "failed")
  <2>1. PICK h : h = Header(p, Len(source), PackChunkSize[p])
    OBVIOUS
  <2>2. /\ packer[p].pc = "idle"
        /\ packer' = [packer EXCEPT ![p].pc = "opening", ![p].header = h]
    BY <1>2, <2>1 DEF BeginPack
  <2>3. /\ packer'[p].pc = "opening" /\ packer'[p].header = h
        /\ \A q \in Packers \ {p} : packer'[q] = packer[q]
    BY <1>0, <2>2 DEF PackerRecords
  <2>4. h.totalSize = Len(source)
    BY <2>1 DEF Header
  <2> QED
    BY <2>1, <2>3, <2>4
<1>3. CASE OpenPacking(p)
  <2>1. PICK i, b :
          packer' = [packer EXCEPT ![p].pc = "writing", ![p].dst = i, ![p].buffer = b]
    BY <1>3 DEF OpenPacking
  <2>2. /\ packer'[p].pc = "writing" /\ packer'[p].header = packer[p].header
        /\ \A q \in Packers \ {p} : packer'[q] = packer[q]
    BY <1>0, <2>1 DEF PackerRecords
  <2>3. Active(packer[p])
    BY <1>3 DEF OpenPacking, Active, Ended
  <2> QED
    BY <1>0, <2>2, <2>3
<1>4. CASE PackChunk(p)
  <2>1. PICK k, c, b :
          packer' = [packer EXCEPT ![p].written = k, ![p].read = c, ![p].buffer = b]
    BY <1>4 DEF PackChunk
  <2>2. /\ packer[p].pc = "writing" /\ packer'[p].pc = "writing"
        /\ packer'[p].header = packer[p].header
        /\ \A q \in Packers \ {p} : packer'[q] = packer[q]
    BY <1>0, <1>4, <2>1 DEF PackerRecords, PackChunk
  <2>3. Active(packer[p])
    BY <2>2 DEF Active, Ended
  <2> QED
    BY <1>0, <2>2, <2>3
<1>5. CASE FlushPacking(p)
  <2>1. packer[p].pc \in {"writing", "closing"}
    BY <1>5 DEF FlushPacking
  <2>2. PICK b : packer' = [packer EXCEPT ![p].buffer = b]
    BY <1>5 DEF FlushPacking
  <2>3. /\ packer'[p].pc = packer[p].pc /\ packer'[p].header = packer[p].header
        /\ \A q \in Packers \ {p} : packer'[q] = packer[q]
    BY <1>0, <2>2 DEF PackerRecords
  <2>4. Active(packer[p])
    BY <2>1 DEF Active, Ended
  <2> QED
    BY <1>0, <2>1, <2>3, <2>4
<1>8. CASE EndOfSource(p)
  <2>1. packer[p].pc = "writing" /\ packer' = [packer EXCEPT ![p].pc = "closing"]
    BY <1>8 DEF EndOfSource
  <2>2. /\ packer'[p].pc = "closing" /\ packer'[p].header = packer[p].header
        /\ \A q \in Packers \ {p} : packer'[q] = packer[q]
    BY <1>0, <2>1 DEF PackerRecords
  <2>3. Active(packer[p])
    BY <2>1 DEF Active, Ended
  <2> QED
    BY <1>0, <2>2, <2>3
<1>6. CASE ClosePacking(p) /\ CountMatches(p)
  <2>1. /\ packer' = [packer EXCEPT ![p].pc = "replacing", ![p].dst = NoFile]
        /\ packer[p].pc = "closing" /\ packer[p].buffer = <<>>
    BY <1>6 DEF ClosePacking
  <2>2. /\ packer'[p].pc = "replacing" /\ packer'[p].header = packer[p].header
        /\ packer'[p].written = packer[p].written /\ packer'[p].buffer = <<>>
        /\ \A q \in Packers \ {p} : packer'[q] = packer[q]
    BY <1>0, <2>1 DEF PackerRecords
  <2>3. Active(packer[p])
    BY <2>1 DEF Active, Ended
  <2> QED
    BY <1>0, <1>6, <2>2, <2>3 DEF CountMatches
<1>7. CASE \E pc \in {"failed", "done", "killed", "stranded"} : PackStops(p, pc)
  BY <1>1, <1>7
<1> QED
  BY <1>2, <1>3, <1>4, <1>5, <1>6, <1>7, <1>8
  DEF PackStep, PackFails, ClosePacking, ReplaceArtifact, PackIOError, PackStrands, KillPack

\* The step of any call keeps the invariant.
LEMMA PacksStep == PacksInv /\ [Next]_vars => PacksInv'
<1> SUFFICES ASSUME PacksInv, [Next]_vars PROVE PacksInv'
  OBVIOUS
<1>1. FilesInv'
  BY FilesStep DEF PacksInv
<1>2. PICK H : \E P : Packed(H, P)
  BY DEF PacksInv
<1>6. PICK P : Packed(H, P)
  BY <1>2
<1>3. \E H2, P2 : Packed(H2, P2)'
  <2>1. ASSUME PackedOn(H, P) PROVE \E H2, P2 : Packed(H2, P2)'
    BY <2>1 DEF PackedOn
  <2>2. ASSUME NEW u \in Unpackers, UnpackStep(u) \/ UnpackFails(u)
        PROVE  Packed(H, P)'
    BY <1>6, <2>2, UnpackersLeave, PackedStays DEF PacksInv
  <2> QED
    BY <1>6, <2>1, <2>2, PackersPack, ArrivePacks, EditPacks DEF Next, PacksInv
<1>4. packer' = packer \/ \E p \in Packers : PackStep(p) \/ PackFails(p)
  BY UnpackersLeave DEF Next, PacksInv, vars, EditSource, Arrive
<1>5. HeadersOwn'
  BY <1>4, PackerGoesOn DEF PacksInv, HeadersOwn
<1> QED
  BY <1>1, <1>3, <1>5 DEF PacksInv

\* What a packer that nobody has disturbed works on: the parts of the artifact of
\* the source as it is.
LEMMA UndisturbedParts ==
  ASSUME PacksInv, NEW p \in Packers, Active(packer[p]), Undisturbed(p),
         NEW cs, cs = PackChunkSize[p], NEW h, h = packer[p].header,
         NEW w, w = ArtifactOf(Secret[p], p, source, cs)
  PROVE  /\ cs \in Nat \ {0} /\ source \in Seq(Bytes) /\ Len(source) \in Nat
         /\ Parts(w, Secret[p], p, source, cs, h) /\ h \in Headers
         /\ packer[p] \in PackerRecords /\ packer[p].written \in Nat
         /\ packer[p].read \in Seq(Bytes)
<1>1. cs \in Nat \ {0}
  BY LimitsOK, FilesOK DEF ChunkSizeValid
<1>2. /\ source \in Seq(Bytes) /\ packer[p] \in PackerRecords
      /\ h \in Headers /\ h.fileId = p
  BY DEF PacksInv, FilesInv, Types, PackerTyped
<1>3. Len(source) \in Nat /\ packer[p].written \in Nat /\ packer[p].read \in Seq(Bytes)
  BY <1>2 DEF PackerRecords
<1>4. h = Header(p, Len(source), cs)
  <2>1. h = Header(p, h.totalSize, cs)
    BY DEF PacksInv, HeadersOwn
  <2>2. h.totalSize = Len(source)
    BY DEF Undisturbed
  <2> QED
    BY <2>1, <2>2
<1>5. Parts(w, Secret[p], p, source, cs, h)
  <2>1. PICK secret, c : secret = Secret[p] /\ c = source
    OBVIOUS
  <2>2. c \in Seq(Bytes) /\ h = Header(p, Len(c), cs) /\ w = ArtifactOf(secret, p, c, cs)
    BY <1>2, <1>4, <2>1
  <2>3. Parts(w, secret, p, c, cs, h)
    BY <1>1, <2>2, ArtifactParts
  <2> QED
    BY <2>1, <2>3
<1> QED
  BY <1>1, <1>2, <1>3, <1>5

\* An undisturbed packer has read as many bytes as the chunks it has sealed
\* hold: each of them is a chunk of the source, and it is the one that was read.
LEMMA ReadSoFar ==
  ASSUME PacksInv, NEW p \in Packers, packer[p].pc \in {"writing", "closing"},
         dir[Packing] # NoFile,
         Undisturbed(p), NEW h, h = packer[p].header, NEW n, n = packer[p].written
  PROVE  n <= h.totalChunks /\ Len(packer[p].read) = BytesIn(h, n)
<1>0. Active(packer[p])
  BY DEF Active, Ended
<1>1. PICK cs, w, i, all : /\ cs = PackChunkSize[p] /\ i = dir[Packing]
                           /\ w = ArtifactOf(Secret[p], p, source, cs)
                           /\ all = data[i] \o packer[p].buffer
  OBVIOUS
<1>16. /\ cs \in Nat \ {0} /\ source \in Seq(Bytes) /\ Len(source) \in Nat
       /\ Parts(w, Secret[p], p, source, cs, h) /\ packer[p].written \in Nat
       /\ packer[p].read \in Seq(Bytes)
  BY <1>0, <1>1, UndisturbedParts
<1>2. /\ cs \in Nat \ {0} /\ source \in Seq(Bytes) /\ Len(source) \in Nat
      /\ h.totalChunks \in Nat /\ h.totalChunks = ChunkCount(Len(source), cs)
      /\ h.totalSize = Len(source) /\ h.chunkSize = cs /\ h.fileId = p
      /\ Len(w) = h.totalChunks + 1 /\ w[1] = HeaderFrame(Secret[p], h)
      /\ \A m \in 0..(h.totalChunks - 1) :
           w[m + 2] = ChunkFrame(Secret[p], h, m, TagBefore(p, m), Chunk(source, cs, m))
      /\ \E S : w \in Seq(S)
      /\ packer[p].written \in Nat /\ packer[p].read \in Seq(Bytes)
  BY <1>16 DEF Parts
<1>3. n \in Nat /\ n < Len(w) /\ all = SubSeq(w, 1, n + 1)
  BY <1>1, <1>2 DEF Undisturbed
<1>4. n <= h.totalChunks /\ n + 1 \in 0..Len(w)
  BY <1>2, <1>3
<1>5. Len(all) = n + 1 /\ \A k \in 1..(n + 1) : all[k] = w[k]
  <2>1. PICK S, m : w \in Seq(S) /\ m = n + 1 /\ m \in 0..Len(w)
    BY <1>2, <1>4
  <2>2. Len(SubSeq(w, 1, m)) = m /\ \A k \in 1..m : SubSeq(w, 1, m)[k] = w[k]
    BY <2>1, Beginnings
  <2> QED
    BY <1>3, <2>1, <2>2
<1>6. PICK H : \E P : Packed(H, P)
  BY DEF PacksInv
<1>7. PICK P : Packed(H, P)
  BY <1>6
<1>8. /\ Len(P[p]) = n + 1 /\ P[p][n + 1] = packer[p].read /\ P[p][1] = <<>>
      /\ P[p] \in Seq(Seq(Bytes))
  <2>1. Packs(p, packer[p], H[p], P[p]) /\ P[p] \in Seq(Seq(Bytes))
    BY <1>7 DEF Packed
  <2>2. Len(P[p]) = n + 1 /\ P[p][n + 1] = packer[p].read
    BY <2>1 DEF Packs
  <2>3. P[p] # <<>>
    BY <1>3, <2>2
  <2> QED
    BY <2>1, <2>2, <2>3 DEF Packs
<1>9. all \in Seq(Made(H, P))
  <2>1. i \in Inodes
    BY <1>1, PackersNames DEF PacksInv, FilesInv, Types, Files
  <2>2. HoldsArtifact(i)
    BY <1>1, NamesOfKinds DEF HoldsArtifact
  <2>3. data[i] \in Seq(Made(H, P)) /\ packer[p].buffer \in Seq(Made(H, P))
    BY <1>7, <2>1, <2>2 DEF Packed
  <2> QED
    BY <1>1, <2>3, ConcatProperties
<1>10. ASSUME NEW m \in Nat, m < n
       PROVE  P[p][m + 2] = P[p][m + 1] \o Chunk(source, cs, m)
  <2>1. PICK e : e = all[m + 2]
    OBVIOUS
  <2>2. m + 2 \in 1..(n + 1) /\ m \in 0..(h.totalChunks - 1)
    BY <1>2, <1>3, <1>4, <1>10
  <2>3. e \in Made(H, P) /\ e = w[m + 2]
    BY <1>5, <1>9, <2>1, <2>2
  <2>4. e = ChunkFrame(Secret[p], h, m, TagBefore(p, m), Chunk(source, cs, m))
    BY <1>2, <2>2, <2>3
  <2>5. e.aad = ChunkAad(p, m, TagBefore(p, m)) /\ e.plain = Chunk(source, cs, m)
    BY <1>2, <2>4 DEF ChunkFrame, Frame
  <2> QED
    BY <2>3, <2>5 DEF Made
<1>11. PICK Good : Good = {m \in Nat : m <= n => Len(P[p][m + 1]) = BytesIn(h, m)}
  OBVIOUS
<1>12. 0 \in Good
  <2>1. BytesIn(h, 0) = 0
    <3>1. 0 * cs = 0
      BY <1>2
    <3>2. h.totalChunks = 0 => h.totalSize = 0
      <4>1. PICK size, t : size = Len(source) /\ t = h.totalChunks
        OBVIOUS
      <4>2. size \in Nat /\ t = ChunkCount(size, cs)
        BY <1>2, <4>1
      <4>3. t = 0 <=> size = 0
        BY <1>2, <4>2, CountOfChunks
      <4> QED
        BY <1>2, <4>1, <4>3
    <3> QED
      BY <1>2, <3>1, <3>2 DEF BytesIn
  <2>2. Len(P[p][0 + 1]) = 0
    BY <1>8
  <2> QED
    BY <1>11, <2>1, <2>2
<1>13. ASSUME NEW m \in Nat, m \in Good PROVE m + 1 \in Good
  <2> SUFFICES ASSUME m + 1 <= n PROVE Len(P[p][(m + 1) + 1]) = BytesIn(h, m + 1)
    BY <1>11
  <2>1. m < n /\ m < h.totalChunks /\ (m + 1) + 1 = m + 2 /\ m <= n
    BY <1>2, <1>3, <1>4
  <2>2. PICK a, b : a = P[p][m + 1] /\ b = Chunk(source, cs, m)
    OBVIOUS
  <2>3. P[p][m + 2] = a \o b
    BY <1>10, <2>1, <2>2
  <2>4. a \in Seq(Bytes) /\ Len(a) = BytesIn(h, m)
    <3>1. n \in Nat /\ m + 1 \in 1..(n + 1)
      <4>1. n \in Nat
        BY <1>3
      <4> QED
        BY <2>1, <4>1
    <3>2. Len(P[p]) = n + 1 /\ P[p] \in Seq(Seq(Bytes))
      BY <1>8
    <3>3. a \in Seq(Bytes)
      BY <2>2, <3>1, <3>2
    <3> QED
      BY <1>11, <1>13, <2>1, <2>2, <3>3
  <2>5. b \in Seq(Bytes) /\ Len(b) = EndOf(m, Len(source), cs) - m * cs
    BY <1>2, <2>1, <2>2, ChunkOf
  <2>6. EndOf(m, Len(source), cs) = BytesIn(h, m + 1) /\ m * cs \in Nat
    <3>1. /\ m * h.chunkSize \in Nat
          /\ EndOf(m, h.totalSize, h.chunkSize) =
               IF m + 1 = h.totalChunks THEN h.totalSize ELSE (m + 1) * h.chunkSize
      BY <1>2, <2>1, LengthOfChunk
    <3> QED
      BY <1>2, <3>1 DEF BytesIn
  <2>7. BytesIn(h, m) = m * cs
    BY <1>2, <2>1 DEF BytesIn
  <2>8. Len(a \o b) = Len(a) + Len(b)
    BY <2>4, <2>5, ConcatProperties
  <2>9. BytesIn(h, m + 1) \in Nat
    <3>1. (m + 1) * cs \in Nat
      BY <1>2, Products
    <3> QED
      BY <1>2, <3>1 DEF BytesIn
  <2>10. PICK before, after : before = m * cs /\ after = BytesIn(h, m + 1)
    OBVIOUS
  <2>11. Len(a \o b) = after
    <3>1. before \in Nat /\ after \in Nat /\ Len(a) = before /\ Len(b) = after - before
      BY <2>4, <2>5, <2>6, <2>7, <2>9, <2>10
    <3> QED
      BY <2>8, <3>1
  <2> QED
    BY <2>1, <2>3, <2>10, <2>11
<1>14. n \in Good
  BY <1>3, <1>12, <1>13, ByInduction
<1>15. Len(P[p][n + 1]) = BytesIn(h, n)
  BY <1>3, <1>11, <1>14
<1> QED
  BY <1>4, <1>8, <1>15

\* What an undisturbed packer reads next: the next chunk of the source, and
\* nothing behind the last one.
LEMMA NextIsChunk ==
  ASSUME PacksInv, NEW p \in Packers, packer[p].pc = "writing", dir[Packing] # NoFile,
         Undisturbed(p), NEW h, h = packer[p].header, NEW n, n = packer[p].written,
         NEW cs, cs = PackChunkSize[p]
  PROVE  /\ n = h.totalChunks => NextPiece(p) = <<>>
         /\ n # h.totalChunks =>
              /\ n \in 0..(h.totalChunks - 1)
              /\ NextPiece(p) = Chunk(source, cs, n) /\ NextPiece(p) # <<>>
              /\ \E e \in 1..Len(source) :
                   packer[p].read \o NextPiece(p) = SubSeq(source, 1, e)
<1>0. Active(packer[p])
  BY DEF Active, Ended
<1>1. PICK w : w = ArtifactOf(Secret[p], p, source, cs)
  OBVIOUS
<1>2. /\ cs \in Nat \ {0} /\ source \in Seq(Bytes) /\ Len(source) \in Nat
      /\ Parts(w, Secret[p], p, source, cs, h) /\ packer[p].written \in Nat
      /\ packer[p].read \in Seq(Bytes)
  BY <1>0, <1>1, UndisturbedParts
<1>3. PICK size, t, from, read : /\ size = Len(source) /\ t = h.totalChunks
                                 /\ read = packer[p].read /\ from = Len(read)
  OBVIOUS
<1>4. /\ t \in Nat /\ t = ChunkCount(size, cs) /\ h.totalSize = size /\ h.chunkSize = cs
      /\ cs \in Nat /\ size \in Nat /\ n \in Nat /\ source \in Seq(Bytes)
  BY <1>2, <1>3 DEF Parts
<1>5. n <= t /\ from = BytesIn(h, n) /\ from \in Nat
  BY <1>2, <1>3, ReadSoFar
<1>6. PICK to : to = IF from + cs < size THEN from + cs ELSE size
  OBVIOUS
<1>7. NextPiece(p) = SubSeq(source, from + 1, to)
  BY <1>3, <1>4, <1>6, Zenon DEF NextPiece
<1>8. ASSUME n = t PROVE NextPiece(p) = <<>>
  <2>1. from = size
    BY <1>3, <1>4, <1>5, <1>8 DEF BytesIn
  <2>2. to = size /\ to < from + 1 /\ from + 1 \in Int /\ to \in Int
    BY <1>4, <1>6, <2>1
  <2> QED
    BY <1>7, <2>2, SubSeqEmpty
<1>9. ASSUME n # t
      PROVE  /\ n \in 0..(t - 1)
             /\ NextPiece(p) = Chunk(source, cs, n) /\ NextPiece(p) # <<>>
             /\ \E e \in 1..size : read \o NextPiece(p) = SubSeq(source, 1, e)
  <2>1. n < t /\ n \in 0..(t - 1)
    BY <1>4, <1>5, <1>9
  <2>2. PICK e : e = EndOf(n, size, cs)
    OBVIOUS
  <2>3. /\ n * cs \in Nat /\ n * cs < size /\ e \in (n * cs + 1)..size
        /\ Chunk(source, cs, n) = SubSeq(source, n * cs + 1, e)
        /\ Len(Chunk(source, cs, n)) = e - n * cs
    <3>1. n < ChunkCount(Len(source), cs) /\ e = EndOf(n, Len(source), cs)
      BY <1>3, <1>4, <2>1, <2>2
    <3>2. PICK k \in Nat, b \in Nat \ {0} : k = n /\ b = cs
      BY <1>2, <1>4
    <3>3. k < ChunkCount(Len(source), b)
      BY <3>1, <3>2
    <3>4. /\ k * b \in Nat /\ k * b < Len(source)
          /\ EndOf(k, Len(source), b) \in (k * b + 1)..Len(source)
          /\ Chunk(source, b, k) = SubSeq(source, k * b + 1, EndOf(k, Len(source), b))
          /\ Len(Chunk(source, b, k)) = EndOf(k, Len(source), b) - k * b
      BY <1>2, <3>3, ChunkOf
    <3> QED
      BY <1>3, <3>1, <3>2, <3>4
  <2>4. from = n * cs
    BY <1>3, <1>4, <1>5, <1>9 DEF BytesIn
  <2>5. e = to
    <3>1. (n + 1) * cs = n * cs + cs
      BY <1>4, Products
    <3>2. e = IF from + cs <= size THEN from + cs ELSE size
      BY <2>2, <2>4, <3>1 DEF EndOf
    <3> QED
      BY <1>4, <1>5, <1>6, <3>2
  <2>6. NextPiece(p) = Chunk(source, cs, n)
    BY <1>7, <2>3, <2>4, <2>5
  <2>7. e \in (from + 1)..size /\ Len(NextPiece(p)) = e - from
    BY <2>3, <2>4, <2>6
  <2>8. Len(NextPiece(p)) # 0
    BY <1>4, <1>5, <2>7
  <2>9. NextPiece(p) # <<>>
    BY <2>8
  <2>10. read = SubSeq(source, 1, from)
    BY <1>3 DEF Undisturbed
  <2>11. SubSeq(source, 1, from) \o SubSeq(source, from + 1, e) = SubSeq(source, 1, e)
    <3>1. /\ 1 \in 1..(Len(source) + 1) /\ from \in (1 - 1)..Len(source)
          /\ e \in from..Len(source)
      BY <1>3, <1>4, <1>5, <2>7
    <3> QED
      BY <1>4, <3>1, ConcatAdjacentSubSeq
  <2>12. read \o NextPiece(p) = SubSeq(source, 1, e)
    BY <1>7, <2>5, <2>10, <2>11, Zenon
  <2>13. e \in 1..size
    BY <1>4, <1>5, <2>7
  <2> QED
    BY <2>1, <2>6, <2>9, <2>12, <2>13
<1> QED
  BY <1>3, <1>8, <1>9

\* The file under the temporary name after a step that writes none.
LEMMA PackingStays ==
  ASSUME FilesInv, ArtifactsStay, NEW name \in {Artifact, Packing}, dir'[name] \in Inodes
  PROVE  data'[dir'[name]] = data[dir'[name]]
<1>1. PICK i \in Inodes : i = dir'[name]
  OBVIOUS
<1>2. HoldsArtifact(i)'
  BY <1>1, NamesOfKinds DEF HoldsArtifact
<1> QED
  BY <1>1, <1>2 DEF ArtifactsStay

\* The temporary file is empty, and the header is in the buffer.
LEMMA UndisturbedOpens ==
  ASSUME PacksInv, NEW p \in Packers, Undisturbed(p), OpenPacking(p)
  PROVE  packer'[p].pc = "writing" /\ Undisturbed(p)'
<1>1. packer[p].pc = "opening" /\ Active(packer[p]) /\ source' = source
  BY DEF OpenPacking, Active, Ended
<1>2. PICK cs, h, w : /\ cs = PackChunkSize[p] /\ h = packer[p].header
                      /\ w = ArtifactOf(Secret[p], p, source, cs)
  OBVIOUS
<1>3. Parts(w, Secret[p], p, source, cs, h) /\ packer[p] \in PackerRecords
  BY <1>1, <1>2, UndisturbedParts
<1>11. PICK b : b = <<HeaderFrame(Secret[p], h)>>
  OBVIOUS
<1>4. PICK i \in Inodes :
        /\ ArtifactWritten(i, <<>>) /\ dir' = [dir EXCEPT ![Packing] = i]
        /\ packer' = [packer EXCEPT ![p] =
                        [packer[p] EXCEPT !.pc = "writing", !.dst = i, !.buffer = b]]
  BY <1>2, <1>11, OpenPackingWrites DEF PacksInv
<1>5. packer[p].read = <<>> /\ packer[p].written = 0
  BY <1>1 DEF PacksInv, Packed, Packs
<1>6. /\ packer'[p].pc = "writing" /\ packer'[p].header = h /\ packer'[p].dst = i
      /\ packer'[p].read = <<>> /\ packer'[p].written = 0 /\ packer'[p].buffer = b
  BY <1>2, <1>3, <1>4, <1>5 DEF PackerRecords, PacksInv, FilesInv, Types
<1>12. dir'[Packing] = i /\ data'[i] = <<>>
  <2>1. dir'[Packing] = i
    BY <1>4, PackersNames DEF PacksInv, FilesInv, Types
  <2>2. HoldsArtifact(i)'
    BY <2>1, NamesOfKinds DEF HoldsArtifact
  <2> QED
    BY <1>4, <2>1, <2>2 DEF ArtifactWritten
<1>7. h.totalSize = Len(source) /\ Len(w) = h.totalChunks + 1 /\ h.totalChunks \in Nat
  BY <1>3 DEF Parts
<1>8. data'[dir'[Packing]] \o packer'[p].buffer = SubSeq(w, 1, 0 + 1)
  <2>1. PICK S : w \in Seq(S)
    BY <1>3 DEF Parts
  <2>2. 1 \in 1..Len(w) /\ w[1] = HeaderFrame(Secret[p], h)
    BY <1>3, <1>7 DEF Parts
  <2>3. SubSeq(w, 1, 1) = SubSeq(w, 1, 1 - 1) \o <<w[1]>>
    BY <2>1, <2>2, SubSeqRecursiveSecond
  <2>4. SubSeq(w, 1, 1 - 1) = <<>> /\ 0 + 1 = 1
    BY <2>1, <2>2, SubSeqEmpty
  <2>5. <<w[1]>> = b
    BY <1>11, <2>2
  <2> QED
    BY <1>6, <1>12, <2>3, <2>4, <2>5
<1>9. packer'[p].read = SubSeq(source, 1, Len(packer'[p].read)) /\ Len(packer'[p].read) <= Len(source)
  <2>1. SubSeq(source, 1, 0) = <<>> /\ Len(<<>>) = 0
    BY SubSeqEmpty
  <2>2. Len(source) \in Nat
    BY DEF PacksInv, FilesInv, Types
  <2> QED
    BY <1>6, <2>1, <2>2
<1>10. 0 < Len(w)
  BY <1>7
<1> QED
  BY <1>1, <1>2, <1>6, <1>7, <1>8, <1>9, <1>10, <1>12 DEF Undisturbed

\* The next chunk is behind those in the buffer.
LEMMA UndisturbedWrites ==
  ASSUME PacksInv, NEW p \in Packers, dir[Packing] # NoFile, Undisturbed(p), PackChunk(p)
  PROVE  packer'[p].pc = "writing" /\ Undisturbed(p)'
<1>1. /\ packer[p].pc = "writing" /\ Active(packer[p])
      /\ source' = source /\ dir' = dir /\ data' = data
  BY DEF PackChunk, Active, Ended
<1>2. PICK cs, h, w, n, c, b :
        /\ cs = PackChunkSize[p] /\ h = packer[p].header /\ n = packer[p].written
        /\ w = ArtifactOf(Secret[p], p, source, cs) /\ c = NextPiece(p)
        /\ b = packer[p].buffer
  OBVIOUS
<1>3. /\ Parts(w, Secret[p], p, source, cs, h) /\ n \in Nat /\ h \in Headers
      /\ packer[p] \in PackerRecords /\ source \in Seq(Bytes)
  BY <1>1, <1>2, UndisturbedParts
<1>4. /\ n \in 0..(h.totalChunks - 1) /\ c = Chunk(source, cs, n)
      /\ \E e \in 1..Len(source) : packer[p].read \o c = SubSeq(source, 1, e)
  <2>1. c # <<>>
    BY <1>2 DEF PackChunk
  <2> QED
    BY <1>1, <1>2, <2>1, NextIsChunk
<1>5. PICK t : t = TagBefore(p, n)
  OBVIOUS
<1>6. PICK f : f = ChunkFrame(Secret[p], h, n, t, c)
  OBVIOUS
<1>14. PICK b2 : b2 = Append(b, f)
  OBVIOUS
<1>7. /\ f \in Frames
      /\ packer' = [packer EXCEPT ![p] =
                      [packer[p] EXCEPT !.written = n + 1, !.read = packer[p].read \o c,
                                        !.buffer = b2]]
  <2>1. c \in Seq(Bytes)
    BY <1>1, <1>2, PieceTyped DEF PacksInv, FilesInv
  <2>2. t \in Packers \X Int
    BY <1>3, <1>5 DEF TagBefore, HeaderTag, ChunkTag
  <2>3. h.fileId = p
    BY <1>3 DEF Parts
  <2>4. f \in Frames
    BY <1>3, <1>6, <2>1, <2>2, <2>3, FrameTyped
  <2>5. t = IF n = 0 THEN HeaderTag(p) ELSE ChunkTag(p, n - 1)
    BY <1>5 DEF TagBefore
  <2> QED
    BY <1>2, <1>6, <1>14, <2>4, <2>5 DEF PackChunk
<1>8. /\ packer'[p].pc = "writing" /\ packer'[p].header = h
      /\ packer'[p].read = packer[p].read \o c /\ packer'[p].written = n + 1
      /\ packer'[p].dst = packer[p].dst /\ packer'[p].buffer = b2
  BY <1>1, <1>2, <1>3, <1>7 DEF PackerRecords, PacksInv, FilesInv, Types
<1>9. h.totalSize = Len(source) /\ Len(w) = h.totalChunks + 1 /\ h.totalChunks \in Nat
  BY <1>3 DEF Parts
<1>10. /\ packer'[p].read = SubSeq(source, 1, Len(packer'[p].read))
       /\ Len(packer'[p].read) <= Len(source)
  <2>1. PICK e \in 1..Len(source) : packer'[p].read = SubSeq(source, 1, e)
    BY <1>4, <1>8
  <2>2. e \in 0..Len(source) /\ e <= Len(source)
    OBVIOUS
  <2>3. Len(SubSeq(source, 1, e)) = e
    BY <1>3, <2>2, Beginnings
  <2> QED
    BY <2>1, <2>2, <2>3
<1>11. n + 1 < Len(w) /\ n + 2 \in 1..Len(w) /\ (n + 1) + 1 = n + 2 /\ (n + 2) - 1 = n + 1
  BY <1>3, <1>4, <1>9
<1>12. PICK i : i = dir[Packing]
  OBVIOUS
<1>13. data[i] \o b2 = SubSeq(w, 1, (n + 1) + 1)
  <2>1. PICK old : old = data[i]
    OBVIOUS
  <2>2. old \o b = SubSeq(w, 1, n + 1)
    BY <1>1, <1>2, <1>12, <2>1 DEF Undisturbed
  <2>3. PICK S : w \in Seq(S)
    BY <1>3 DEF Parts
  <2>4. old \in Seq(Frames) /\ b \in Seq(Frames) /\ <<f>> \in Seq(Frames)
    <3>1. i \in Inodes
      BY <1>12, PackersNames DEF PacksInv, FilesInv, Types, Files
    <3>2. HoldsArtifact(i)
      BY <1>12, NamesOfKinds DEF HoldsArtifact
    <3>3. b \in Seq(Frames)
      BY <1>2, <1>3 DEF PackerRecords
    <3> QED
      BY <1>7, <2>1, <3>1, <3>2, <3>3 DEF PacksInv, FilesInv, Contents
  <2>5. b2 = b \o <<f>>
    BY <1>7, <1>14, <2>4, AppendIsConcat
  <2>6. old \o b2 = (old \o b) \o <<f>>
    <3>1. PICK g : g = <<f>>
      OBVIOUS
    <3>2. (old \o b) \o g = old \o (b \o g)
      BY <2>4, <3>1, ConcatAssociative
    <3> QED
      BY <2>5, <3>1, <3>2
  <2>7. w[n + 2] = f
    BY <1>3, <1>4, <1>5, <1>6 DEF Parts
  <2>9. SubSeq(w, 1, n + 2) = SubSeq(w, 1, n + 1) \o <<f>>
    <3>1. PICK k : k = n + 2 /\ k \in 1..Len(w) /\ k - 1 = n + 1 /\ 1 \in 1..Len(w) /\ k >= 1
      BY <1>3, <1>11
    <3>2. k \in 1..Len(w) /\ 1 \in 1..Len(w)
      BY <3>1
    <3>3. SubSeq(w, 1, k) = SubSeq(w, 1, k - 1) \o <<w[k]>>
      BY <2>3, <3>2, SubSeqRecursiveSecond
    <3> QED
      BY <2>7, <3>1, <3>3
  <2> QED
    BY <1>11, <2>1, <2>2, <2>6, <2>9
<1>15. data'[dir'[Packing]] \o packer'[p].buffer = SubSeq(w, 1, (n + 1) + 1)
  BY <1>1, <1>8, <1>12, <1>13
<1>16. packer[p].dst = dir[Packing]
  BY <1>1 DEF Undisturbed
<1> QED
  BY <1>1, <1>2, <1>8, <1>9, <1>10, <1>11, <1>15, <1>16 DEF Undisturbed

\* The part of a buffer that is written and the one that stays.
LEMMA InTwoParts ==
  ASSUME NEW S, NEW b \in Seq(S), NEW k \in 1..Len(b),
         NEW first, first = SubSeq(b, 1, k), NEW rest, rest = SubSeq(b, k + 1, Len(b))
  PROVE  first \in Seq(S) /\ rest \in Seq(S) /\ first \o rest = b
<1>1. /\ 1 \in 1..(Len(b) + 1) /\ k \in (1 - 1)..Len(b) /\ Len(b) \in k..Len(b)
  OBVIOUS
<1>2. SubSeq(b, 1, k) \o SubSeq(b, k + 1, Len(b)) = SubSeq(b, 1, Len(b))
  BY <1>1, ConcatAdjacentSubSeq
<1>3. SubSeq(b, 1, Len(b)) = b
  BY SubSeqFull
<1>4. SubSeq(b, 0 + 1, k) \in Seq(S) /\ SubSeq(b, k + 1, Len(b)) \in Seq(S)
  <2>1. k \in Nat /\ 0 \in Nat /\ Len(b) \in k..Len(b) /\ k \in 0..Len(b)
    OBVIOUS
  <2> QED
    BY <2>1, TakenFrom
<1>5. 0 + 1 = 1
  OBVIOUS
<1> QED
  BY <1>2, <1>3, <1>4, <1>5

\* What leaves the buffer is behind what has left it before.
LEMMA UndisturbedFlushes ==
  ASSUME PacksInv, NEW p \in Packers, dir[Packing] # NoFile, Undisturbed(p),
         FlushPacking(p)
  PROVE  packer'[p].pc # "failed" /\ packer'[p].pc # "done" /\ Undisturbed(p)'
<1>1. /\ packer[p].pc \in {"writing", "closing"} /\ Active(packer[p])
      /\ source' = source /\ dir' = dir
  BY DEF FlushPacking, Active, Ended
<1>2. PICK cs, h, w, n, b, i :
        /\ cs = PackChunkSize[p] /\ h = packer[p].header /\ n = packer[p].written
        /\ w = ArtifactOf(Secret[p], p, source, cs) /\ b = packer[p].buffer
        /\ i = packer[p].dst
  OBVIOUS
<1>3. /\ Parts(w, Secret[p], p, source, cs, h) /\ n \in Nat /\ h \in Headers
      /\ packer[p] \in PackerRecords
  BY <1>1, <1>2, UndisturbedParts
<1>4. i = dir[Packing] /\ n < Len(w) /\ data[i] \o b = SubSeq(w, 1, n + 1)
  BY <1>1, <1>2 DEF Undisturbed
<1>5. i \in Inodes /\ HoldsArtifact(i) /\ b \in Seq(Frames)
  <2>1. i \in Inodes /\ b \in Seq(Frames)
    BY <1>1, <1>2, <1>3 DEF PacksInv, FilesInv, Types, PackerTyped, PackerRecords
  <2>2. HoldsArtifact(i)
    BY <1>2 DEF HoldsArtifact
  <2> QED
    BY <2>1, <2>2
<1>6. PICK k \in 1..Len(b) :
        /\ packer' = [packer EXCEPT ![p].buffer = SubSeq(b, k + 1, Len(b))]
        /\ data' = [data EXCEPT ![i] =
                      WriteAt(data[i], Flushed(packer[p]), SubSeq(b, 1, k), Damaged)]
  BY <1>2 DEF FlushPacking
<1>7. data[i] \in Seq(Frames) /\ Damaged \in Frames
  BY <1>5 DEF PacksInv, FilesInv, Contents, Frames
<1>8. Flushed(packer[p]) = Len(data[i])
  <2>1. PICK m : m = n + 1 /\ m \in 0..Len(w)
    <3>1. PICK S : w \in Seq(S)
      BY <1>3 DEF Parts
    <3>2. Len(w) \in Nat
      BY <3>1
    <3> QED
      BY <1>3, <1>4, <3>2
  <2>2. Len(SubSeq(w, 1, m)) = m
    BY <1>3, <2>1, Beginnings DEF Parts
  <2>3. Len(data[i] \o b) = Len(data[i]) + Len(b)
    BY <1>5, <1>7, ConcatProperties
  <2>4. Len(data[i]) \in Nat /\ Len(b) \in Nat
    BY <1>5, <1>7
  <2>5. Len(data[i]) + Len(b) = n + 1
    BY <1>4, <2>1, <2>2, <2>3
  <2>6. Flushed(packer[p]) = n + 1 - Len(b)
    BY <1>2 DEF Flushed
  <2> QED
    BY <1>3, <2>4, <2>5, <2>6
<1>9. PICK new, rest : /\ new = WriteAt(data[i], Len(data[i]), SubSeq(b, 1, k), Damaged)
                       /\ rest = SubSeq(b, k + 1, Len(b))
  OBVIOUS
<1>10. new \o rest = data[i] \o b
  <2>1. PICK old, first, m : old = data[i] /\ first = SubSeq(b, 1, k) /\ m = Len(old)
    OBVIOUS
  <2>2. old \in Seq(Frames) /\ m \in Nat
    BY <1>7, <2>1
  <2>3. first \in Seq(Frames) /\ rest \in Seq(Frames)
    BY <1>5, <1>9, <2>1, InTwoParts
  <2>4. first \o rest = b
    BY <1>5, <1>9, <2>1, InTwoParts
  <2>5. m = Len(old) => WriteAt(old, m, first, Damaged) = old \o first
    <3>1. old \in Seq(Frames) /\ m \in Nat /\ first \in Seq(Frames) /\ Damaged \in Frames
      BY <1>7, <2>2, <2>3
    <3> QED
      BY <3>1, Written
  <2>6. new = old \o first
    BY <1>9, <2>1, <2>5
  <2>7. (old \o first) \o rest = old \o (first \o rest)
    BY <2>2, <2>3, ConcatAssociative
  <2> QED
    BY <2>1, <2>4, <2>6, <2>7
<1>11. /\ packer'[p].pc = packer[p].pc /\ packer'[p].header = h /\ packer'[p].written = n
       /\ packer'[p].read = packer[p].read /\ packer'[p].dst = i
       /\ packer'[p].buffer = rest
  BY <1>2, <1>3, <1>6, <1>9 DEF PackerRecords, PacksInv, FilesInv, Types
<1>12. data'[dir'[Packing]] = new
  BY <1>1, <1>4, <1>5, <1>6, <1>8, <1>9 DEF PacksInv, FilesInv, Types
<1>13. data'[dir'[Packing]] \o packer'[p].buffer = SubSeq(w, 1, n + 1)
  BY <1>4, <1>10, <1>11, <1>12
<1>14. /\ h.totalSize = Len(source) /\ Len(packer[p].read) <= Len(source)
       /\ packer[p].read = SubSeq(source, 1, Len(packer[p].read))
       /\ packer[p].pc = "closing" => packer[p].read = source
  BY <1>2 DEF Undisturbed
<1> QED
  BY <1>1, <1>2, <1>4, <1>11, <1>13, <1>14 DEF Undisturbed

\* At the end of the source all of it is read.
LEMMA UndisturbedEnds ==
  ASSUME PacksInv, NEW p \in Packers, dir[Packing] # NoFile, Undisturbed(p), EndOfSource(p)
  PROVE  packer'[p].pc = "closing" /\ Undisturbed(p)'
<1>1. /\ packer[p].pc = "writing" /\ NextPiece(p) = <<>> /\ Active(packer[p])
      /\ source' = source /\ dir' = dir /\ data' = data
      /\ packer' = [packer EXCEPT ![p].pc = "closing"]
  BY DEF EndOfSource, Active, Ended
<1>2. PICK h, n, cs, w, read :
        /\ h = packer[p].header /\ n = packer[p].written /\ cs = PackChunkSize[p]
        /\ w = ArtifactOf(Secret[p], p, source, cs) /\ read = packer[p].read
  OBVIOUS
<1>3. n = h.totalChunks
  BY <1>1, <1>2, NextIsChunk
<1>4. source \in Seq(Bytes) /\ h.totalSize = Len(source)
  BY <1>1, <1>2, UndisturbedParts DEF Parts
<1>5. Len(read) = Len(source)
  <2>1. Len(read) = BytesIn(h, n)
    BY <1>1, <1>2, ReadSoFar
  <2> QED
    BY <1>3, <1>4, <2>1 DEF BytesIn
<1>6. read = source
  <2>1. read = SubSeq(source, 1, Len(read))
    BY <1>2 DEF Undisturbed
  <2> QED
    BY <1>4, <1>5, <2>1, SubSeqFull
<1>7. /\ packer'[p].pc = "closing" /\ packer'[p].header = packer[p].header
      /\ packer'[p].written = packer[p].written /\ packer'[p].read = packer[p].read
      /\ packer'[p].buffer = packer[p].buffer /\ packer'[p].dst = packer[p].dst
  BY <1>1 DEF PacksInv, FilesInv, Types, PackerTyped, PackerRecords
<1> QED
  BY <1>1, <1>2, <1>6, <1>7 DEF Undisturbed

\* When all is written, all the chunks are.
LEMMA UndisturbedCloses ==
  ASSUME PacksInv, NEW p \in Packers, dir[Packing] # NoFile, Undisturbed(p), ClosePacking(p)
  PROVE  packer'[p].pc = "replacing" /\ Undisturbed(p)'
<1>1. /\ packer[p].pc = "closing" /\ Active(packer[p]) /\ source' = source
  BY DEF ClosePacking, Active, Ended
<1>2. PICK h, n, cs, w, size, t :
        /\ h = packer[p].header /\ n = packer[p].written /\ cs = PackChunkSize[p]
        /\ w = ArtifactOf(Secret[p], p, source, cs)
        /\ size = Len(source) /\ t = h.totalChunks
  OBVIOUS
<1>3. /\ n \in Nat /\ cs \in Nat \ {0} /\ size \in Nat
      /\ Parts(w, Secret[p], p, source, cs, h)
  BY <1>1, <1>2, UndisturbedParts
<1>4. t = ChunkCount(size, cs) /\ h.totalSize = size /\ h.chunkSize = cs /\ t \in Nat
  BY <1>2, <1>3 DEF Parts
<1>5. n <= t /\ BytesIn(h, n) = size
  <2>1. n <= h.totalChunks /\ Len(packer[p].read) = BytesIn(h, n)
    BY <1>1, <1>2, ReadSoFar
  <2>2. packer[p].read = source
    BY <1>1 DEF Undisturbed
  <2> QED
    BY <1>2, <2>1, <2>2
<1>6. n = t
  <2>1. ASSUME n # t PROVE FALSE
    <3>1. n < t
      BY <1>3, <1>4, <1>5, <2>1
    <3>2. n * cs < size
      BY <1>3, <1>4, <3>1, CountOfChunks
    <3>3. BytesIn(h, n) = n * cs
      BY <1>2, <1>4, <2>1 DEF BytesIn
    <3>4. PICK m : m = n * cs
      OBVIOUS
    <3>5. m = size /\ m < size
      BY <1>5, <3>2, <3>3, <3>4
    <3> QED
      BY <1>3, <3>5
  <2> QED
    BY <2>1
<1>7. CountMatches(p)
  BY <1>2, <1>6 DEF CountMatches
<1>8. packer' = [packer EXCEPT ![p].pc = "replacing", ![p].dst = NoFile] /\ dir' = dir
  BY <1>7 DEF ClosePacking
<1>9. /\ packer'[p].pc = "replacing" /\ packer'[p].header = packer[p].header
      /\ packer'[p].written = packer[p].written /\ packer'[p].read = packer[p].read
      /\ packer'[p].buffer = packer[p].buffer
  BY <1>8 DEF PacksInv, FilesInv, Types, PackerTyped, PackerRecords
<1>10. data'[dir'[Packing]] = data[dir[Packing]]
  <2>1. dir'[Packing] \in Inodes
    BY <1>8, PackersNames DEF PacksInv, FilesInv, Types, Files
  <2>2. PICK r : PlainPack(p, r)
    BY PackerPlain DEF PacksInv, FilesInv
  <2>3. ArtifactsStay
    BY <2>2, PlainPackStays DEF PacksInv
  <2> QED
    BY <1>8, <2>1, <2>3, PackingStays DEF PacksInv
<1> QED
  BY <1>1, <1>9, <1>10 DEF Undisturbed

\* What is put in place is the artifact of the source.
LEMMA UndisturbedReplaces ==
  ASSUME PacksInv, NEW p \in Packers, dir[Packing] # NoFile, Undisturbed(p),
         ReplaceArtifact(p)
  PROVE  /\ packer'[p].pc = "done"
         /\ data'[dir'[Artifact]] = ArtifactOf(Secret[p], p, source, PackChunkSize[p])
<1>1. packer[p].pc = "replacing" /\ Active(packer[p])
  BY DEF ReplaceArtifact, Active, Ended
<1>2. PICK cs, h, w, n, i :
        /\ cs = PackChunkSize[p] /\ h = packer[p].header /\ n = packer[p].written
        /\ w = ArtifactOf(Secret[p], p, source, cs) /\ i = dir[Packing]
  OBVIOUS
<1>3. Parts(w, Secret[p], p, source, cs, h)
  BY <1>1, <1>2, UndisturbedParts
<1>4. n = h.totalChunks /\ packer[p].buffer = <<>>
  BY <1>1, <1>2 DEF PacksInv, HeadersOwn
<1>5. n + 1 = Len(w)
  BY <1>3, <1>4 DEF Parts
<1>11. i \in Inodes
  BY <1>2, PackersNames DEF PacksInv, FilesInv, Types, Files
<1>6. data[i] = w
  <2>1. PICK S : w \in Seq(S)
    BY <1>3 DEF Parts
  <2>2. SubSeq(w, 1, Len(w)) = w
    BY <2>1, SubSeqFull
  <2>3. data[i] \o <<>> = w
    BY <1>1, <1>2, <1>4, <1>5, <2>2 DEF Undisturbed
  <2>4. HoldsArtifact(i)
    BY <1>2, NamesOfKinds DEF HoldsArtifact
  <2>5. data[i] \in Seq(Frames)
    BY <1>11, <2>4 DEF PacksInv, FilesInv, Contents
  <2> QED
    BY <2>3, <2>5, ConcatEmptySeq
<1>7. PackStops(p, "done") /\ dir' = Renamed(Packing, Artifact)
  BY DEF ReplaceArtifact
<1>8. packer'[p].pc = "done"
  BY <1>7 DEF PackStops, NotPacking, PacksInv, FilesInv, Types
<1>9. dir'[Artifact] = i /\ dir'[Artifact] \in Inodes
  BY <1>2, <1>7, <1>11, PackersNames DEF Renamed, PacksInv, FilesInv, Types
<1>10. data'[dir'[Artifact]] = data[i]
  <2>1. PICK r : PlainPack(p, r)
    BY PackerPlain DEF PacksInv, FilesInv
  <2>2. ArtifactsStay
    BY <2>1, PlainPackStays DEF PacksInv
  <2> QED
    BY <1>9, <2>2, PackingStays DEF PacksInv
<1> QED
  BY <1>2, <1>6, <1>8, <1>10

\* UndisturbedPackSucceeds: pack_file() puts exactly the artifact of its source in
\* place when nobody changes the source or the temporary file, for any source, any
\* chunk size, however its writes are buffered and whatever else the other calls
\* do (packer.py, _write_artifact).
THEOREM UndisturbedSucceeds == Spec => UndisturbedPackSucceeds
<1> DEFINE Step == \A p \in Packers :
       (/\ Active(packer[p]) /\ (packer[p].pc # "opening" => dir[Packing] # NoFile)
        /\ Undisturbed(p)
        /\ PackStep(p)) =>
         IF packer'[p].pc = "done"
         THEN data'[dir'[Artifact]] =
                ArtifactOf(Secret[p], p, source, PackChunkSize[p])
         ELSE packer'[p].pc # "failed" /\ Undisturbed(p)'
<1>1. PacksInv /\ [Next]_vars => [Step]_vars
  <2> SUFFICES ASSUME PacksInv, NEW p \in Packers, Active(packer[p]),
                      packer[p].pc # "opening" => dir[Packing] # NoFile,
                      Undisturbed(p), PackStep(p)
               PROVE  IF packer'[p].pc = "done"
                      THEN data'[dir'[Artifact]] =
                             ArtifactOf(Secret[p], p, source, PackChunkSize[p])
                      ELSE packer'[p].pc # "failed" /\ Undisturbed(p)'
    BY DEF Step
  <2>1. CASE BeginPack(p)
    BY <2>1 DEF BeginPack, Active, Ended
  <2>2. CASE OpenPacking(p)
    BY <2>2, UndisturbedOpens
  <2>3. CASE PackChunk(p)
    <3>1. dir[Packing] # NoFile
      BY <2>3 DEF PackChunk
    <3> QED
      BY <2>3, <3>1, UndisturbedWrites
  <2>4. CASE FlushPacking(p)
    <3>1. dir[Packing] # NoFile
      BY <2>4 DEF FlushPacking
    <3> QED
      BY <2>4, <3>1, UndisturbedFlushes
  <2>5. CASE EndOfSource(p)
    <3>1. dir[Packing] # NoFile
      BY <2>5 DEF EndOfSource
    <3> QED
      BY <2>5, <3>1, UndisturbedEnds
  <2>6. CASE ClosePacking(p)
    <3>1. dir[Packing] # NoFile
      BY <2>6 DEF ClosePacking
    <3> QED
      BY <2>6, <3>1, UndisturbedCloses
  <2>7. CASE ReplaceArtifact(p)
    <3>1. dir[Packing] # NoFile
      BY <2>7 DEF ReplaceArtifact
    <3> QED
      BY <2>7, <3>1, UndisturbedReplaces
  <2> QED
    BY <2>1, <2>2, <2>3, <2>4, <2>5, <2>6, <2>7 DEF PackStep
<1> HIDE DEF Step
<1>2. Spec => [][Step]_vars
  BY <1>1, PacksInit, PacksStep, PTL DEF Spec
<1> QED
  BY <1>2 DEF Step, UndisturbedPackSucceeds
=============================================================================
