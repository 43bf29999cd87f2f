---------------------------- MODULE ArtifactFormat ----------------------------
(***************************************************************************)
(* The .sipft artifact (filetransfer/format.py): a sealed header followed   *)
(* by one sealed frame per chunk.  A frame is a record of what it was      *)
(* sealed with; it opens exactly under the same key and associated data.   *)
(* The tag names the seal: a random file_id is drawn for each artifact and  *)
(* each of its frames is sealed once, so <<fileId, index>> is unique.       *)
(***************************************************************************)
EXTENDS Integers, Sequences

CONSTANTS
  MinChunkSize, MaxChunkSize,   \* MIN_CHUNK_SIZE, MAX_CHUNK_SIZE
  MaxTotalChunks,               \* MAX_TOTAL_CHUNKS
  MaxFileSize                   \* MAX_FILE_SIZE

ASSUME LimitsOK ==
  /\ MinChunkSize \in Nat \ {0} /\ MaxChunkSize \in Nat
  /\ MaxTotalChunks \in Nat /\ MaxFileSize \in Nat

\* Mutant of ChunkCount: a full last chunk is counted twice.
ChunkCount_OneMore(size, chunkSize) == size \div chunkSize + 1

\* ceil(total_size / chunk_size), as the packer and the validation compute it.
ChunkCount(size, chunkSize) ==
  IF size = 0 THEN 0 ELSE (size + chunkSize - 1) \div chunkSize

Header(fileId, size, chunkSize) ==
  [fileId |-> fileId, totalSize |-> size, chunkSize |-> chunkSize,
   totalChunks |-> ChunkCount(size, chunkSize)]

\* validate_chunk_size()
ChunkSizeValid(size) == size \in MinChunkSize..MaxChunkSize

\* _validate_header()
HeaderValid(h) ==
  /\ h.totalSize >= 0
  /\ h.totalChunks \in 0..MaxTotalChunks
  /\ ChunkSizeValid(h.chunkSize)
  /\ h.totalChunks = ChunkCount(h.totalSize, h.chunkSize)

\* Mutant of ExpectedChunkLength: the last chunk is always the remainder.
ExpectedChunkLength_Remainder(h, index) ==
  IF index < h.totalChunks - 1 THEN h.chunkSize ELSE h.totalSize % h.chunkSize

\* expected_chunk_length(), for index from 0
ExpectedChunkLength(h, index) ==
  IF index < h.totalSize \div h.chunkSize THEN h.chunkSize
                                          ELSE h.totalSize % h.chunkSize

\* derive_header_key(), derive_chunk_key(): a secret is the master key and the
\* suite the two ends agreed on out of band.
HeaderKey(secret) == <<secret, "SIP-FileTransfer", "header">>
ChunkKey(secret, fileId, index) == <<secret, fileId, index>>

\* header_aad(), chunk_aad()
HeaderAad == <<"SIPFT1.0">>
ChunkAad(fileId, index, prevTag) == <<"SIPFT1.0", fileId, index, prevTag>>

\* The tag of the header, and of a chunk.
HeaderTag(fileId) == <<fileId, -1>>
ChunkTag(fileId, index) == <<fileId, index>>

\* write_frame() of a freshly sealed plaintext.  A piece that is no frame any
\* more (altered bits, a gap in a file) is Damaged.
Frame(key, aad, plain, tag) ==
  [key |-> key, aad |-> aad, plain |-> plain, tag |-> tag]
Damaged == Frame(<<>>, <<>>, <<>>, <<>>)

HeaderFrame(secret, h) ==
  Frame(HeaderKey(secret), HeaderAad, <<h>>, HeaderTag(h.fileId))
ChunkFrame(secret, h, index, prevTag, plain) ==
  Frame(ChunkKey(secret, h.fileId, index), ChunkAad(h.fileId, index, prevTag),
        plain, ChunkTag(h.fileId, index))

\* The AEAD authenticates, and for the header read_prefix() and
\* from_json_bytes() accept.
Opens(frame, key, aad) == frame.key = key /\ frame.aad = aad
HeaderOpens(artifact, secret) ==
  /\ artifact # <<>>
  /\ Opens(artifact[1], HeaderKey(secret), HeaderAad)
  /\ HeaderValid(artifact[1].plain[1])

\* Mutant of ChunkOpens: one key and no index for all chunks of an artifact.
ChunkOpens_AnyIndex(artifact, secret, h, index, prevTag) ==
  /\ Len(artifact) >= index + 2
  /\ LET frame == artifact[index + 2]
     IN  /\ frame.key # <<>> /\ frame.key[1] = secret /\ frame.key[2] = h.fileId
         /\ Len(frame.plain) = ExpectedChunkLength(h, index)

\* read_frame() and the decryption of chunk index: read_frame takes the length
\* the header implies, so a frame of another length is cut in the wrong place.
ChunkOpens(artifact, secret, h, index, prevTag) ==
  /\ Len(artifact) >= index + 2
  /\ LET frame == artifact[index + 2]
     IN  /\ Opens(frame, ChunkKey(secret, h.fileId, index),
                  ChunkAad(h.fileId, index, prevTag))
         /\ Len(frame.plain) = ExpectedChunkLength(h, index)

-----------------------------------------------------------------------------
(* Reference definition: the artifact of a content, as a whole *)

\* Chunk index (from 0) of a content.
Chunk(content, chunkSize, index) ==
  SubSeq(content, index * chunkSize + 1,
         IF (index + 1) * chunkSize <= Len(content)
         THEN (index + 1) * chunkSize ELSE Len(content))

ArtifactOf(secret, fileId, content, chunkSize) ==
  LET h == [fileId |-> fileId, totalSize |-> Len(content),
            chunkSize |-> chunkSize,
            totalChunks |-> (Len(content) + chunkSize - 1) \div chunkSize]
  IN  [k \in 1..(h.totalChunks + 1) |->
         IF k = 1 THEN HeaderFrame(secret, h)
         ELSE ChunkFrame(secret, h, k - 2,
                         IF k = 2 THEN HeaderTag(fileId)
                                  ELSE ChunkTag(fileId, k - 3),
                         Chunk(content, chunkSize, k - 2))]
=============================================================================
