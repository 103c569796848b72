-------------------------------- MODULE Chunks --------------------------------
(***************************************************************************)
(* The arithmetic of ReadFileChunks, ReadChunk and ReadChunkFile           *)
(* (internal/fileManager/fileManager.go): where a chunk starts in the      *)
(* shared file and its digest in the chunk file, in signed machine words.  *)
(***************************************************************************)
EXTENDS Integers

CONSTANTS
  WordSize,        \* how many values an int64 has
  ChunkSize,       \* common.ChunkSize
  DigestSize       \* chunkSize of ReadChunkFile: the bytes of a SHA-256 digest

\* In the code 2^64, 2^20 and 32: the smaller ones divide the larger.
ASSUME ChunksAssumption ==
  /\ DigestSize \in Nat \ {0}
  /\ ChunkSize \in Nat \ {0}
  /\ WordSize \in Nat \ {0}
  /\ \E e \in 1..ChunkSize : ChunkSize = e * DigestSize
  /\ \E v \in 1..WordSize : WordSize = v * DigestSize

Smaller(m, n) == IF m < n THEN m ELSE n

\* A product in 64 bits.
Wrapped(n) ==
  LET low == n % WordSize IN
  IF 2 * low < WordSize THEN low ELSE low - WordSize

\* offset := event.index * common.ChunkSize
ChunkOffset(i) == Wrapped(i * ChunkSize)

\* offset := int64(chunkIndex) * chunkSize
DigestOffset(i) == Wrapped(i * DigestSize)

\* How many chunks createChunkFile cuts a file of n bytes into.
ChunkCount(n) == (n + ChunkSize - 1) \div ChunkSize

InFile(offset, size) == 0 <= offset /\ offset < size

ReadSize_Whole(offset, size) == size - offset

\* remainingBytes and readSize
ReadSize(offset, size) == Smaller(size - offset, ChunkSize)

\* io.ReadFull from offset of a file that now has n bytes, into a buffer for
\* `wanted': an end of file is no error, and the buffer is cut to what came.
BytesRead(offset, wanted, n) ==
  IF n <= offset THEN 0 ELSE Smaller(wanted, n - offset)

\* ReadChunkFile succeeds: no seek before the start of the chunk file, and a
\* whole digest from there on.
DigestThere(i, n) ==
  /\ 0 <= DigestOffset(i)
  /\ DigestOffset(i) + DigestSize <= ChunkCount(n) * DigestSize

\* The chunk whose digest that is.
DigestOf(i) == DigestOffset(i) \div DigestSize

=============================================================================
