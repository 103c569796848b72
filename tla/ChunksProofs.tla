---------------------------- MODULE ChunksProofs ----------------------------
(***************************************************************************)
(* Proofs about the arithmetic of module Chunks, for every size of word,   *)
(* chunk and digest of which the smaller divide the larger.                *)
(***************************************************************************)
EXTENDS Chunks, TLAPS

\* What an overflow leaves is the exact value less a multiple of the word.
LEMMA WrappedIsCongruent ==
  ASSUME NEW x \in Int
  PROVE  \E m \in Int : Wrapped(x) = x - m * WordSize
<1> DEFINE q == x \div WordSize
           r == x % WordSize
<1>1. WordSize \in Nat \ {0}
  BY ChunksAssumption DEF ChunksAssumption
<1>2. q \in Int /\ r \in Int /\ x = (q * WordSize) + r
  BY <1>1
<1>3. Wrapped(x) = r \/ Wrapped(x) = r - WordSize
  BY DEF Wrapped
<1> HIDE DEF q, r
<1>4. CASE Wrapped(x) = r
  <2>1. Wrapped(x) = x - q * WordSize
    BY <1>1, <1>2, <1>4
  <2>2. QED
    BY <1>2, <2>1
<1>5. CASE Wrapped(x) = r - WordSize
  <2>1. (q + 1) * WordSize = (q * WordSize) + WordSize
    BY <1>1, <1>2
  <2>2. Wrapped(x) = x - (q + 1) * WordSize
    BY <1>1, <1>2, <1>5, <2>1
  <2>3. q + 1 \in Int
    BY <1>2
  <2>4. QED
    BY <2>2, <2>3
<1>6. QED
  BY <1>3, <1>4, <1>5

LEMMA OffsetsAreIntegers ==
  ASSUME NEW i \in Int
  PROVE  /\ ChunkOffset(i) \in Int
         /\ DigestOffset(i) \in Int
         /\ DigestOf(i) \in Int
<1>1. ChunkSize \in Int /\ DigestSize \in Int \ {0} /\ DigestSize > 0
      /\ WordSize \in Int
  BY ChunksAssumption DEF ChunksAssumption
<1>2. PICK m \in Int : Wrapped(i * ChunkSize) = i * ChunkSize - m * WordSize
  <2>1. i * ChunkSize \in Int
    BY <1>1
  <2>2. QED
    BY <2>1, WrappedIsCongruent
<1>3. PICK n \in Int : Wrapped(i * DigestSize) = i * DigestSize - n * WordSize
  <2>1. i * DigestSize \in Int
    BY <1>1
  <2>2. QED
    BY <2>1, WrappedIsCongruent
<1>4. ChunkOffset(i) \in Int /\ DigestOffset(i) \in Int
  BY <1>1, <1>2, <1>3 DEF ChunkOffset, DigestOffset
<1>5. QED
  BY <1>1, <1>4 DEF DigestOf

\* A multiple of the word that is smaller than the word is nothing.
LEMMA SmallMultiple ==
  ASSUME NEW w \in Nat \ {0}, NEW m \in Int, - w < m * w, m * w < w
  PROVE  m * w = 0
<1>1. CASE m >= 1
  <2>1. m * w >= w
    BY <1>1
  <2>2. QED
    BY <2>1
<1>2. CASE m <= - 1
  <2>1. m * w <= - w
    BY <1>2
  <2>2. QED
    BY <2>1
<1>3. QED
  BY <1>1, <1>2

\* ReadFileChunks and ReadChunkFile wrap two products of one index, each in its
\* own way.  Whenever both accept what comes out, they read the same chunk: the
\* bytes of chunk k of the file and the digest of chunk k.
THEOREM SameChunk ==
  ASSUME NEW i \in Int, NEW n \in Nat, 2 * n < WordSize,
         InFile(ChunkOffset(i), n), DigestThere(i, n)
  PROVE  ChunkOffset(i) = DigestOf(i) * ChunkSize
<1> DEFINE C == ChunkSize
           D == DigestSize
           W == WordSize
           o == ChunkOffset(i)
           k == DigestOf(i)
<1>1. C \in Nat \ {0} /\ D \in Nat \ {0} /\ W \in Nat \ {0}
  BY ChunksAssumption DEF ChunksAssumption
<1>2. PICK e \in Nat : C = e * D
  BY ChunksAssumption DEF ChunksAssumption
<1>3. PICK v \in Nat : W = v * D
  BY ChunksAssumption DEF ChunksAssumption
<1>4. PICK m1 \in Int : o = i * C - m1 * W
  <2>1. i * C \in Int
    BY <1>1
  <2>2. \E m \in Int : Wrapped(i * C) = i * C - m * W
    BY <2>1, WrappedIsCongruent
  <2>3. QED
    BY <2>2 DEF ChunkOffset
<1>5. PICK m2 \in Int : DigestOffset(i) = i * D - m2 * W
  <2>1. i * D \in Int
    BY <1>1
  <2>2. \E m \in Int : Wrapped(i * D) = i * D - m * W
    BY <2>1, WrappedIsCongruent
  <2>3. QED
    BY <2>2 DEF DigestOffset
<1> HIDE DEF C, D, W, o, k
<1>6. k = i - m2 * v
  <2> DEFINE j == i - m2 * v
  <2>1. j \in Int
    OBVIOUS
  <2>2. m2 * W = (m2 * v) * D
    BY <1>1, <1>3
  <2>3. DigestOffset(i) = j * D
    BY <1>1, <1>5, <2>2
  <2> HIDE DEF j
  <2>4. (j * D) \div D = j
    BY <1>1, <2>1
  <2>5. QED
    BY <2>3, <2>4 DEF k, DigestOf, D, j
<1>7. k * C - o = (m1 - m2 * e) * W
  <2>1. k * C = i * C - (m2 * v) * C
    BY <1>1, <1>6
  <2>2. (m2 * v) * C = (m2 * e) * W
    <3>1. (m2 * v) * (e * D) = (m2 * e) * (v * D)
      BY <1>1
    <3>2. QED
      BY <1>2, <1>3, <3>1
  <2>3. (m1 - m2 * e) * W = m1 * W - (m2 * e) * W
    BY <1>1
  <2>4. QED
    BY <1>1, <1>4, <2>1, <2>2, <2>3
<1>8. 0 <= o /\ o < n /\ o \in Int
  BY OffsetsAreIntegers DEF InFile, o
<1>9. k \in Int /\ 0 <= k /\ k < ChunkCount(n) /\ ChunkCount(n) \in Int
  <2>1. k \in Int
    BY OffsetsAreIntegers DEF k
  <2>2. ChunkCount(n) \in Int
    BY <1>1 DEF ChunkCount, C
  <2>3. DigestOffset(i) = k * D
    BY <1>1, <1>3, <1>5, <1>6
  <2>4. 0 <= k * D /\ k * D + D <= ChunkCount(n) * D
    BY <2>3 DEF DigestThere, D
  <2>5. 0 <= k
    BY <1>1, <2>1, <2>4
  <2>6. k < ChunkCount(n)
    BY <1>1, <2>1, <2>2, <2>4
  <2>7. QED
    BY <2>1, <2>2, <2>5, <2>6
<1>10. 0 <= k * C /\ k * C < n
  <2>1. ChunkCount(n) * C <= n + C - 1
    BY <1>1 DEF ChunkCount, C
  <2>2. (k + 1) * C <= ChunkCount(n) * C
    BY <1>1, <1>9
  <2>3. (k + 1) * C = k * C + C /\ k * C \in Int /\ 0 <= k * C
    BY <1>1, <1>9
  <2>4. ChunkCount(n) * C \in Int
    BY <1>1, <1>9
  <2>5. QED
    BY <1>1, <2>1, <2>2, <2>3, <2>4
<1>11. (m1 - m2 * e) * W = 0
  <2>1. k * C \in Int /\ n < W
    BY <1>1, <1>9 DEF W
  <2>2. - W < (m1 - m2 * e) * W /\ (m1 - m2 * e) * W < W
    BY <1>1, <1>7, <1>8, <1>10, <2>1
  <2>3. m1 - m2 * e \in Int
    OBVIOUS
  <2>4. QED
    BY <1>1, <2>2, <2>3, SmallMultiple
<1>12. k * C \in Int
  BY <1>1, <1>9
<1>13. QED
  BY <1>7, <1>8, <1>11, <1>12 DEF k, o, C

=============================================================================
