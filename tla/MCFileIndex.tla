---------------------------- MODULE MCFileIndex ----------------------------
(***************************************************************************)
(* The instance of FileIndex that TLC checks.                              *)
(***************************************************************************)
EXTENDS FileIndex

CONSTANTS h1, h2, p1, p2, w1, w2, w3

MCHash == {h1, h2}
MCPath == {p1, p2}

\* A name such as "Red_Fox", the words of which a keyword repeats.
RedFox == [words |-> <<w1, w2>>, gap |-> "mark", case |-> "mixed"]
Fox    == [words |-> <<w2>>, gap |-> "one", case |-> "upper"]
Hen    == [words |-> <<w3>>, gap |-> "one", case |-> "lower"]

\* The second has the content of the first, the third is the first one edited.
MCShare == {
  [path |-> p1, hash |-> h1, terms |-> <<RedFox, RedFox, Fox>>],
  [path |-> p2, hash |-> h1, terms |-> <<Hen, Hen, Fox>>],
  [path |-> p1, hash |-> h2, terms |-> <<RedFox, RedFox, Hen>>] }

MCQuery == {
  Fox,
  [words |-> <<w3, w1>>, gap |-> "many", case |-> "mixed"] }

\* In a word of 32 values, a chunk has 4 bytes and a digest 2: the offset of
\* chunk 8 wraps to 0, that of its digest to the least integer; both offsets of
\* chunk -16 wrap to 0.
MCIndex == {-16, 1, 8}

=============================================================================
