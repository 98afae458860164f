------------------------------ MODULE Storage ------------------------------
(* A file and its pieces: Chunker (src/src/core/chunker.rs), TorrentInfo and *)
(* PieceStore (src/src/storage/store.rs).  A file is the sequence of its     *)
(* bytes.                                                                    *)
EXTENDS Merkle

CONSTANT PieceSize      \* 256 KiB

DivCeil(n, d) == (n + d - 1) \div d
Smaller(m, n) == IF m < n THEN m ELSE n

\* chunk: the pieces, the last one perhaps shorter.
Chunks(file) ==
    [k \in 1 .. DivCeil(Len(file), PieceSize) |->
        SubSeq(file, (k - 1) * PieceSize + 1, Smaller(k * PieceSize, Len(file)))]

\* TorrentInfo::from_file
PieceCount(file) == Len(Chunks(file))
Leaves(file) == [k \in DOMAIN Chunks(file) |-> LeafHash(Chunks(file)[k])]
InfoHash(file) == Root(Leaves(file))

\* bitfield_bytes as bits: one for each piece, filled up to whole bytes.
Bitfield(file) == [k \in 1 .. 8 * DivCeil(PieceCount(file), 8) |-> k <= PieceCount(file)]

\* count_ones over a received bitfield.
CountOnes(bits) == Cardinality({k \in DOMAIN bits : bits[k]})

\* read_piece; nothing beyond the end.
ReadPiece(file, index) ==
    IF index * PieceSize >= Len(file) THEN <<>>
    ELSE SubSeq(file, index * PieceSize + 1, Smaller((index + 1) * PieceSize, Len(file)))
=============================================================================
