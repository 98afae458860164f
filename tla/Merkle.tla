------------------------------- MODULE Merkle -------------------------------
(* MerkleTree (src/src/core/merkle.rs).  A hash is the record of what it is  *)
(* taken of: SHA-256 is assumed to have no collisions, between the contents  *)
(* of a piece and a pair of hashes neither.                                  *)
EXTENDS Integers, Sequences, SequencesExt

LeafHash(data) == [data |-> data]
HashPair(left, right) == [left |-> left, right |-> right]

\* next_power_of_two, and the number of levels above the leaves.
Powers(n) ==
    LET power[k \in 0 .. n] == IF k = 0 THEN 1 ELSE 2 * power[k - 1]
    IN  power
Depth(count) ==
    CHOOSE d \in 0 .. count : /\ Powers(count)[d] >= count
                              /\ \A e \in 0 .. d - 1 : Powers(count)[e] < count
LeafCount(count) == Powers(count)[Depth(count)]

\* from_leaves: the nodes in heap order, the root first; what the last row has
\* too many repeats the last leaf.
Tree(leaves) ==
    LET width == LeafCount(Len(leaves))
        nodes[i \in 1 .. 2 * width - 1] ==
            IF i < width THEN HashPair(nodes[2 * i], nodes[2 * i + 1])
            ELSE IF i - width < Len(leaves) THEN leaves[i - width + 1]
            ELSE leaves[Len(leaves)]
    IN  nodes

Root(leaves) == Tree(leaves)[1]

\* The nodes proof() passes from leaf index up to the root, and their siblings.
Path(leaves, index) ==
    LET node[k \in 0 .. Depth(Len(leaves))] ==
            IF k = 0 THEN LeafCount(Len(leaves)) + index ELSE node[k - 1] \div 2
    IN  node

Proof(leaves, index) ==
    [level \in 1 .. Depth(Len(leaves)) |->
        LET i == Path(leaves, index)[level - 1]
        IN  [left |-> i % 2 # 0, hash |-> Tree(leaves)[IF i % 2 = 0 THEN i + 1 ELSE i - 1]]]

\* verify: from the leaf up. The index a proof is for plays no part in it.
Climb(leaf, siblings) ==
    LET current[k \in 0 .. Len(siblings)] ==
            IF k = 0 THEN leaf
            ELSE IF siblings[k].left THEN HashPair(siblings[k].hash, current[k - 1])
            ELSE HashPair(current[k - 1], siblings[k].hash)
    IN  current[Len(siblings)]

Verify(root, leaf, siblings) == Climb(leaf, siblings) = root
=============================================================================
