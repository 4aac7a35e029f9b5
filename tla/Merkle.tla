------------------------------- MODULE Merkle -------------------------------
(***************************************************************************)
(* The transaction tree of a block: merkleTree/merkleTree.go, and how      *)
(* fetchWork uses it.  Rows are sequences, as in the code; JoinAndHash is a *)
(* free constructor, so two hashes are equal only if everything below them *)
(* is.                                                                     *)
(***************************************************************************)
EXTENDS Bits, Sequences

JoinAndHash(a, b) == [left |-> a, right |-> b]

\* Mutant of makeRowAbove: the last child of an odd row moves up as it is.
PromoteLast(below) ==
    [i \in 1 .. (Len(below) + 1) \div 2 |->
        IF 2 * i <= Len(below) THEN JoinAndHash(below[2 * i - 1], below[2 * i])
        ELSE below[2 * i - 1]]

\* The row above has half as many nodes, rounded up; the last node of an odd
\* row is hashed with itself.
makeRowAbove(below) ==
    [i \in 1 .. (Len(below) + 1) \div 2 |->
        LET leftChild == below[2 * i - 1] IN
        JoinAndHash(leftChild, IF 2 * i <= Len(below) THEN below[2 * i] ELSE leftChild)]

\* The rows the loop makes, the leaves as row 0.
RowsAbove(bottomRow) ==
    LET row[k \in 0 .. Len(bottomRow)] ==
            IF k = 0 THEN bottomRow ELSE makeRowAbove(row[k - 1])
    IN row

\* The loop ends with the first row above the leaves that has one node.
isComplete(row, k) == Len(row[k]) = 1 /\ \A e \in 1 .. k - 1 : Len(row[e]) # 1

NewMerkleTree(bottomRow) ==
    LET row == RowsAbove(bottomRow)
        top == CHOOSE k \in 1 .. Len(bottomRow) : isComplete(row, k)
    IN [k \in 1 .. top + 1 |-> row[k - 1]]

MerkleRoot(tree) == tree[Len(tree)][1]

\* The neighbour of element i of a row, and whether it comes first.  Elements
\* are numbered from 1.
evaluateSibling(row, i) ==
    CASE i % 2 = 0 -> [index |-> i - 1, first |-> TRUE]
      [] i % 2 = 1 /\ i < Len(row) -> [index |-> i + 1, first |-> FALSE]
      [] OTHER -> [index |-> i, first |-> TRUE]

\* The elements the path goes through, row by row: i / 2 if i is from 0.
Above(i) == (i - 1) \div 2 + 1
Ancestors(tree, leaf) ==
    LET at[k \in 0 .. Len(tree)] == IF k = 0 THEN leaf ELSE Above(at[k - 1]) IN at

MerklePathForLeaf(tree, leaf) ==
    [k \in 1 .. Len(tree) - 1 |->
        LET sibling == evaluateSibling(tree[k], Ancestors(tree, leaf)[k - 1])
        IN [hash |-> tree[k][sibling.index], first |-> sibling.first]]

JoinElement(element, hash) ==
    IF element.first THEN JoinAndHash(element.hash, hash) ELSE JoinAndHash(hash, element.hash)

CumulativeHashes(leaf, path) ==
    LET hash[k \in 0 .. Len(path)] == IF k = 0 THEN leaf ELSE JoinElement(path[k], hash[k - 1])
    IN hash

CalculateMerkleRootFromMerklePath(leaf, path) == CumulativeHashes(leaf, path)[Len(path)]

\* fetchWork: the coinbase is the first leaf; alone, it is the root.
BlockRoot(coinbase, txs) ==
    IF txs = <<>> THEN coinbase ELSE MerkleRoot(NewMerkleTree(<<coinbase>> \o txs))

-----------------------------------------------------------------------------
(***************************************************************************)
(* What the root of a block is: a node of height d stands for 2^d leaves,  *)
(* of which the last may be missing; a right half that is missing as a     *)
(* whole is a copy of the left.                                            *)
(***************************************************************************)
Present(leaves, d, i) == i * TwoTo[d] < Len(leaves)
NodesAbove(leaves, d, below) ==
    [i \in {j \in 0 .. Len(leaves) - 1 : Present(leaves, d, j)} |->
        LET left == below[2 * i] IN
        JoinAndHash(left, IF Present(leaves, d - 1, 2 * i + 1) THEN below[2 * i + 1] ELSE left)]
Nodes(leaves) ==
    LET node[d \in 0 .. Len(leaves)] ==
            IF d = 0 THEN [i \in 0 .. Len(leaves) - 1 |-> leaves[i + 1]]
            ELSE NodesAbove(leaves, d, node[d - 1])
    IN node

\* The root is the lowest node that stands for all leaves.
Depth(n) == CHOOSE d \in 0 .. n : TwoTo[d] >= n /\ \A e \in 0 .. d - 1 : TwoTo[e] < n
TrueRoot(leaves) == Nodes(leaves)[Depth(Len(leaves))][0]

\* For any number of transactions the root put into the header is the root
\* that the other nodes compute from the block (fetchWork, NewMerkleTree).
RootIsTrue(coinbase, txs) == BlockRoot(coinbase, txs) = TrueRoot(<<coinbase>> \o txs)

\* The path of every leaf leads to the root (MerklePathForLeaf,
\* CalculateMerkleRootFromMerklePath).
PathsLeadToRoot(leaves) ==
    LET tree == NewMerkleTree(leaves) IN
    \A i \in 1 .. Len(leaves) :
        CalculateMerkleRootFromMerklePath(leaves[i], MerklePathForLeaf(tree, i)) = MerkleRoot(tree)
=============================================================================
