------------------------------ MODULE NoteTree ------------------------------
(***************************************************************************)
(* The tree of notes.  The contract (tree_insert) keeps only the last      *)
(* complete subtree of each level and the current root.  A client replays  *)
(* the contract's events into a full copy (packages/sdk/src/noteTree.ts    *)
(* and, line for line, tools/indexer/src/lib.rs), from which it reads the  *)
(* membership path that a circuit folds back into a root.                  *)
(*                                                                         *)
(* Clients lag behind, and a proof takes minutes: by the time it is        *)
(* submitted the tree has grown.  The contract therefore accepts every     *)
(* root that it ever had.                                                  *)
(*                                                                         *)
(* compress is a free constructor: two nodes are equal only if they were   *)
(* built in the same way, which is what a collision-resistant hash gives.  *)
(***************************************************************************)
EXTENDS Integers, Sequences

CONSTANTS
  Leaf,         \* values of a leaf
  TREE_DEPTH,
  MaxWitnesses  \* bound on the proofs in flight

ASSUME TreeAssumption == TREE_DEPTH \in Nat \ {0} /\ MaxWitnesses \in Nat

VARIABLES
  leaves,     \* history: every leaf inserted; what the events announce
  filled,     \* DataKey::TreeFilled
  next,       \* DataKey::TreeNext
  root,       \* DataKey::TreeRoot
  roots,      \* DataKey::Root
  replayed,   \* how many leaves the client has replayed
  witnesses   \* leaves and paths of the proofs being made

treeVars == <<leaves, filled, next, root, roots, replayed, witnesses>>
-----------------------------------------------------------------------------
Level == 0..(TREE_DEPTH - 1)

Zero == <<"zero">>
LeafNode(l) == <<"leaf", l>>
Compress(left, right) == <<"node", left, right>>

\* The hash of an empty subtree of each level.
Zeros[i \in 0..TREE_DEPTH] ==
  IF i = 0 THEN Zero ELSE Compress(Zeros[i - 1], Zeros[i - 1])

\* An index shifted right by 0 to TREE_DEPTH places, and its bit i.
Shifted(n) ==
  LET idx[i \in 0..TREE_DEPTH] == IF i = 0 THEN n ELSE idx[i - 1] \div 2
  IN  idx
Bit(n, i) == Shifted(n)[i] % 2

\* Variant: the two children are exchanged on the right-hand side.
Ancestors_Exchanged(leaf, index, subtrees) ==
  LET cur[i \in 0..TREE_DEPTH] ==
        IF i = 0 THEN leaf
        ELSE IF Bit(index, i - 1) = 0 THEN Compress(cur[i - 1], Zeros[i - 1])
        ELSE Compress(cur[i - 1], subtrees[i - 1])
  IN  cur

\* The value of cur in tree_insert's loop at each level, for a leaf that goes
\* to the given index of a tree with these filled subtrees.
Ancestors(leaf, index, subtrees) ==
  LET cur[i \in 0..TREE_DEPTH] ==
        IF i = 0 THEN leaf
        ELSE IF Bit(index, i - 1) = 0 THEN Compress(cur[i - 1], Zeros[i - 1])
        ELSE Compress(subtrees[i - 1], cur[i - 1])
  IN  cur

\* Variant: only the newest root is accepted.
Accept_NewestOnly(old, new) == {new}

\* Every root the tree ever had stays accepted.
Accept(old, new) == old \cup {new}

\* TreeNext is a u32 and the tree has 2^32 places: the insertion that would
\* take the last one traps, because TreeNext, of TREE_DEPTH bits, cannot be
\* incremented past it.
TreeInsert(l) ==
  LET cur == Ancestors(LeafNode(l), next, filled)
  IN  /\ Shifted(next + 1)[TREE_DEPTH] = 0
      /\ filled' = [i \in Level |-> IF Bit(next, i) = 0 THEN cur[i] ELSE filled[i]]
      /\ next' = next + 1
      /\ root' = cur[TREE_DEPTH]
      /\ roots' = Accept(roots, cur[TREE_DEPTH])
      /\ leaves' = Append(leaves, l)
      /\ UNCHANGED <<replayed, witnesses>>
-----------------------------------------------------------------------------
(***************************************************************************)
(* The client.                                                             *)
(***************************************************************************)

\* The layer above: pairs of nodes, an odd tail padded with the empty subtree.
Parents(layer, level) ==
  [k \in 1..((Len(layer) + 1) \div 2) |->
     Compress(layer[2 * k - 1],
              IF 2 * k <= Len(layer) THEN layer[2 * k] ELSE Zeros[level])]

BuildLayers(ls) ==
  LET layers[i \in 0..TREE_DEPTH] ==
        IF i = 0 THEN [k \in DOMAIN ls |-> LeafNode(ls[k])]
        ELSE Parents(layers[i - 1], i - 1)
  IN  layers

\* root(): the client's root for these leaves.
ReplayedRoot(ls) ==
  IF ls = <<>> THEN Compress(Zeros[TREE_DEPTH - 1], Zeros[TREE_DEPTH - 1])
               ELSE BuildLayers(ls)[TREE_DEPTH][1]

\* pathAt: at each level the neighbour of the node above the leaf (positions
\* from 0), or the empty subtree where the layer ends before it.
PathAt(ls, index) ==
  LET layers == BuildLayers(ls)
      Neighbour(i) == LET idx == Shifted(index)[i] IN IF idx % 2 = 0 THEN idx + 1 ELSE idx - 1
  IN  [i \in Level |->
         IF Neighbour(i) < Len(layers[i]) THEN layers[i][Neighbour(i) + 1] ELSE Zeros[i]]

\* The circuits' fold of a leaf up its path.
CircuitFold(leaf, index, siblings) ==
  LET node[i \in 0..TREE_DEPTH] ==
        IF i = 0 THEN leaf
        ELSE IF Bit(index, i - 1) = 0 THEN Compress(node[i - 1], siblings[i - 1])
        ELSE Compress(siblings[i - 1], node[i - 1])
  IN  node[TREE_DEPTH]

\* The client reads the events up to some later point of the chain.
Ingest(n) ==
  /\ n \in (replayed + 1)..Len(leaves)
  /\ replayed' = n
  /\ UNCHANGED <<leaves, filled, next, root, roots, witnesses>>

\* A wallet takes the path of a note from its copy and starts to prove; the
\* root is a public input of the proof.
TakeWitness(k) ==
  LET copy == SubSeq(leaves, 1, replayed)
  IN  /\ k \in 1..replayed /\ Len(witnesses) < MaxWitnesses
      /\ witnesses' = Append(witnesses,
                             [leaf |-> leaves[k], index |-> k - 1,
                              root |-> ReplayedRoot(copy),
                              siblings |-> PathAt(copy, k - 1)])
      /\ UNCHANGED <<leaves, filled, next, root, roots, replayed>>

\* The contract decides on a proof: the circuit's constraint and the root
\* check of the entry point.  Either way the proof is no longer in flight.
Accepted(w) ==
  /\ CircuitFold(LeafNode(w.leaf), w.index, w.siblings) = w.root
  /\ w.root \in roots
SubmitProof ==
  /\ witnesses # <<>>
  /\ witnesses' = Tail(witnesses)
  /\ UNCHANGED <<leaves, filled, next, root, roots, replayed>>
-----------------------------------------------------------------------------
\* tree_init: the root of the empty tree is not accepted.
TreeInit ==
  /\ filled = [i \in Level |-> Zeros[i]] /\ next = 0
  /\ root = Compress(Zeros[TREE_DEPTH - 1], Zeros[TREE_DEPTH - 1])
  /\ roots = {} /\ leaves = <<>> /\ replayed = 0 /\ witnesses = <<>>

TreeNext ==
  \/ \E l \in Leaf : TreeInsert(l)
  \/ \E n \in 1..Len(leaves) : Ingest(n)
  \/ \E k \in 1..Len(leaves) : TakeWitness(k)
  \/ SubmitProof

TreeSpec == TreeInit /\ [][TreeNext]_treeVars
-----------------------------------------------------------------------------
\* The contract's incremental root is the root of the whole tree that a client
\* rebuilds from the events, after any number of insertions.
RootsAgree == root = ReplayedRoot(leaves)

\* A proof is accepted whenever it is submitted: a path taken from a copy that
\* lags behind, for any note of that copy, still reaches an accepted root after
\* the tree has grown.
StaleProofsAccepted == \A w \in {witnesses[k] : k \in DOMAIN witnesses} : Accepted(w)
=============================================================================
