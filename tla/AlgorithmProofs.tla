--------------------------- MODULE AlgorithmProofs --------------------------
(***************************************************************************)
(* The loops under the ledgers do what they are for, at any size:          *)
(* gcd_i128 computes the greatest common divisor; tree_insert, which keeps *)
(* one subtree per level, computes the root of the whole tree; and the     *)
(* event reader, from which every page rebuilds that tree, reads on where  *)
(* it was without a gap, whoever else is reading.                          *)
(*                                                                         *)
(* A recursive function is defined by CHOOSE, so the proofs of the first   *)
(* two begin with the existence of what is chosen, by induction over the   *)
(* levels.                                                                 *)
(***************************************************************************)
EXTENDS Euclid, NoteTree, EventSource, MatchingProofs

(***************************************************************************)
(* gcd_i128.  The loop invariant: a is positive, and a and b have the same *)
(* common divisors as the arguments.                                       *)
(***************************************************************************)

\* d divides both x and y.
Common(d, x, y) == x % d = 0 /\ y % d = 0

\* The loop invariant.
EuclidInv ==
  /\ a0 \in Nat \ {0} /\ b0 \in Nat \ {0}
  /\ a \in Nat \ {0} /\ b \in Nat
  /\ \A d \in Nat \ {0} : Common(d, a, b) <=> Common(d, a0, b0)

\* A number that d divides is a multiple of d.
LEMMA DividesMultiple ==
  ASSUME NEW n \in Nat, NEW d \in Nat \ {0}, n % d = 0
  PROVE  \E k \in Nat : n = k * d
<1> DEFINE q == n \div d
           m == n % d
<1>1. n = q * d + m /\ m \in 0..(d - 1) /\ q \in Nat
  BY DivMod
<1>2. m = 0
  OBVIOUS
<1> HIDE DEF q, m
<1>3. n = q * d
  BY <1>1, <1>2
<1> QED
  BY <1>1, <1>3

\* A multiple of d leaves no remainder.
LEMMA MultipleMod ==
  ASSUME NEW n \in Nat, NEW d \in Nat \ {0}, NEW k \in Int, n = k * d
  PROVE  n % d = 0
<1> DEFINE q == n \div d
           m == n % d
<1>1. n = q * d + m /\ m \in 0..(d - 1) /\ q \in Nat
  BY DivMod
<1> HIDE DEF q, m
<1>2. m = (k - q) * d
  BY <1>1
<1>3. k - q <= 0
  <2>1. ASSUME k - q >= 1 PROVE FALSE
    <3>1. (k - q) * d >= d
      BY <1>1, <2>1
    <3> QED BY <1>1, <1>2, <3>1
  <2> QED BY <1>1, <2>1
<1>4. (k - q) * d <= 0
  BY <1>1, <1>3
<1>5. m = 0
  BY <1>1, <1>2, <1>4
<1> QED
  BY <1>5 DEF m

\* One iteration keeps the common divisors.
LEMMA IterationDivisors ==
  ASSUME NEW x \in Nat, NEW y \in Nat \ {0}, NEW d \in Nat \ {0}
  PROVE  Common(d, x, y) <=> Common(d, y, x % y)
<1> DEFINE q == x \div y
           r == x % y
<1>1. x = q * y + r /\ r \in Nat /\ q \in Nat
  BY DivMod
<1> HIDE DEF q, r
<1>2. ASSUME Common(d, x, y) PROVE r % d = 0
  <2>1. PICK i \in Nat : x = i * d
    BY <1>2, DividesMultiple DEF Common
  <2>2. PICK j \in Nat : y = j * d
    BY <1>2, DividesMultiple DEF Common
  <2>3. r = i * d - q * (j * d)
    BY <1>1, <2>1, <2>2
  <2>4. \A u, v, w, z \in Int : u * z - v * (w * z) = (u - v * w) * z
    OBVIOUS
  <2>5. r = (i - q * j) * d /\ i - q * j \in Int
    BY <1>1, <2>3, <2>4
  <2> QED BY <1>1, <2>5, MultipleMod
<1>3. ASSUME Common(d, y, r) PROVE x % d = 0
  <2>1. PICK i \in Nat : y = i * d
    BY <1>3, DividesMultiple DEF Common
  <2>2. PICK j \in Nat : r = j * d
    BY <1>1, <1>3, DividesMultiple DEF Common
  <2>3. x = q * (i * d) + j * d
    BY <1>1, <2>1, <2>2
  <2>4. \A u, v, w, z \in Int : u * (v * z) + w * z = (u * v + w) * z
    OBVIOUS
  <2>5. x = (q * i + j) * d /\ q * i + j \in Int
    BY <1>1, <2>3, <2>4
  <2> QED BY <2>5, MultipleMod
<1> QED
  BY <1>2, <1>3 DEF Common, r

\* The loop invariant holds throughout.
LEMMA EuclidInductive == EuclidSpec => []EuclidInv
<1>1. EuclidInit => EuclidInv
  BY AmountAssumption DEF EuclidInit, EuclidInv
<1>2. EuclidInv /\ [Iterate]_euclidVars => EuclidInv'
  <2> SUFFICES ASSUME EuclidInv, [Iterate]_euclidVars PROVE EuclidInv'
    OBVIOUS
  <2>1. CASE Iterate
    <3>1. a' = b /\ b' = a % b /\ a0' = a0 /\ b0' = b0 /\ b \in Nat \ {0}
      BY <2>1 DEF Iterate, EuclidInv
    <3>2. a % b \in Nat
      BY <3>1, DivMod DEF EuclidInv
    <3>3. \A d \in Nat \ {0} : Common(d, b, a % b) <=> Common(d, a, b)
      BY <3>1, IterationDivisors DEF EuclidInv
    <3> QED BY <3>1, <3>2, <3>3 DEF EuclidInv
  <2>2. CASE UNCHANGED euclidVars
    BY <2>2 DEF euclidVars, EuclidInv
  <2> QED BY <2>1, <2>2
<1> QED
  BY <1>1, <1>2, PTL DEF EuclidSpec

\* gcd_i128 returns the greatest common divisor of any two positive amounts.
THEOREM EuclidCorrect == EuclidSpec => []GcdResult
<1>1. EuclidInv => GcdResult
  <2> SUFFICES ASSUME EuclidInv, b = 0 PROVE a = Gcd(a0, b0)
    BY DEF GcdResult
  <2> DEFINE T == CommonDivisors(a0, b0)
  <2>1. /\ a \in Nat \ {0} /\ a0 \in Nat \ {0} /\ b0 \in Nat \ {0}
        /\ \A d \in Nat \ {0} : Common(d, a, 0) <=> Common(d, a0, b0)
    BY DEF EuclidInv
  <2>2. Common(a, a, 0)
    BY <2>1, MultipleMod DEF Common
  <2>3. \A n, d \in Nat \ {0} : n % d = 0 => d <= n
    <3> SUFFICES ASSUME NEW n \in Nat \ {0}, NEW d \in Nat \ {0}, n % d = 0 PROVE d <= n
      OBVIOUS
    <3>1. PICK k \in Nat : n = k * d
      BY DividesMultiple
    <3>2. k >= 1
      BY <3>1
    <3> QED BY <3>1, <3>2
  <2>4. a0 % a = 0 /\ b0 % a = 0
    BY <2>1, <2>2 DEF Common
  <2>5. a \in T
    BY <2>1, <2>3, <2>4 DEF CommonDivisors
  <2>6. ASSUME NEW d \in T PROVE d <= a
    <3>1. d \in Nat \ {0} /\ Common(d, a0, b0)
      BY <2>1 DEF CommonDivisors, Common
    <3>2. a % d = 0
      BY <2>1, <3>1 DEF Common
    <3> QED BY <2>1, <2>3, <3>1, <3>2
  <2>7. T \subseteq Nat
    BY <2>1 DEF CommonDivisors
  <2> HIDE DEF T
  <2>8. \A g \in T : (\A d \in T : d <= g) => g = a
    BY <2>5, <2>6, <2>7
  <2>9. Gcd(a0, b0) = CHOOSE g \in T : \A d \in T : d <= g
    BY DEF Gcd, T
  <2> QED BY <2>5, <2>6, <2>8, <2>9
<1> QED
  BY <1>1, EuclidInductive, PTL
-----------------------------------------------------------------------------
(***************************************************************************)
(* Functions that are defined level by level.                              *)
(***************************************************************************)

\* f is an index shifted by 0 to m places.
IsShifted(f, n, m) == f = [i \in 0..m |-> IF i = 0 THEN n ELSE f[i - 1] \div 2]
\* Such a function exists.
LEMMA ShiftedExists == ASSUME NEW n, NEW m \in Nat PROVE \E f : IsShifted(f, n, m)
<1> DEFINE S == {k \in 0..m : \E f : IsShifted(f, n, k)}
<1>1. 0 \in S
  <2>1. IsShifted([i \in 0..0 |-> n], n, 0)
    BY DEF IsShifted
  <2>. QED
    BY <2>1
<1>2. ASSUME NEW k \in 0..(m - 1), k \in S PROVE k + 1 \in S
  <2>1. PICK f : IsShifted(f, n, k)
    BY <1>2
  <2> DEFINE g == [i \in 0..(k + 1) |-> IF i = k + 1 THEN f[k] \div 2 ELSE f[i]]
  <2>2. ASSUME NEW i \in 0..(k + 1) PROVE g[i] = IF i = 0 THEN n ELSE g[i - 1] \div 2
    <3>1. CASE i = k + 1
      BY <3>1
    <3>2. CASE i \in 0..k
      BY <3>2, <2>1 DEF IsShifted
    <3>. QED
      BY <3>1, <3>2
  <2>3. IsShifted(g, n, k + 1)
    BY <2>2 DEF IsShifted
  <2>. QED
    BY <2>3
<1>3. m \in S
  <2> HIDE DEF S
  <2>. QED
    BY <1>1, <1>2, UpTo
<1>. QED
  BY <1>3

\* What the recursive definition of Shifted says.
LEMMA ShiftedDef ==
  ASSUME NEW n
  PROVE  /\ Shifted(n)[0] = n
         /\ \A i \in Level : Shifted(n)[i + 1] = Shifted(n)[i] \div 2
<1>1. IsShifted(Shifted(n), n, TREE_DEPTH)
  <2>1. PICK f : IsShifted(f, n, TREE_DEPTH)
    BY ShiftedExists, TreeAssumption
  <2>. QED
    BY <2>1 DEF IsShifted, Shifted
<1>. QED
  BY <1>1, TreeAssumption DEF IsShifted, Level

\* f has the nodes above a leaf up to level m, as tree_insert computes them.
IsAncestors(f, leaf, index, subtrees, m) ==
  f = [i \in 0..m |->
         IF i = 0 THEN leaf
         ELSE IF Bit(index, i - 1) = 0 THEN Compress(f[i - 1], Zeros[i - 1])
         ELSE Compress(subtrees[i - 1], f[i - 1])]
\* Such a function exists.
LEMMA AncestorsExist ==
  ASSUME NEW leaf, NEW index, NEW subtrees, NEW m \in Nat
  PROVE  \E f : IsAncestors(f, leaf, index, subtrees, m)
<1> DEFINE Is(f, k) == IsAncestors(f, leaf, index, subtrees, k)
           S == {k \in 0..m : \E f : Is(f, k)}
<1>1. 0 \in S
  <2>1. Is([i \in 0..0 |-> leaf], 0)
    BY DEF IsAncestors
  <2>. QED
    BY <2>1
<1>2. ASSUME NEW k \in 0..(m - 1), k \in S PROVE k + 1 \in S
  <2>1. PICK f : Is(f, k)
    BY <1>2
  <2> DEFINE top == IF Bit(index, k) = 0 THEN Compress(f[k], Zeros[k])
                    ELSE Compress(subtrees[k], f[k])
             g == [i \in 0..(k + 1) |-> IF i = k + 1 THEN top ELSE f[i]]
  <2>2. ASSUME NEW i \in 0..(k + 1)
        PROVE g[i] = IF i = 0 THEN leaf
                     ELSE IF Bit(index, i - 1) = 0 THEN Compress(g[i - 1], Zeros[i - 1])
                     ELSE Compress(subtrees[i - 1], g[i - 1])
    <3>1. CASE i = k + 1
      BY <3>1
    <3>2. CASE i \in 0..k
      BY <3>2, <2>1 DEF IsAncestors
    <3>. QED
      BY <3>1, <3>2
  <2>3. Is(g, k + 1)
    BY <2>2 DEF IsAncestors
  <2>. QED
    BY <2>3
<1>3. m \in S
  <2> HIDE DEF S
  <2>. QED
    BY <1>1, <1>2, UpTo
<1>. QED
  BY <1>3

\* What the recursive definition of Ancestors says.
LEMMA AncestorsDef ==
  ASSUME NEW leaf, NEW index, NEW subtrees, NEW cur, cur = Ancestors(leaf, index, subtrees)
  PROVE  /\ cur[0] = leaf
         /\ \A i \in Level : cur[i + 1] = IF Bit(index, i) = 0 THEN Compress(cur[i], Zeros[i])
                                          ELSE Compress(subtrees[i], cur[i])
<1>1. IsAncestors(cur, leaf, index, subtrees, TREE_DEPTH)
  <2>1. PICK f : IsAncestors(f, leaf, index, subtrees, TREE_DEPTH)
    BY AncestorsExist, TreeAssumption
  <2>. QED
    BY <2>1 DEF IsAncestors, Ancestors
<1>. QED
  BY <1>1, TreeAssumption DEF IsAncestors, Level

\* f has the empty subtrees up to level m.
IsZeros(f, m) ==
  f = [i \in 0..m |-> IF i = 0 THEN Zero ELSE Compress(f[i - 1], f[i - 1])]
\* Such a function exists.
LEMMA ZerosExist ==
  ASSUME NEW m \in Nat
  PROVE  \E f : IsZeros(f, m)
<1> DEFINE S == {k \in 0..m : \E f : IsZeros(f, k)}
<1>1. 0 \in S
  <2>1. IsZeros([i \in 0..0 |-> Zero], 0)
    BY DEF IsZeros
  <2>. QED
    BY <2>1
<1>2. ASSUME NEW k \in 0..(m - 1), k \in S PROVE k + 1 \in S
  <2>1. PICK f : IsZeros(f, k)
    BY <1>2
  <2> DEFINE g == [i \in 0..(k + 1) |-> IF i = k + 1 THEN Compress(f[k], f[k]) ELSE f[i]]
  <2>2. ASSUME NEW i \in 0..(k + 1)
        PROVE  g[i] = IF i = 0 THEN Zero ELSE Compress(g[i - 1], g[i - 1])
    <3>1. CASE i = k + 1
      BY <3>1
    <3>2. CASE i \in 0..k
      BY <3>2, <2>1 DEF IsZeros
    <3>. QED
      BY <3>1, <3>2
  <2>3. IsZeros(g, k + 1)
    BY <2>2 DEF IsZeros
  <2>. QED
    BY <2>3
<1>3. m \in S
  <2> HIDE DEF S
  <2>. QED
    BY <1>1, <1>2, UpTo
<1>. QED
  BY <1>3

\* What the recursive definition of Zeros says.
LEMMA ZerosDef == Zeros[0] = Zero /\ \A i \in Level : Zeros[i + 1] = Compress(Zeros[i], Zeros[i])
<1>1. IsZeros(Zeros, TREE_DEPTH)
  <2>1. PICK f : IsZeros(f, TREE_DEPTH)
    BY ZerosExist, TreeAssumption
  <2>. QED
    BY <2>1 DEF IsZeros, Zeros
<1>. QED
  BY <1>1, TreeAssumption DEF IsZeros, Level

\* f has the layers of a client's copy up to level m.
IsLayers(f, ls, m) ==
  f = [i \in 0..m |-> IF i = 0 THEN [k \in DOMAIN ls |-> LeafNode(ls[k])]
                      ELSE Parents(f[i - 1], i - 1)]
\* Such a function exists.
LEMMA LayersExist ==
  ASSUME NEW ls, NEW m \in Nat
  PROVE  \E f : IsLayers(f, ls, m)
<1> DEFINE S == {k \in 0..m : \E f : IsLayers(f, ls, k)}
<1>1. 0 \in S
  <2>1. IsLayers([i \in 0..0 |-> [k \in DOMAIN ls |-> LeafNode(ls[k])]], ls, 0)
    BY DEF IsLayers
  <2>. QED
    BY <2>1
<1>2. ASSUME NEW k \in 0..(m - 1), k \in S PROVE k + 1 \in S
  <2>1. PICK f : IsLayers(f, ls, k)
    BY <1>2
  <2> DEFINE g == [i \in 0..(k + 1) |-> IF i = k + 1 THEN Parents(f[k], k) ELSE f[i]]
  <2>2. ASSUME NEW i \in 0..(k + 1)
        PROVE  g[i] = IF i = 0 THEN [j \in DOMAIN ls |-> LeafNode(ls[j])]
                      ELSE Parents(g[i - 1], i - 1)
    <3>1. CASE i = k + 1
      BY <3>1
    <3>2. CASE i \in 0..k
      BY <3>2, <2>1 DEF IsLayers
    <3>. QED
      BY <3>1, <3>2
  <2>3. IsLayers(g, ls, k + 1)
    BY <2>2 DEF IsLayers
  <2>. QED
    BY <2>3
<1>3. m \in S
  <2> HIDE DEF S
  <2>. QED
    BY <1>1, <1>2, UpTo
<1>. QED
  BY <1>3

\* What the recursive definition of BuildLayers says.
LEMMA LayersDef ==
  ASSUME NEW ls, NEW layers, layers = BuildLayers(ls)
  PROVE  /\ layers[0] = [k \in DOMAIN ls |-> LeafNode(ls[k])]
         /\ \A i \in Level : layers[i + 1] = Parents(layers[i], i)
<1>1. IsLayers(layers, ls, TREE_DEPTH)
  <2>1. PICK f : IsLayers(f, ls, TREE_DEPTH)
    BY LayersExist, TreeAssumption
  <2>. QED
    BY <2>1 DEF IsLayers, BuildLayers
<1>2. layers = [i \in 0..TREE_DEPTH |->
                 IF i = 0 THEN [k \in DOMAIN ls |-> LeafNode(ls[k])]
                 ELSE Parents(layers[i - 1], i - 1)]
  BY <1>1 DEF IsLayers
<1>3. \A i \in 0..TREE_DEPTH :
        layers[i] = IF i = 0 THEN [k \in DOMAIN ls |-> LeafNode(ls[k])]
                    ELSE Parents(layers[i - 1], i - 1)
  BY <1>2
<1>4. layers[0] = [k \in DOMAIN ls |-> LeafNode(ls[k])]
  BY <1>3, TreeAssumption
<1>5. ASSUME NEW i \in Level PROVE layers[i + 1] = Parents(layers[i], i)
  <2>1. i + 1 \in 0..TREE_DEPTH /\ i + 1 # 0 /\ (i + 1) - 1 = i
    BY TreeAssumption DEF Level
  <2>. QED
    BY <1>3, <2>1
<1>. QED
  BY <1>4, <1>5

\* f has the nodes above a leaf up to level m, as the circuits compute them.
IsFold(f, leaf, index, siblings, m) ==
  f = [i \in 0..m |->
         IF i = 0 THEN leaf
         ELSE IF Bit(index, i - 1) = 0 THEN Compress(f[i - 1], siblings[i - 1])
         ELSE Compress(siblings[i - 1], f[i - 1])]
\* Such a function exists.
LEMMA FoldExist ==
  ASSUME NEW leaf, NEW index, NEW siblings, NEW m \in Nat
  PROVE  \E f : IsFold(f, leaf, index, siblings, m)
<1> DEFINE S == {k \in 0..m : \E f : IsFold(f, leaf, index, siblings, k)}
<1>1. 0 \in S
  <2>1. IsFold([i \in 0..0 |-> leaf], leaf, index, siblings, 0)
    BY DEF IsFold
  <2>. QED
    BY <2>1
<1>2. ASSUME NEW k \in 0..(m - 1), k \in S PROVE k + 1 \in S
  <2>1. PICK f : IsFold(f, leaf, index, siblings, k)
    BY <1>2
  <2> DEFINE top == IF Bit(index, k) = 0 THEN Compress(f[k], siblings[k])
                    ELSE Compress(siblings[k], f[k])
             g == [i \in 0..(k + 1) |-> IF i = k + 1 THEN top ELSE f[i]]
  <2>2. ASSUME NEW i \in 0..(k + 1)
        PROVE  g[i] = IF i = 0 THEN leaf
                      ELSE IF Bit(index, i - 1) = 0 THEN Compress(g[i - 1], siblings[i - 1])
                      ELSE Compress(siblings[i - 1], g[i - 1])
    <3>1. CASE i = k + 1
      BY <3>1
    <3>2. CASE i \in 0..k
      BY <3>2, <2>1 DEF IsFold
    <3>. QED
      BY <3>1, <3>2
  <2>3. IsFold(g, leaf, index, siblings, k + 1)
    BY <2>2 DEF IsFold
  <2>. QED
    BY <2>3
<1>3. m \in S
  <2> HIDE DEF S
  <2>. QED
    BY <1>1, <1>2, UpTo
<1>. QED
  BY <1>3

\* What the recursive definition in CircuitFold says.
LEMMA FoldDef ==
  ASSUME NEW leaf, NEW index, NEW siblings
  PROVE  \E node :
           /\ node[0] = leaf
           /\ \A i \in Level : node[i + 1] = IF Bit(index, i) = 0
                                              THEN Compress(node[i], siblings[i])
                                              ELSE Compress(siblings[i], node[i])
           /\ CircuitFold(leaf, index, siblings) = node[TREE_DEPTH]
<1> DEFINE node == CHOOSE f : IsFold(f, leaf, index, siblings, TREE_DEPTH)
<1>1. IsFold(node, leaf, index, siblings, TREE_DEPTH)
  BY FoldExist, TreeAssumption
<1>2. CircuitFold(leaf, index, siblings) = node[TREE_DEPTH]
  BY DEF CircuitFold, IsFold
<1> HIDE DEF node
<1>. QED
  BY <1>1, <1>2, TreeAssumption DEF IsFold, Level


-----------------------------------------------------------------------------
(***************************************************************************)
(* The client's layers.                                                    *)
(***************************************************************************)

\* Half of a number, and the same rounded up.
LEMMA Half ==
  ASSUME NEW n \in Nat
  PROVE  /\ n \div 2 \in Nat /\ n % 2 \in {0, 1} /\ n = 2 * (n \div 2) + (n % 2)
         /\ (n + 1) \div 2 = (n \div 2) + (n % 2)
OBVIOUS

\* The number of pairs in n nodes, and which of them there are.
LEMMA HalfUp ==
  ASSUME NEW n \in Nat
  PROVE  /\ (n + 1) \div 2 \in Nat
         /\ (n + 1) \div 2 > 0 <=> n > 0
         /\ \A k \in Nat : k < (n + 1) \div 2 <=> 2 * k < n
OBVIOUS

\* Induction over the levels.
LEMMA Levels ==
  ASSUME NEW S, 0 \in S, \A i \in Level : i \in S => i + 1 \in S
  PROVE  0..TREE_DEPTH \subseteq S
BY UpTo, TreeAssumption DEF Level

\* A layer as long as it has nodes, and empty subtrees behind it.
Padded(ls, i, k) ==
  LET layer == BuildLayers(ls)[i] IN IF k < Len(layer) THEN layer[k + 1] ELSE Zeros[i]

\* A layer is a sequence.
IsLayer(layer) == Len(layer) \in Nat /\ layer = [k \in 1..Len(layer) |-> layer[k]]

\* Each layer is half as long as the one below.
LEMMA LayerLengths ==
  ASSUME NEW ls \in Seq(Leaf), NEW layers, layers = BuildLayers(ls)
  PROVE  /\ \A i \in 0..TREE_DEPTH : IsLayer(layers[i])
         /\ Len(layers[0]) = Len(ls)
         /\ \A i \in Level : Len(layers[i + 1]) = (Len(layers[i]) + 1) \div 2
<1>1. IsLayer(layers[0]) /\ Len(layers[0]) = Len(ls)
  <2>1. Len(ls) \in Nat /\ DOMAIN ls = 1..Len(ls)
    BY LenProperties
  <2>2. layers[0] = [k \in 1..Len(ls) |-> LeafNode(ls[k])]
    BY <2>1, LayersDef
  <2>. QED
    BY <2>1, <2>2 DEF IsLayer
<1>2. ASSUME NEW i \in Level, IsLayer(layers[i])
      PROVE  IsLayer(layers[i + 1]) /\ Len(layers[i + 1]) = (Len(layers[i]) + 1) \div 2
  <2> DEFINE n == (Len(layers[i]) + 1) \div 2
  <2>1. n \in Nat
    BY <1>2, HalfUp DEF IsLayer
  <2>2. layers[i + 1] = Parents(layers[i], i)
    BY LayersDef
  <2>3. DOMAIN Parents(layers[i], i) = 1..n
    BY DEF Parents
  <2>4. Parents(layers[i], i) = [k \in 1..n |-> Parents(layers[i], i)[k]]
    BY <2>3 DEF Parents
  <2> HIDE DEF n
  <2>5. Len(Parents(layers[i], i)) = n
    BY <2>1, <2>4
  <2>. QED
    BY <2>1, <2>2, <2>4, <2>5 DEF IsLayer, n
<1>3. 0..TREE_DEPTH \subseteq {i \in 0..TREE_DEPTH : IsLayer(layers[i])}
  <2> DEFINE S == {i \in 0..TREE_DEPTH : IsLayer(layers[i])}
  <2>1. 0 \in S
    BY <1>1, TreeAssumption
  <2>2. ASSUME NEW i \in Level, i \in S PROVE i + 1 \in S
    <3>1. i + 1 \in 0..TREE_DEPTH
      BY TreeAssumption DEF Level
    <3>. QED
      BY <1>2, <2>2, <3>1
  <2> HIDE DEF S
  <2>. QED
    BY <2>1, <2>2, Levels DEF S
<1>4. Level \subseteq 0..TREE_DEPTH
  BY TreeAssumption DEF Level
<1>5. \A i \in 0..TREE_DEPTH : IsLayer(layers[i])
  BY <1>3
<1>6. \A i \in Level : Len(layers[i + 1]) = (Len(layers[i]) + 1) \div 2
  BY <1>2, <1>4, <1>5
<1>. QED
  BY <1>1, <1>5, <1>6

\* A node of the padded tree is made of the two below it.
LEMMA PaddedNodes ==
  ASSUME NEW ls \in Seq(Leaf)
  PROVE  /\ \A k \in Nat : Padded(ls, 0, k) = IF k < Len(ls) THEN LeafNode(ls[k + 1]) ELSE Zero
         /\ \A i \in Level, k \in Nat :
              Padded(ls, i + 1, k) = Compress(Padded(ls, i, 2 * k), Padded(ls, i, 2 * k + 1))
<1> DEFINE layers == BuildLayers(ls)
<1>1. /\ \A i \in 0..TREE_DEPTH : IsLayer(layers[i])
      /\ Len(layers[0]) = Len(ls)
      /\ \A i \in Level : Len(layers[i + 1]) = (Len(layers[i]) + 1) \div 2
  BY LayerLengths
<1>2. /\ layers[0] = [k \in DOMAIN ls |-> LeafNode(ls[k])]
      /\ \A i \in Level : layers[i + 1] = Parents(layers[i], i)
  BY LayersDef
<1>3. Len(ls) \in Nat /\ DOMAIN ls = 1..Len(ls)
  BY LenProperties
<1>4. \A i, k : Padded(ls, i, k) = IF k < Len(layers[i]) THEN layers[i][k + 1] ELSE Zeros[i]
  BY DEF Padded
<1> HIDE DEF layers
<1>5. ASSUME NEW k \in Nat
      PROVE  Padded(ls, 0, k) = IF k < Len(ls) THEN LeafNode(ls[k + 1]) ELSE Zero
  BY <1>1, <1>2, <1>3, <1>4, ZerosDef
<1>6. ASSUME NEW i \in Level, NEW k \in Nat
      PROVE  Padded(ls, i + 1, k) = Compress(Padded(ls, i, 2 * k), Padded(ls, i, 2 * k + 1))
  <2> DEFINE n == Len(layers[i])
  <2>0. i \in 0..TREE_DEPTH
    BY TreeAssumption DEF Level
  <2>1. n \in Nat /\ Len(layers[i + 1]) = (n + 1) \div 2
    BY <1>1, <2>0 DEF IsLayer
  <2>2. CASE 2 * k < n
    <3>1. k < (n + 1) \div 2 /\ k + 1 \in 1..((n + 1) \div 2)
      <4> HIDE DEF n
      <4>. QED
        BY <2>1, <2>2, HalfUp
    <3>2. layers[i + 1][k + 1] =
            Compress(layers[i][2 * (k + 1) - 1],
                     IF 2 * (k + 1) <= n THEN layers[i][2 * (k + 1)] ELSE Zeros[i])
      BY <1>2, <3>1 DEF Parents
    <3>3. 2 * (k + 1) - 1 = 2 * k + 1 /\ 2 * (k + 1) = (2 * k + 1) + 1
          /\ (2 * (k + 1) <= n <=> 2 * k + 1 < n)
      BY <2>1
    <3>. QED
      BY <1>4, <2>1, <2>2, <3>1, <3>2, <3>3
  <2>3. CASE ~(2 * k < n)
    <3>1. ~(k < (n + 1) \div 2) /\ ~(2 * k + 1 < n)
      <4> HIDE DEF n
      <4>. QED
        BY <2>1, <2>3, HalfUp
    <3>. QED
      BY <1>4, <2>1, <2>3, <3>1, ZerosDef
  <2>. QED
    BY <2>2, <2>3
<1>. QED
  BY <1>5, <1>6

\* What the client takes for the root is the top of the padded tree.
LEMMA RootIsTop == ASSUME NEW ls \in Seq(Leaf) PROVE ReplayedRoot(ls) = Padded(ls, TREE_DEPTH, 0)
<1> DEFINE layers == BuildLayers(ls)
<1>1. /\ \A i \in 0..TREE_DEPTH : IsLayer(layers[i])
      /\ Len(layers[0]) = Len(ls)
      /\ \A i \in Level : Len(layers[i + 1]) = (Len(layers[i]) + 1) \div 2
  BY LayerLengths
<1>2. Len(ls) \in Nat /\ (ls = <<>> <=> Len(ls) = 0)
  BY LenProperties, EmptySeq
<1>3. Padded(ls, TREE_DEPTH, 0) =
        IF 0 < Len(layers[TREE_DEPTH]) THEN layers[TREE_DEPTH][1] ELSE Zeros[TREE_DEPTH]
  BY DEF Padded
<1>4. ReplayedRoot(ls) = IF ls = <<>> THEN Compress(Zeros[TREE_DEPTH - 1], Zeros[TREE_DEPTH - 1])
                         ELSE layers[TREE_DEPTH][1]
  BY DEF ReplayedRoot
<1> HIDE DEF layers
<1>5. 0..TREE_DEPTH \subseteq {i \in 0..TREE_DEPTH : Len(layers[i]) > 0 <=> Len(ls) > 0}
  <2> DEFINE S == {i \in 0..TREE_DEPTH : Len(layers[i]) > 0 <=> Len(ls) > 0}
  <2>1. 0 \in S
    BY <1>1, TreeAssumption
  <2>2. ASSUME NEW i \in Level, i \in S PROVE i + 1 \in S
    <3>1. i + 1 \in 0..TREE_DEPTH /\ i \in 0..TREE_DEPTH
      BY TreeAssumption DEF Level
    <3>2. Len(layers[i]) \in Nat
      BY <1>1, <3>1 DEF IsLayer
    <3>3. Len(layers[i + 1]) > 0 <=> Len(layers[i]) > 0
      <4> DEFINE n == Len(layers[i])
                 m == Len(layers[i + 1])
      <4>1. m = (n + 1) \div 2 /\ n \in Nat
        BY <1>1, <3>2
      <4> HIDE DEF n, m
      <4>2. m > 0 <=> n > 0
        BY <4>1, HalfUp
      <4> QED
        BY <4>2 DEF n, m
    <3>. QED
      BY <2>2, <3>1, <3>3
  <2> HIDE DEF S
  <2>. QED
    BY <2>1, <2>2, Levels DEF S
<1>6. Zeros[TREE_DEPTH] = Compress(Zeros[TREE_DEPTH - 1], Zeros[TREE_DEPTH - 1])
  BY ZerosDef, TreeAssumption DEF Level
<1>7. TREE_DEPTH \in 0..TREE_DEPTH
  BY TreeAssumption
<1>. QED
  BY <1>1, <1>2, <1>3, <1>4, <1>5, <1>6, <1>7 DEF IsLayer


-----------------------------------------------------------------------------
(***************************************************************************)
(* Indices.                                                                *)
(***************************************************************************)

\* A shifted index is a number.
LEMMA ShiftedNat == ASSUME NEW n \in Nat PROVE \A i \in 0..TREE_DEPTH : Shifted(n)[i] \in Nat
<1> DEFINE S == {i \in 0..TREE_DEPTH : Shifted(n)[i] \in Nat}
<1>1. 0 \in S
  BY ShiftedDef, TreeAssumption
<1>2. ASSUME NEW i \in Level, i \in S PROVE i + 1 \in S
  BY <1>2, ShiftedDef, Half, TreeAssumption DEF Level
<1>3. 0..TREE_DEPTH \subseteq S
  <2> HIDE DEF S
  <2>. QED
    BY <1>1, <1>2, Levels
<1>. QED
  BY <1>3

\* Halves keep their order.
LEMMA HalfMonotone ==
  ASSUME NEW m \in Nat, NEW n \in Nat, m <= n PROVE m \div 2 <= n \div 2
OBVIOUS

\* A smaller index stays smaller.
LEMMA ShiftedMonotone ==
  ASSUME NEW m \in Nat, NEW n \in Nat, m <= n
  PROVE  \A i \in 0..TREE_DEPTH : Shifted(m)[i] <= Shifted(n)[i]
<1> DEFINE S == {i \in 0..TREE_DEPTH : Shifted(m)[i] <= Shifted(n)[i]}
<1>1. 0 \in S
  BY ShiftedDef, TreeAssumption
<1>2. ASSUME NEW i \in Level, i \in S PROVE i + 1 \in S
  <2>1. i \in 0..TREE_DEPTH /\ i + 1 \in 0..TREE_DEPTH
    BY TreeAssumption DEF Level
  <2>2. Shifted(m)[i] \in Nat /\ Shifted(n)[i] \in Nat
    BY <2>1, ShiftedNat
  <2>3. Shifted(m)[i + 1] = Shifted(m)[i] \div 2 /\ Shifted(n)[i + 1] = Shifted(n)[i] \div 2
    BY ShiftedDef
  <2>. QED
    BY <1>2, <2>1, <2>2, <2>3, HalfMonotone
<1>3. 0..TREE_DEPTH \subseteq S
  <2> HIDE DEF S
  <2>. QED
    BY <1>1, <1>2, Levels
<1>. QED
  BY <1>3

\* Half of the next number is the same, or one more.
LEMMA HalfNext ==
  ASSUME NEW s \in Nat, NEW t \in Nat, t = s \/ t = s + 1
  PROVE  t \div 2 = s \div 2 \/ t \div 2 = s \div 2 + 1
OBVIOUS

\* The same of a whole index and the next one.
LEMMA ShiftedNext ==
  ASSUME NEW n \in Nat
  PROVE  \A i \in 0..TREE_DEPTH :
           Shifted(n + 1)[i] = Shifted(n)[i] \/ Shifted(n + 1)[i] = Shifted(n)[i] + 1
<1> DEFINE S == {i \in 0..TREE_DEPTH :
                   Shifted(n + 1)[i] = Shifted(n)[i] \/ Shifted(n + 1)[i] = Shifted(n)[i] + 1}
<1>1. 0 \in S
  BY ShiftedDef, TreeAssumption
<1>2. ASSUME NEW i \in Level, i \in S PROVE i + 1 \in S
  <2>1. i \in 0..TREE_DEPTH /\ i + 1 \in 0..TREE_DEPTH
    BY TreeAssumption DEF Level
  <2>2. Shifted(n)[i] \in Nat /\ Shifted(n + 1)[i] \in Nat
    BY <2>1, ShiftedNat
  <2>3. Shifted(n)[i + 1] = Shifted(n)[i] \div 2 /\ Shifted(n + 1)[i + 1] = Shifted(n + 1)[i] \div 2
    BY ShiftedDef
  <2>. QED
    BY <1>2, <2>1, <2>2, <2>3, HalfNext
<1>3. 0..TREE_DEPTH \subseteq S
  <2> HIDE DEF S
  <2>. QED
    BY <1>1, <1>2, Levels
<1>. QED
  BY <1>3

-----------------------------------------------------------------------------
(***************************************************************************)
(* Paths.                                                                  *)
(***************************************************************************)

\* Of two children, the one on the left has the even index.
LEMMA Sibling ==
  ASSUME NEW k \in Nat
  PROVE  /\ k % 2 = 0 => k = 2 * (k \div 2) /\ k + 1 = 2 * (k \div 2) + 1
         /\ k % 2 # 0 => k - 1 = 2 * (k \div 2) /\ k = 2 * (k \div 2) + 1 /\ k - 1 \in Nat
OBVIOUS

\* A leaf folded up its path reaches the top of the client's tree.
LEMMA FoldReachesTop ==
  ASSUME NEW ls \in Seq(Leaf), NEW index \in Nat, index < Len(ls)
  PROVE  CircuitFold(LeafNode(ls[index + 1]), index, PathAt(ls, index)) =
           Padded(ls, TREE_DEPTH, Shifted(index)[TREE_DEPTH])
<1> DEFINE siblings == PathAt(ls, index)
           s == Shifted(index)
           leaf == LeafNode(ls[index + 1])
<1> HIDE DEF siblings, s, leaf
<1>1. PICK node :
        /\ node[0] = leaf
        /\ \A i \in Level : node[i + 1] = IF Bit(index, i) = 0 THEN Compress(node[i], siblings[i])
                                          ELSE Compress(siblings[i], node[i])
        /\ CircuitFold(leaf, index, siblings) = node[TREE_DEPTH]
  BY FoldDef
<1>2. \A i \in Level : siblings[i] = Padded(ls, i, IF s[i] % 2 = 0 THEN s[i] + 1 ELSE s[i] - 1)
  BY DEF PathAt, Padded, siblings, s
<1>3. \A i \in Level : Bit(index, i) = s[i] % 2
  BY DEF Bit, s
<1>4. s[0] = index /\ \A i \in Level : s[i + 1] = s[i] \div 2
  BY ShiftedDef DEF s
<1>5. \A i \in 0..TREE_DEPTH : s[i] \in Nat
  BY ShiftedNat DEF s
<1> DEFINE S == {i \in 0..TREE_DEPTH : node[i] = Padded(ls, i, s[i])}
<1>6. 0 \in S
  BY <1>1, <1>4, PaddedNodes, TreeAssumption DEF leaf
<1>7. ASSUME NEW i \in Level, i \in S PROVE i + 1 \in S
  <2>1. i \in 0..TREE_DEPTH /\ i + 1 \in 0..TREE_DEPTH
    BY TreeAssumption DEF Level
  <2>2. s[i] \in Nat /\ s[i] \div 2 \in Nat
    BY <1>5, <2>1, Half
  <2>3. Padded(ls, i + 1, s[i + 1]) =
          Compress(Padded(ls, i, 2 * (s[i] \div 2)), Padded(ls, i, 2 * (s[i] \div 2) + 1))
    BY <1>4, <2>2, PaddedNodes
  <2>4. node[i] = Padded(ls, i, s[i])
    BY <1>7
  <2>5. CASE s[i] % 2 = 0
    <3>1. node[i + 1] = Compress(node[i], Padded(ls, i, s[i] + 1))
      BY <1>1, <1>2, <1>3, <2>5
    <3>. QED
      BY <2>1, <2>2, <2>3, <2>4, <2>5, <3>1, Sibling
  <2>6. CASE s[i] % 2 # 0
    <3>1. node[i + 1] = Compress(Padded(ls, i, s[i] - 1), node[i])
      BY <1>1, <1>2, <1>3, <2>6
    <3>. QED
      BY <2>1, <2>2, <2>3, <2>4, <2>6, <3>1, Sibling
  <2>. QED
    BY <2>5, <2>6
<1>8. TREE_DEPTH \in S
  <2> HIDE DEF S
  <2>1. 0..TREE_DEPTH \subseteq S
    BY <1>6, <1>7, Levels
  <2>. QED
    BY <2>1, TreeAssumption
<1>. QED
  BY <1>1, <1>8 DEF siblings, s, leaf

\* The root of a client's copy is what its paths fold to.
LEMMA FoldReachesRoot ==
  ASSUME NEW ls \in Seq(Leaf), NEW index \in Nat, index < Len(ls),
         Shifted(Len(ls))[TREE_DEPTH] = 0
  PROVE  CircuitFold(LeafNode(ls[index + 1]), index, PathAt(ls, index)) = ReplayedRoot(ls)
<1>1. TREE_DEPTH \in 0..TREE_DEPTH /\ Len(ls) \in Nat
  BY TreeAssumption, LenProperties
<1>2. Shifted(index)[TREE_DEPTH] = 0
  BY <1>1, ShiftedMonotone, ShiftedNat
<1>. QED
  BY <1>2, FoldReachesTop, RootIsTop


-----------------------------------------------------------------------------
(***************************************************************************)
(* The contract's insertion.                                               *)
(***************************************************************************)

\* What the contract keeps: where bit i of the next index is set, the complete
\* subtree to the left of it.
FilledInv ==
  \A i \in Level : Bit(next, i) = 1 => filled[i] = Padded(leaves, i, Shifted(next)[i] - 1)

\* A complete subtree is not changed by a later leaf.
LEMMA CompleteStays ==
  ASSUME NEW ls \in Seq(Leaf), NEW l \in Leaf, NEW n \in Nat, n = Len(ls)
  PROVE  \A i \in 0..TREE_DEPTH : \A k \in Nat :
           k < Shifted(n)[i] => Padded(Append(ls, l), i, k) = Padded(ls, i, k)
<1> DEFINE new == Append(ls, l)
           S == {i \in 0..TREE_DEPTH : \A k \in Nat :
                   k < Shifted(n)[i] => Padded(new, i, k) = Padded(ls, i, k)}
<1>0. /\ new \in Seq(Leaf) /\ Len(new) = n + 1 /\ new[n + 1] = l
      /\ \A i \in 1..n : new[i] = ls[i]
  BY AppendProperties
<1> HIDE DEF new
<1>1. 0 \in S
  BY <1>0, ShiftedDef, PaddedNodes, TreeAssumption
<1>2. ASSUME NEW i \in Level, i \in S PROVE i + 1 \in S
  <2>1. i \in 0..TREE_DEPTH /\ i + 1 \in 0..TREE_DEPTH
    BY TreeAssumption DEF Level
  <2>2. ASSUME NEW k \in Nat, k < Shifted(n)[i + 1]
        PROVE  Padded(new, i + 1, k) = Padded(ls, i + 1, k)
    <3>1. Shifted(n)[i] \in Nat /\ k < Shifted(n)[i] \div 2
      BY <2>1, <2>2, ShiftedNat, ShiftedDef
    <3>2. ASSUME NEW s \in Nat, k < s \div 2
          PROVE  2 * k < s /\ 2 * k + 1 < s /\ 2 * k \in Nat /\ 2 * k + 1 \in Nat
      BY <3>2
    <3>3. Padded(new, i, 2 * k) = Padded(ls, i, 2 * k)
          /\ Padded(new, i, 2 * k + 1) = Padded(ls, i, 2 * k + 1)
      BY <1>2, <3>1, <3>2
    <3>. QED
      BY <1>0, <3>3, PaddedNodes
  <2>. QED
    BY <2>1, <2>2
<1>3. 0..TREE_DEPTH \subseteq S
  <2> HIDE DEF S
  <2>. QED
    BY <1>1, <1>2, Levels
<1>. QED
  BY <1>3 DEF new

\* Behind the last leaf all is empty.
LEMMA EmptyBehind ==
  ASSUME NEW ls \in Seq(Leaf), NEW n \in Nat, Len(ls) = n + 1
  PROVE  \A i \in 0..TREE_DEPTH : Padded(ls, i, Shifted(n)[i] + 1) = Zeros[i]
<1> DEFINE layers == BuildLayers(ls)
           S == {i \in 0..TREE_DEPTH : Len(layers[i]) = Shifted(n)[i] + 1}
<1>1. /\ Len(layers[0]) = n + 1
      /\ \A i \in Level : Len(layers[i + 1]) = (Len(layers[i]) + 1) \div 2
  BY LayerLengths
<1>2. \A i, k : Padded(ls, i, k) = IF k < Len(layers[i]) THEN layers[i][k + 1] ELSE Zeros[i]
  BY DEF Padded
<1> HIDE DEF layers
<1>3. 0 \in S
  BY <1>1, ShiftedDef, TreeAssumption
<1>4. ASSUME NEW i \in Level, i \in S PROVE i + 1 \in S
  <2>1. i \in 0..TREE_DEPTH /\ i + 1 \in 0..TREE_DEPTH
    BY TreeAssumption DEF Level
  <2>2. \A s \in Nat : ((s + 1) + 1) \div 2 = (s \div 2) + 1
    OBVIOUS
  <2>3. Shifted(n)[i] \in Nat /\ Shifted(n)[i + 1] = Shifted(n)[i] \div 2
    BY <2>1, ShiftedNat, ShiftedDef
  <2>. QED
    BY <1>1, <1>4, <2>1, <2>2, <2>3
<1>5. 0..TREE_DEPTH \subseteq S
  <2> HIDE DEF S
  <2>. QED
    BY <1>3, <1>4, Levels
<1>. QED
  BY <1>2, <1>5, ShiftedNat

\* The nodes that tree_insert computes are those above the new leaf.
LEMMA AncestorsArePadded ==
  ASSUME leaves \in Seq(Leaf), next = Len(leaves), FilledInv, NEW l \in Leaf,
         NEW cur, cur = Ancestors(LeafNode(l), next, filled)
  PROVE  \A i \in 0..TREE_DEPTH : cur[i] = Padded(Append(leaves, l), i, Shifted(next)[i])
<1> DEFINE new == Append(leaves, l)
           s == Shifted(next)
           S == {i \in 0..TREE_DEPTH : cur[i] = Padded(new, i, s[i])}
<1>1. /\ next \in Nat /\ new \in Seq(Leaf) /\ Len(new) = next + 1 /\ new[next + 1] = l
  BY AppendProperties, LenProperties
<1>2. cur[0] = LeafNode(l)
      /\ \A i \in Level : cur[i + 1] = IF Bit(next, i) = 0 THEN Compress(cur[i], Zeros[i])
                                       ELSE Compress(filled[i], cur[i])
  BY AncestorsDef
<1>3. s[0] = next /\ (\A i \in Level : s[i + 1] = s[i] \div 2)
      /\ \A i \in 0..TREE_DEPTH : s[i] \in Nat
  BY <1>1, ShiftedDef, ShiftedNat
<1>4. \A i \in Level : Bit(next, i) = s[i] % 2
  BY DEF Bit
<1>5. \A i \in 0..TREE_DEPTH : Padded(new, i, s[i] + 1) = Zeros[i]
  BY <1>1, EmptyBehind
<1>6. \A i \in 0..TREE_DEPTH : \A k \in Nat : k < s[i] => Padded(new, i, k) = Padded(leaves, i, k)
  BY <1>1, CompleteStays
<1>7. \A i \in Level : s[i] % 2 = 1 => filled[i] = Padded(leaves, i, s[i] - 1)
  BY <1>4 DEF FilledInv
<1> HIDE DEF new, s
<1>8. 0 \in S
  BY <1>1, <1>2, <1>3, PaddedNodes, TreeAssumption
<1>9. ASSUME NEW i \in Level, i \in S PROVE i + 1 \in S
  <2>1. i \in 0..TREE_DEPTH /\ i + 1 \in 0..TREE_DEPTH
    BY TreeAssumption DEF Level
  <2>2. s[i] \in Nat /\ s[i] \div 2 \in Nat /\ s[i] % 2 \in {0, 1}
    BY <1>3, <2>1, Half
  <2>3. Padded(new, i + 1, s[i + 1]) =
          Compress(Padded(new, i, 2 * (s[i] \div 2)), Padded(new, i, 2 * (s[i] \div 2) + 1))
    BY <1>1, <1>3, <2>2, PaddedNodes
  <2>4. cur[i] = Padded(new, i, s[i])
    BY <1>9
  <2>5. CASE s[i] % 2 = 0
    <3>1. cur[i + 1] = Compress(cur[i], Padded(new, i, s[i] + 1))
      BY <1>2, <1>4, <1>5, <2>1, <2>5
    <3>. QED
      BY <2>1, <2>2, <2>3, <2>4, <2>5, <3>1, Sibling
  <2>6. CASE s[i] % 2 = 1
    <3>1. s[i] - 1 \in Nat /\ s[i] - 1 < s[i]
      BY <2>2, <2>6, Sibling
    <3>2. cur[i + 1] = Compress(Padded(new, i, s[i] - 1), cur[i])
      BY <1>2, <1>4, <1>6, <1>7, <2>1, <2>6, <3>1
    <3>. QED
      BY <2>1, <2>2, <2>3, <2>4, <2>6, <3>2, Sibling
  <2>. QED
    BY <2>2, <2>5, <2>6
<1>10. 0..TREE_DEPTH \subseteq S
  <2> HIDE DEF S
  <2>. QED
    BY <1>8, <1>9, Levels
<1>. QED
  BY <1>10 DEF new, s

\* The contract's record of complete subtrees is kept up to date.
LEMMA InsertFilled ==
  ASSUME leaves \in Seq(Leaf), next = Len(leaves), FilledInv, NEW l \in Leaf, TreeInsert(l)
  PROVE  FilledInv'
<1> DEFINE cur == Ancestors(LeafNode(l), next, filled)
           s == Shifted(next)
           t == Shifted(next + 1)
<1>1. next \in Nat /\ next + 1 \in Nat
  BY LenProperties
<1>2. \A i \in 0..TREE_DEPTH : s[i] \in Nat /\ t[i] \in Nat /\ (t[i] = s[i] \/ t[i] = s[i] + 1)
  BY <1>1, ShiftedNat, ShiftedNext
<1>3. \A i \in 0..TREE_DEPTH : cur[i] = Padded(leaves', i, s[i])
  BY AncestorsArePadded DEF TreeInsert
<1>4. \A i \in 0..TREE_DEPTH : \A k \in Nat :
        k < s[i] => Padded(leaves', i, k) = Padded(leaves, i, k)
  BY <1>1, CompleteStays DEF TreeInsert
<1>5. \A i \in Level : filled'[i] = IF s[i] % 2 = 0 THEN cur[i] ELSE filled[i]
  BY DEF TreeInsert, Bit
<1>6. \A i \in Level : s[i] % 2 = 1 => filled[i] = Padded(leaves, i, s[i] - 1)
  BY DEF FilledInv, Bit
<1>7. next' = next + 1
  BY DEF TreeInsert
<1> HIDE DEF cur, s, t
<1>8. ASSUME NEW i \in Level, t[i] % 2 = 1 PROVE filled'[i] = Padded(leaves', i, t[i] - 1)
  <2>1. i \in 0..TREE_DEPTH
    BY TreeAssumption DEF Level
  <2>2. s[i] \in Nat /\ t[i] \in Nat /\ (t[i] = s[i] \/ t[i] = s[i] + 1)
    BY <1>2, <2>1
  <2>3. CASE s[i] % 2 = 0
    <3>1. t[i] - 1 = s[i]
      BY <1>8, <2>2, <2>3
    <3>. QED
      BY <1>3, <1>5, <2>1, <2>3, <3>1
  <2>4. CASE s[i] % 2 # 0
    <3>1. s[i] % 2 = 1 /\ t[i] = s[i] /\ s[i] - 1 \in Nat /\ s[i] - 1 < s[i]
      BY <1>8, <2>2, <2>4
    <3>. QED
      BY <1>4, <1>5, <1>6, <2>1, <2>4, <3>1
  <2>. QED
    BY <2>3, <2>4
<1>. QED
  BY <1>7, <1>8 DEF FilledInv, Bit, t


-----------------------------------------------------------------------------
(***************************************************************************)
(* The tree as it grows.                                                   *)
(***************************************************************************)

\* Where the tree and the client are.
TreeType ==
  /\ leaves \in Seq(Leaf) /\ next = Len(leaves) /\ Shifted(next)[TREE_DEPTH] = 0
  /\ replayed \in 0..Len(leaves)
  /\ \E S : witnesses \in Seq(S)

\* The contract knows the root of every copy that a client may have.
KnownRoots == \A m \in 1..Len(leaves) : ReplayedRoot(SubSeq(leaves, 1, m)) \in roots

\* The inductive invariant.
TreeInv == TreeType /\ FilledInv /\ RootsAgree /\ KnownRoots /\ StaleProofsAccepted

\* The empty tree.
LEMMA TreeInitially == TreeInit => TreeInv
<1> SUFFICES ASSUME TreeInit PROVE TreeInv
  OBVIOUS
<1>1. leaves = <<>> /\ leaves \in Seq(Leaf) /\ Len(leaves) = 0 /\ witnesses = <<>>
  BY EmptySeq DEF TreeInit
<1>2. next = 0 /\ replayed = 0 /\ root = ReplayedRoot(leaves)
  BY <1>1 DEF TreeInit, ReplayedRoot
<1>3. \A i \in 0..TREE_DEPTH : Shifted(0)[i] = 0
  <2> DEFINE S == {i \in 0..TREE_DEPTH : Shifted(0)[i] = 0}
  <2>1. 0 \in S
    BY ShiftedDef, TreeAssumption
  <2>2. ASSUME NEW i \in Level, i \in S PROVE i + 1 \in S
    BY <2>2, ShiftedDef, TreeAssumption DEF Level
  <2>3. 0..TREE_DEPTH \subseteq S
    <3> HIDE DEF S
    <3>. QED
      BY <2>1, <2>2, Levels
  <2>. QED
    BY <2>3
<1>4. TreeType
  <2>1. witnesses \in Seq({})
    BY <1>1, EmptySeq
  <2>. QED
    BY <1>1, <1>2, <1>3, <2>1, TreeAssumption DEF TreeType
<1>5. FilledInv
  BY <1>2, <1>3, TreeAssumption DEF FilledInv, Bit, Level
<1>6. KnownRoots
  BY <1>1 DEF KnownRoots
<1>7. StaleProofsAccepted
  BY <1>1 DEF StaleProofsAccepted
<1>. QED
  BY <1>2, <1>4, <1>5, <1>6, <1>7 DEF TreeInv, RootsAgree

\* An insertion gives the root of the longer tree, and forgets no root.
LEMMA InsertKeepsTree == ASSUME TreeInv, NEW l \in Leaf, TreeInsert(l) PROVE TreeInv'
<1>1. leaves \in Seq(Leaf) /\ next = Len(leaves) /\ next \in Nat /\ FilledInv
  BY LenProperties DEF TreeInv, TreeType
<1>2. /\ leaves' = Append(leaves, l) /\ leaves' \in Seq(Leaf) /\ Len(leaves') = next + 1
      /\ leaves'[next + 1] = l /\ \A i \in 1..next : leaves'[i] = leaves[i]
  BY <1>1, AppendProperties DEF TreeInsert
<1>3. next' = next + 1 /\ UNCHANGED <<replayed, witnesses>> /\ Shifted(next')[TREE_DEPTH] = 0
  BY DEF TreeInsert
<1>4. TreeType'
  BY <1>1, <1>2, <1>3 DEF TreeInv, TreeType
<1>5. FilledInv'
  BY <1>1, InsertFilled
<1>6. RootsAgree'
  <2> DEFINE cur == Ancestors(LeafNode(l), next, filled)
  <2>1. root' = cur[TREE_DEPTH]
    BY DEF TreeInsert
  <2>2. cur[TREE_DEPTH] = Padded(leaves', TREE_DEPTH, Shifted(next)[TREE_DEPTH])
    BY <1>1, <1>2, AncestorsArePadded, TreeAssumption
  <2>3. Shifted(next)[TREE_DEPTH] = 0
    BY DEF TreeInv, TreeType
  <2>. QED
    BY <1>2, <2>1, <2>2, <2>3, RootIsTop DEF RootsAgree
<1>7. roots \subseteq roots' /\ root' \in roots'
  BY DEF TreeInsert, Accept
<1>8. KnownRoots'
  <2> SUFFICES ASSUME NEW m \in 1..(next + 1)
               PROVE  ReplayedRoot(SubSeq(leaves', 1, m)) \in roots'
    BY <1>2 DEF KnownRoots
  <2>1. CASE m \in 1..next
    <3>1. SubSeq(leaves', 1, m) = SubSeq(leaves, 1, m)
      BY <1>1, <1>2, <2>1
    <3>. QED
      BY <1>1, <1>7, <2>1, <3>1 DEF TreeInv, KnownRoots
  <2>2. CASE m = next + 1
    <3>1. SubSeq(leaves', 1, m) = leaves'
      BY <1>2, <2>2, SubSeqFull
    <3>. QED
      BY <1>6, <1>7, <3>1 DEF RootsAgree
  <2>. QED
    BY <1>1, <2>1, <2>2
<1>9. StaleProofsAccepted'
  BY <1>3, <1>7 DEF TreeInv, StaleProofsAccepted, Accepted
<1>. QED
  BY <1>4, <1>5, <1>6, <1>8, <1>9 DEF TreeInv

\* A witness of a copy that lags behind folds to a root that the contract knows.
LEMMA WitnessAccepted ==
  ASSUME TreeInv, NEW k \in 1..Len(leaves), TakeWitness(k) PROVE TreeInv'
<1> DEFINE copy == SubSeq(leaves, 1, replayed)
           w == [leaf |-> leaves[k], index |-> k - 1, root |-> ReplayedRoot(copy),
                 siblings |-> PathAt(copy, k - 1)]
<1>1. /\ leaves \in Seq(Leaf) /\ next = Len(leaves) /\ next \in Nat
      /\ k \in 1..replayed /\ replayed \in 1..next
  BY LenProperties DEF TreeInv, TreeType, TakeWitness
<1>2. /\ copy \in Seq(Leaf) /\ Len(copy) = replayed /\ copy[k] = leaves[k]
  BY <1>1
<1>3. Shifted(replayed)[TREE_DEPTH] = 0
  <2>1. TREE_DEPTH \in 0..TREE_DEPTH /\ replayed \in Nat /\ replayed <= next
    BY <1>1, TreeAssumption
  <2>. QED
    BY <1>1, <2>1, ShiftedMonotone, ShiftedNat DEF TreeInv, TreeType
<1>4. k - 1 \in Nat /\ k - 1 < replayed /\ (k - 1) + 1 = k
  BY <1>1
<1>5. CircuitFold(LeafNode(w.leaf), w.index, w.siblings) = w.root
  <2> HIDE DEF copy
  <2>1. CircuitFold(LeafNode(copy[(k - 1) + 1]), k - 1, PathAt(copy, k - 1)) = ReplayedRoot(copy)
    BY <1>2, <1>3, <1>4, FoldReachesRoot
  <2>. QED
    BY <1>2, <1>4, <2>1
<1>6. Accepted(w)
  BY <1>1, <1>5 DEF Accepted, TreeInv, KnownRoots
<1>7. witnesses' = Append(witnesses, w) /\ UNCHANGED <<leaves, filled, next, root, roots, replayed>>
  BY DEF TakeWitness
<1> HIDE DEF w
<1>8. PICK S : witnesses \in Seq(S)
  BY DEF TreeInv, TreeType
<1>9. /\ witnesses' \in Seq(S \cup {w})
      /\ \A j \in DOMAIN witnesses' :
           witnesses'[j] = w \/ \E i \in DOMAIN witnesses : witnesses'[j] = witnesses[i]
  <2>1. witnesses \in Seq(S \cup {w}) /\ w \in S \cup {w}
    BY <1>8
  <2>2. DOMAIN witnesses' = 1..(Len(witnesses) + 1) /\ DOMAIN witnesses = 1..Len(witnesses)
        /\ Len(witnesses) \in Nat
    BY <1>7, <2>1, AppendProperties, LenProperties
  <2>. QED
    BY <1>7, <2>1, <2>2, AppendProperties
<1>10. StaleProofsAccepted'
  <2>1. \A i \in DOMAIN witnesses : Accepted(witnesses[i])
    BY DEF TreeInv, StaleProofsAccepted
  <2>2. \A j \in DOMAIN witnesses' : Accepted(witnesses'[j])
    BY <1>6, <1>9, <2>1
  <2>. QED
    BY <1>7, <2>2 DEF StaleProofsAccepted, Accepted
<1>. QED
  BY <1>7, <1>9, <1>10 DEF TreeInv, TreeType, FilledInv, RootsAgree, KnownRoots

\* A decision of the contract takes a proof out of flight.
LEMMA SubmitKeepsTree == ASSUME TreeInv, SubmitProof PROVE TreeInv'
<1>1. PICK S : witnesses \in Seq(S)
  BY DEF TreeInv, TreeType
<1>2. witnesses # <<>> /\ witnesses' = Tail(witnesses)
      /\ UNCHANGED <<leaves, filled, next, root, roots, replayed>>
  BY DEF SubmitProof
<1>3. witnesses' \in Seq(S)
      /\ \A j \in DOMAIN witnesses' : j + 1 \in DOMAIN witnesses /\ witnesses'[j] = witnesses[j + 1]
  BY <1>1, <1>2, HeadTailProperties, LenProperties
<1>4. StaleProofsAccepted'
  <2>1. \A i \in DOMAIN witnesses : Accepted(witnesses[i])
    BY DEF TreeInv, StaleProofsAccepted
  <2>2. \A j \in DOMAIN witnesses' : Accepted(witnesses'[j])
    BY <1>3, <2>1
  <2>. QED
    BY <1>2, <2>2 DEF StaleProofsAccepted, Accepted
<1>. QED
  BY <1>2, <1>3, <1>4 DEF TreeInv, TreeType, FilledInv, RootsAgree, KnownRoots

\* Every step keeps the invariant.
LEMMA TreeStep == ASSUME TreeInv, [TreeNext]_treeVars PROVE TreeInv'
<1>1. ASSUME NEW n \in 1..Len(leaves), Ingest(n) PROVE TreeInv'
  <2>1. n \in 0..Len(leaves)
    OBVIOUS
  <2>. QED
    BY <1>1, <2>1
    DEF Ingest, TreeInv, TreeType, FilledInv, RootsAgree, KnownRoots, StaleProofsAccepted, Accepted
<1>2. CASE UNCHANGED treeVars
  BY <1>2
  DEF treeVars, TreeInv, TreeType, FilledInv, RootsAgree, KnownRoots, StaleProofsAccepted, Accepted
<1>. QED
  BY <1>1, <1>2, InsertKeepsTree, WitnessAccepted, SubmitKeepsTree DEF TreeNext

(***************************************************************************)
(* The contract's incremental root is the one that a client rebuilds from  *)
(* the events, in a tree of any depth and after any insertions             *)
(* (tree_insert against NoteTree.root).                                    *)
(***************************************************************************)
THEOREM RootsStayAgreed == TreeSpec => []RootsAgree
<1>1. TreeInv => RootsAgree
  BY DEF TreeInv
<1>. QED
  BY <1>1, TreeInitially, TreeStep, PTL DEF TreeSpec

(***************************************************************************)
(* A proof that was made from a copy that lags behind is accepted whenever *)
(* it is submitted (noteProofAt against fold_root and UnknownRoot).        *)
(***************************************************************************)
THEOREM StaleProofsStayAccepted == TreeSpec => []StaleProofsAccepted
<1>1. TreeInv => StaleProofsAccepted
  BY DEF TreeInv
<1>. QED
  BY <1>1, TreeInitially, TreeStep, PTL DEF TreeSpec
-----------------------------------------------------------------------------
(***************************************************************************)
(* The event reader.  MissesOnlyForgotten is not inductive: between the    *)
(* answer of the node and the cursor that follows it, the history is ahead *)
(* of its cursor, and what comes next is in the page that is being read.   *)
(* The invariant says how history, page and cursor fit at each step, that  *)
(* only the caller at the head of the queue is between two of them, and    *)
(* that a read without a cursor begins where nothing is missed: at or      *)
(* before the start ledger, or among the ledgers that the node forgot.     *)
(* Its parts are stated of the events, the oldest ledger and the closed    *)
(* one, so that they carry over to the next state.                         *)
(***************************************************************************)

\* Read up to cursor, the history misses only what is forgotten.
Misses(events, gone, cursor, acc) ==
  /\ \A i, j \in DOMAIN acc : i < j => acc[i] < acc[j]
  /\ ToSet(acc) \subseteq events
  /\ \A e \in events : e <= cursor => e \in ToSet(acc) \/ e < gone

\* Between two pages the history ends at or before its cursor.
Settled(events, gone, last, cursor, acc) ==
  /\ acc \in Seq(Nat) /\ cursor \in 0..last
  /\ Misses(events, gone, cursor, acc)
  /\ \A i \in DOMAIN acc : acc[i] <= cursor

\* A page goes on after the history, and the two of them are complete.
Continues(events, gone, last, r, acc) ==
  /\ r.upTo \in 1..last
  /\ \A i, j \in DOMAIN r.page : i < j => r.page[i] < r.page[j]
  /\ ToSet(r.page) \subseteq events
  /\ \A i \in DOMAIN acc : acc[i] <= r.upTo
  /\ \A j \in DOMAIN r.page : r.page[j] <= r.upTo
  /\ \A i \in DOMAIN acc, j \in DOMAIN r.page : acc[i] < r.page[j]
  /\ \A e \in events : e <= r.upTo => e \in ToSet(acc) \/ e \in ToSet(r.page) \/ e < gone

Readers == [cursor : Nat, arrays : Seq(Seq(Nat)), seen : SUBSET Nat]

Memory(events, gone, last, st) ==
  /\ st.arrays # <<>> /\ st.cursor \in 0..last
  /\ st.seen \subseteq ToSet(Last(st.arrays))
  /\ Misses(events, gone, st.cursor, Last(st.arrays))

\* What a call is made of; only its tree can be anything.
Stages == {"idle", "load", "fetch", "page", "validate", "fatal", "build", "root"}
Calls(tree) ==
  [at : Stages, next : {"", "events", "fills"}, mode : {"", "read", "clamped", "rebuilt"},
   start : Nat, page : Seq(Nat), full : BOOLEAN, upTo : Nat, array : Nat, tree : {tree}]

Busy(r) == r.at \in {"fetch", "page", "validate", "fatal"}

\* A read from the start ledger, or from an older one than the node has.
Early(gone, r) == r.start # 0 /\ (r.start <= Start \/ r.start <= gone)

NodeInv ==
  /\ closed \in Nat /\ oldest \in Nat \ {0} /\ head \in Nat
  /\ oldest <= head /\ head <= closed
  /\ emitted \subseteq Start..closed

ReaderType ==
  /\ cache \in [cursor : Nat, acc : Seq(Nat), fatal : BOOLEAN]
  /\ reader \in [Page -> Readers]
  /\ queue \in [Page -> Seq(Caller)]
  /\ call = [c \in Caller |-> call[c]]

CacheInv == Settled(emitted, oldest, closed, cache.cursor, cache.acc)

Paging(p) == \E c \in Caller : PageOf[c] = p /\ At(c, "page")

MemoryInv(p) ==
  reader[p] # NoReader =>
    /\ Memory(emitted, oldest, closed, reader[p])
    /\ Settled(emitted, oldest, closed, reader[p].cursor, Acc(p)) \/ Paging(p)

CallInv(c) ==
  /\ call[c] \in Calls(call[c].tree)
  /\ Busy(call[c]) => Serving(c) /\ reader[PageOf[c]] # NoReader
  /\ call[c].at \in {"fetch", "page"} => Early(oldest, call[c])
  /\ At(c, "page") => Continues(emitted, oldest, closed, call[c], Acc(PageOf[c]))

EventInv ==
  /\ NodeInv /\ ReaderType /\ CacheInv
  /\ \A p \in Page : MemoryInv(p)
  /\ \A c \in Caller : CallInv(c)

-----------------------------------------------------------------------------
\* The network has gone on: what is new is past the last closed ledger.
Grows(events, gone, last, events2, gone2, last2) ==
  /\ events \subseteq events2
  /\ \A e \in events2 : e \in events \/ e > last
  /\ events2 \subseteq Nat /\ gone <= gone2 /\ last <= last2

LEMMA MissesGrow ==
  ASSUME NEW E, NEW F, NEW o \in Nat, NEW q \in Nat, NEW n \in Nat, NEW m \in Nat,
         Grows(E, o, n, F, q, m), NEW k \in 0..n, NEW s, Misses(E, o, k, s)
  PROVE  Misses(F, q, k, s)
<1>1. ASSUME NEW e \in F, e <= k PROVE e \in ToSet(s) \/ e < q
  <2>1. e \in Nat /\ e \in E
    BY <1>1 DEF Grows
  <2>2. e \in ToSet(s) \/ e < o
    BY <2>1, <1>1 DEF Misses
  <2> QED
    BY <2>1, <2>2 DEF Grows
<1> QED
  BY <1>1 DEF Grows, Misses

LEMMA SettledGrow ==
  ASSUME NEW E, NEW F, NEW o \in Nat, NEW q \in Nat, NEW n \in Nat, NEW m \in Nat,
         Grows(E, o, n, F, q, m), NEW k, NEW s, Settled(E, o, n, k, s)
  PROVE  Settled(F, q, m, k, s)
<1>1. k \in 0..n /\ Misses(E, o, k, s)
  BY DEF Settled
<1>2. Misses(F, q, k, s)
  BY <1>1, MissesGrow
<1> QED
  BY <1>1, <1>2 DEF Settled, Grows

LEMMA MemoryGrow ==
  ASSUME NEW E, NEW F, NEW o \in Nat, NEW q \in Nat, NEW n \in Nat, NEW m \in Nat,
         Grows(E, o, n, F, q, m), NEW st, Memory(E, o, n, st)
  PROVE  Memory(F, q, m, st)
<1>1. st.cursor \in 0..n /\ Misses(E, o, st.cursor, Last(st.arrays))
  BY DEF Memory
<1>2. Misses(F, q, st.cursor, Last(st.arrays))
  BY <1>1, MissesGrow
<1> QED
  BY <1>1, <1>2 DEF Memory, Grows

LEMMA ContinuesGrow ==
  ASSUME NEW E, NEW F, NEW o \in Nat, NEW q \in Nat, NEW n \in Nat, NEW m \in Nat,
         Grows(E, o, n, F, q, m), NEW r, NEW s, Continues(E, o, n, r, s)
  PROVE  Continues(F, q, m, r, s)
<1>1. ASSUME NEW e \in F, e <= r.upTo PROVE e \in ToSet(s) \/ e \in ToSet(r.page) \/ e < q
  <2>1. r.upTo \in 1..n
    BY DEF Continues
  <2>2. e \in Nat /\ e \in E
    BY <2>1, <1>1 DEF Grows
  <2>3. e \in ToSet(s) \/ e \in ToSet(r.page) \/ e < o
    BY <2>2, <1>1 DEF Continues
  <2> QED
    BY <2>2, <2>3 DEF Grows
<1>2. r.upTo \in 1..m
  <2>1. r.upTo \in 1..n /\ n <= m
    BY DEF Grows, Continues
  <2> QED
    BY <2>1
<1>3. ToSet(r.page) \subseteq F
  <2>1. ToSet(r.page) \subseteq E /\ E \subseteq F
    BY DEF Grows, Continues
  <2> QED
    BY <2>1
<1> QED
  BY <1>1, <1>2, <1>3 DEF Continues

\* What an answer from..top has that comes after the cursor.
Answered(events, cursor, from, top) ==
  {e \in events : e \in from..top /\ ~(cursor # NoCursor /\ e = from)}

\* Read r of the history has fetched a page and become r2: it follows a settled
\* history, or the empty one of a read that begins early enough.
Fetched(events, gone, last, cursor, acc, r, from, top, page, r2) ==
  /\ gone \in Nat /\ last \in Nat /\ events \subseteq Start..last
  /\ Settled(events, gone, last, cursor, acc)
  /\ r.start \in Nat /\ Early(gone, r)
  /\ from = (IF cursor # NoCursor THEN cursor ELSE r.start) /\ from <= top /\ top \in 1..last
  /\ page \in FirstPages(Answered(events, cursor, from, top))
  /\ r2.page = page
  /\ r2.upTo = (IF Len(page) = PageSize THEN Last(page) ELSE top)

LEMMA FetchContinues ==
  ASSUME NEW o, NEW n, NEW E, NEW k, NEW s, NEW r, NEW from, NEW top, NEW page, NEW r2,
         Fetched(E, o, n, k, s, r, from, top, page, r2)
  PROVE  page \in Seq(Nat) /\ r2.upTo \in Nat /\ Continues(E, o, n, r2, s)
<1> DEFINE found == Answered(E, k, from, top)
<1>0. /\ o \in Nat /\ n \in Nat /\ E \subseteq Start..n
      /\ Settled(E, o, n, k, s)
      /\ r.start \in Nat /\ Early(o, r)
      /\ from = (IF k # NoCursor THEN k ELSE r.start) /\ from <= top /\ top \in 1..n
      /\ page \in FirstPages(found)
      /\ r2.page = page
      /\ r2.upTo = (IF Len(page) = PageSize THEN Last(page) ELSE top)
  BY DEF Fetched
<1>f. found = Answered(E, k, from, top)
  OBVIOUS
<1> HIDE DEF found
<1> USE <1>0, <1>f
<1>1. PICK z \in 0..PageSize : page \in [1..z -> found]
  BY DEF FirstPages
<1>2. /\ \A i, j \in DOMAIN page : i < j => page[i] < page[j]
      /\ \A e \in found \ ToSet(page) :
           Len(page) = PageSize /\ \A i \in DOMAIN page : page[i] < e
  BY DEF FirstPages
<1>3. /\ PageSize \in Nat \ {0} /\ Start \in Nat \ {0, 1} /\ z \in Nat
  BY <1>1, EventAssumption
<1>4. found \subseteq E /\ found \subseteq Nat /\ found \subseteq from..top
  <2>1. found \subseteq E /\ E \subseteq Nat
    BY <1>3 DEF Answered
  <2> QED
    BY <2>1 DEF Answered
<1>5. page \in Seq(Nat) /\ Len(page) = z /\ DOMAIN page = 1..z
  <2>1. page \in [1..z -> Nat]
    BY <1>1, <1>4
  <2>2. page \in Seq(Nat)
    BY <2>1, <1>3
  <2> QED
    BY <2>1, <2>2, <1>3
<1>6. \A i \in DOMAIN page : page[i] \in found
  BY <1>1, <1>5
<1>7. /\ k \in 0..n /\ s \in Seq(Nat) /\ Misses(E, o, k, s)
      /\ \A i \in DOMAIN s : s[i] <= k
  BY DEF Settled
<1>8. \A i \in DOMAIN s : s[i] \in E /\ s[i] \in Nat /\ k # NoCursor
  BY <1>7, <1>3 DEF Misses, ToSet, NoCursor
<1>9. \A j \in DOMAIN page : page[j] \in Nat /\ page[j] <= top /\ page[j] > k /\ page[j] \in E
  <2>1. TAKE j \in DOMAIN page
  <2>2. page[j] \in found
    BY <1>6
  <2>3. /\ page[j] \in Nat /\ page[j] \in E /\ page[j] \in from..top
        /\ ~(k # NoCursor /\ page[j] = from)
    BY <2>2, <1>4 DEF Answered
  <2>4. CASE k # NoCursor
    BY <2>3, <2>4, <1>7
  <2>5. CASE k = NoCursor
    BY <2>3, <2>5, <1>3 DEF NoCursor
  <2> QED
    BY <2>4, <2>5
<1>10. r2.upTo \in 1..n /\ r2.upTo <= top /\ \A j \in DOMAIN page : page[j] <= r2.upTo
  <2>1. CASE Len(page) = PageSize
    <3>1. r2.upTo = page[z] /\ z \in DOMAIN page
      BY <2>1, <1>5, <1>3 DEF Last
    <3>2. ASSUME NEW j \in DOMAIN page PROVE page[j] <= page[z]
      <4>1. j = z \/ j < z
        BY <1>5, <1>3
      <4> QED
        BY <4>1, <3>1, <1>2, <1>9
    <3>3. page[z] \in 1..n
      BY <3>1, <1>9, <1>7
    <3> QED
      BY <3>1, <3>2, <3>3, <1>9
  <2>2. CASE Len(page) # PageSize
    BY <2>2, <1>9
  <2> QED
    BY <2>1, <2>2
<1>11. \A i \in DOMAIN s : s[i] <= r2.upTo
  <2>1. CASE Len(page) = PageSize
    <3>1. r2.upTo = page[z] /\ z \in DOMAIN page
      BY <2>1, <1>5, <1>3 DEF Last
    <3> QED
      BY <3>1, <1>9, <1>7, <1>8
  <2>2. CASE Len(page) # PageSize
    <3>1. r2.upTo = top
      BY <2>2
    <3> QED
      BY <3>1, <1>7, <1>8
  <2> QED
    BY <2>1, <2>2
<1>12. ASSUME NEW e \in E, e <= r2.upTo
       PROVE  e \in ToSet(s) \/ e \in ToSet(page) \/ e < o
  <2>1. e \in Nat /\ e >= Start
    BY <1>3
  <2>2. CASE e \in found
    <3>1. SUFFICES ASSUME e \notin ToSet(page) PROVE FALSE
      OBVIOUS
    <3>2. Len(page) = PageSize /\ \A i \in DOMAIN page : page[i] < e
      BY <3>1, <2>2, <1>2
    <3>3. r2.upTo = page[z] /\ z \in DOMAIN page
      BY <3>2, <1>5, <1>3 DEF Last
    <3> QED
      BY <3>2, <3>3, <1>9, <2>1, <1>12
  <2>3. CASE e \notin found /\ k # NoCursor
    <3>1. e <= k
      BY <2>3, <1>12, <1>10, <1>7, <2>1 DEF NoCursor, Answered
    <3> QED
      BY <3>1, <1>7 DEF Misses
  <2>4. CASE e \notin found /\ k = NoCursor
    <3>1. e < r.start
      BY <2>4, <1>12, <1>10, <1>7, <2>1 DEF Answered
    <3> QED
      BY <3>1, <2>1, <1>3 DEF Early
  <2> QED
    BY <2>2, <2>3, <2>4
<1>13. ToSet(page) \subseteq E
  BY <1>9 DEF ToSet
<1>14. \A i \in DOMAIN s, j \in DOMAIN page : s[i] < page[j]
  BY <1>9, <1>7, <1>8
<1> QED
  BY <1>2, <1>5, <1>10, <1>11, <1>12, <1>13, <1>14, <1>9 DEF Continues

\* Read r takes the next event of its page and becomes r2.
Ingests(events, gone, last, cursor, acc, r, r2) ==
  /\ gone \in Nat /\ last \in Nat /\ cursor \in Nat /\ events \subseteq Nat
  /\ r.page \in Seq(Nat) /\ r.page # <<>> /\ acc \in Seq(Nat)
  /\ Continues(events, gone, last, r, acc) /\ Misses(events, gone, cursor, acc)
  /\ r2.page = Tail(r.page) /\ r2.upTo = r.upTo

LEMMA IngestContinues ==
  ASSUME NEW E, NEW o, NEW n, NEW k, NEW s, NEW r, NEW r2, Ingests(E, o, n, k, s, r, r2)
  PROVE  /\ Head(r.page) \in Nat /\ Head(r.page) \notin ToSet(s)
         /\ Append(s, Head(r.page)) \in Seq(Nat)
         /\ ToSet(s) \subseteq ToSet(Append(s, Head(r.page)))
         /\ Head(r.page) \in ToSet(Append(s, Head(r.page)))
         /\ Misses(E, o, k, Append(s, Head(r.page)))
         /\ Continues(E, o, n, r2, Append(s, Head(r.page)))
<1> DEFINE full == r.page
           e == Head(full)
           t == Append(s, e)
           page == Tail(full)
           len == Len(full)
<1>0. /\ r.page = full /\ full \in Seq(Nat) /\ full # <<>> /\ r2.page = page
      /\ o \in Nat /\ n \in Nat /\ k \in Nat /\ E \subseteq Nat /\ s \in Seq(Nat)
      /\ Continues(E, o, n, r, s) /\ Misses(E, o, k, s) /\ r2.upTo = r.upTo
  BY DEF Ingests
<1> HIDE DEF full
<1> USE <1>0
<1>1. /\ e = full[1] /\ len \in Nat /\ len >= 1 /\ DOMAIN full = 1..len /\ e \in Nat
      /\ page \in Seq(Nat) /\ Len(page) = len - 1 /\ DOMAIN page = 1..(len - 1)
      /\ \A j \in 1..(len - 1) : page[j] = full[j + 1]
  <2>1. len \in Nat /\ DOMAIN full = 1..len /\ len # 0
    BY <1>0, LenProperties, EmptySeq
  <2> QED
    BY <1>0, <2>1, HeadTailProperties, LenProperties
<1>2. /\ t \in Seq(Nat) /\ Len(t) = Len(s) + 1 /\ DOMAIN t = 1..(Len(s) + 1)
      /\ DOMAIN s = 1..Len(s) /\ Len(s) \in Nat
      /\ \A i \in DOMAIN s : t[i] = s[i]
      /\ t[Len(s) + 1] = e
  BY <1>1, AppendProperties, LenProperties
<1> HIDE DEF e, t, page, len
<1>3. /\ \A i, j \in DOMAIN full : i < j => full[i] < full[j]
      /\ ToSet(full) \subseteq E
      /\ r.upTo \in 1..n
      /\ \A i \in DOMAIN s : s[i] <= r.upTo
      /\ \A j \in DOMAIN full : full[j] <= r.upTo
      /\ \A i \in DOMAIN s, j \in DOMAIN full : s[i] < full[j]
      /\ \A x \in E : x <= r.upTo => x \in ToSet(s) \/ x \in ToSet(full) \/ x < o
  BY <1>0 DEF Continues
<1>4. ToSet(t) = ToSet(s) \cup {e}
  <2>1. \A i \in DOMAIN t : t[i] \in ToSet(s) \cup {e}
    <3>1. TAKE i \in DOMAIN t
    <3>2. CASE i \in DOMAIN s
      BY <3>2, <1>2 DEF ToSet
    <3>3. CASE i = Len(s) + 1
      BY <3>3, <1>2
    <3> QED
      BY <3>2, <3>3, <1>2
  <2>2. \A i \in DOMAIN s : i \in DOMAIN t /\ s[i] = t[i]
    BY <1>2
  <2>3. Len(s) + 1 \in DOMAIN t
    BY <1>2
  <2> QED
    BY <2>1, <2>2, <2>3, <1>2 DEF ToSet
<1>5. ToSet(full) = ToSet(page) \cup {e}
  <2>1. \A j \in 2..len : full[j] = page[j - 1] /\ j - 1 \in DOMAIN page
    BY <1>1
  <2>2. \A j \in DOMAIN page : j + 1 \in DOMAIN full
    BY <1>1
  <2>3. \A j \in 1..len : j = 1 \/ j \in 2..len
    BY <1>1
  <2>4. 1 \in DOMAIN full
    BY <1>1
  <2>5. \A j \in DOMAIN full : full[j] \in ToSet(page) \cup {e}
    <3>1. TAKE j \in DOMAIN full
    <3> QED
      BY <2>1, <2>3, <1>1 DEF ToSet
  <2>6. \A j \in DOMAIN page : page[j] = full[j + 1]
    BY <1>1
  <2>7. ToSet(full) \subseteq ToSet(page) \cup {e}
    BY <2>5 DEF ToSet
  <2>8. e \in ToSet(full)
    BY <2>4, <1>1 DEF ToSet
  <2>9. \A j \in DOMAIN page : page[j] \in ToSet(full)
    BY <2>2, <2>6 DEF ToSet
  <2>10. ToSet(page) \subseteq ToSet(full)
    BY <2>9 DEF ToSet
  <2> QED
    BY <2>7, <2>8, <2>10
<1>6. \A i \in DOMAIN s : s[i] < e
  <2>1. 1 \in DOMAIN full
    BY <1>1
  <2> QED
    BY <2>1, <1>3, <1>1
<1>7. e \notin ToSet(s)
  BY <1>6, <1>1 DEF ToSet
<1>8. \A i, j \in DOMAIN t : i < j => t[i] < t[j]
  <2>1. TAKE i, j \in DOMAIN t
  <2>2. HAVE i < j
  <2>3. i \in DOMAIN s /\ t[i] = s[i]
    BY <2>2, <1>2
  <2>4. CASE j \in DOMAIN s
    BY <2>2, <2>3, <2>4, <1>2 DEF Misses
  <2>5. CASE j = Len(s) + 1
    BY <2>3, <2>5, <1>6, <1>2
  <2> QED
    BY <2>4, <2>5, <1>2
<1>9. Misses(E, o, k, t)
  BY <1>8, <1>4, <1>5, <1>3 DEF Misses
<1>10. Continues(E, o, n, r2, t)
  <2>1. \A j \in DOMAIN page : j + 1 \in DOMAIN full /\ page[j] = full[j + 1]
    BY <1>1
  <2>2. \A i, j \in DOMAIN page : i < j => page[i] < page[j]
    <3>1. TAKE i, j \in DOMAIN page
    <3>2. HAVE i < j
    <3>3. i + 1 < j + 1
      BY <3>2, <1>1
    <3> QED
      BY <3>3, <2>1, <1>3
  <2>3. ASSUME NEW i \in DOMAIN t PROVE (i \in DOMAIN s /\ t[i] = s[i]) \/ t[i] = e
    BY <1>2
  <2>4. 1 \in DOMAIN full
    BY <1>1
  <2>5. \A i \in DOMAIN t : t[i] <= r.upTo
    <3>1. e <= r.upTo
      BY <2>4, <1>3, <1>1
    <3> QED
      BY <3>1, <2>3, <1>3
  <2>6. \A j \in DOMAIN page : page[j] <= r.upTo
    BY <2>1, <1>3
  <2>7. \A i \in DOMAIN t, j \in DOMAIN page : t[i] < page[j]
    <3>1. TAKE i \in DOMAIN t, j \in DOMAIN page
    <3>2. e < page[j]
      <4>1. 1 < j + 1
        BY <1>1
      <4> QED
        BY <4>1, <2>1, <2>4, <1>3, <1>1
    <3>3. ASSUME NEW k2 \in DOMAIN s PROVE s[k2] < page[j]
      BY <2>1, <1>3
    <3> QED
      BY <3>2, <3>3, <2>3
  <2> QED
    BY <2>2, <2>5, <2>6, <2>7, <1>3, <1>4, <1>5, <1>0 DEF Continues
<1> QED
  BY <1>0, <1>1, <1>2, <1>4, <1>7, <1>9, <1>10 DEF e, t

\* At the end of its page, the history is settled.
LEMMA PageSettles ==
  ASSUME NEW E, NEW o, NEW n, NEW r, r.page = <<>>, NEW s \in Seq(Nat), NEW k,
         Continues(E, o, n, r, s), Misses(E, o, k, s), n \in Nat
  PROVE  Settled(E, o, n, r.upTo, s)
BY DEF Continues, Misses, Settled, ToSet

-----------------------------------------------------------------------------
\* What a call is between two reads.
LEMMA IdleCalls == Idle \in Calls(<<>>) /\ Idle.at = "idle" /\ Idle.tree = <<>>
<1>1. <<>> \in Seq(Nat)
  OBVIOUS
<1> QED
  BY <1>1 DEF Idle, Calls, NoCursor, Stages

\* It is given a stage, with what to fetch and an array that it holds.
LEMMA IdleTo ==
  ASSUME NEW s \in Stages, NEW t \in {"", "events", "fills"}, NEW k \in Nat
  PROVE  /\ [Idle EXCEPT !.at = s, !.next = t] \in Calls(<<>>)
         /\ [Idle EXCEPT !.at = s, !.next = t].at = s
         /\ [Idle EXCEPT !.at = s, !.next = t].tree = <<>>
         /\ [Idle EXCEPT !.at = s, !.array = k] \in Calls(<<>>)
         /\ [Idle EXCEPT !.at = s, !.array = k].at = s
         /\ [Idle EXCEPT !.at = s, !.array = k].tree = <<>>
         /\ [Idle EXCEPT !.at = s, !.next = t, !.array = k] \in Calls(<<>>)
         /\ [Idle EXCEPT !.at = s, !.next = t, !.array = k].at = s
         /\ [Idle EXCEPT !.at = s, !.next = t, !.array = k].tree = <<>>
BY IdleCalls DEF Calls

LEMMA ReadersInitially == Init => EventInv
<1> SUFFICES ASSUME Init PROVE EventInv
  OBVIOUS
<1> USE EventAssumption
<1>1. NodeInv /\ ReaderType
  BY DEF Init, NodeInv, ReaderType, Readers, NoReader, NoCursor
<1>2. CacheInv
  BY DEF Init, CacheInv, Settled, Misses, NoCursor, ToSet
<1>3. \A p \in Page : MemoryInv(p)
  BY DEF Init, MemoryInv
<1>4. \A c \in Caller : CallInv(c)
  BY IdleCalls DEF Init, CallInv, Busy, At
<1> QED
  BY <1>1, <1>2, <1>3, <1>4 DEF EventInv

\* The network and the node go on: histories and pages miss nothing more.
LEMMA NetworkStep ==
  ASSUME EventInv,
         \/ CloseLedger({})
         \/ closed + 1 >= Start /\ CloseLedger({closed + 1})
         \/ IndexLedger \/ Lag \/ Forget
  PROVE  EventInv'
<1> USE EventAssumption
<1>1. NodeInv' /\ Grows(emitted, oldest, closed, emitted', oldest', closed')
  <2>1. NodeInv /\ Start \in Nat
    BY DEF EventInv
  <2>2. CASE \E new : new \subseteq {closed + 1} /\ (new # {} => closed + 1 >= Start)
                     /\ CloseLedger(new)
    <3>1. PICK new : /\ new \subseteq {closed + 1} /\ (new # {} => closed + 1 >= Start)
                     /\ CloseLedger(new)
      BY <2>2
    <3>2. /\ closed' = closed + 1 /\ emitted' = emitted \cup new
          /\ oldest' = oldest /\ head' = head
      BY <3>1 DEF CloseLedger
    <3>3. emitted' \subseteq Start..closed'
      BY <3>1, <3>2, <2>1 DEF NodeInv
    <3>4. \A e \in emitted' : e \in emitted \/ e > closed
      BY <3>1, <3>2, <2>1 DEF NodeInv
    <3> QED
      BY <3>2, <3>3, <3>4, <2>1 DEF NodeInv, Grows
  <2>3. CASE IndexLedger \/ Lag \/ Forget
    <3>1. /\ closed' = closed /\ emitted' = emitted /\ head' \in Nat /\ head' <= closed
          /\ oldest' \in Nat \ {0} /\ oldest <= oldest' /\ oldest' <= head'
      BY <2>1, <2>3 DEF NodeInv, IndexLedger, Lag, Forget
    <3>2. emitted \subseteq Nat /\ closed \in Nat
      BY <2>1 DEF NodeInv
    <3> QED
      BY <2>1, <3>1, <3>2 DEF NodeInv, Grows
  <2> QED
    BY <2>2, <2>3
<1>2. UNCHANGED <<cache, reader, queue, call>>
  BY DEF CloseLedger, IndexLedger, Lag, Forget
<1>3. /\ oldest \in Nat /\ oldest' \in Nat /\ closed \in Nat /\ closed' \in Nat
      /\ oldest <= oldest'
  BY <1>1 DEF EventInv, NodeInv, Grows
<1>4. ReaderType'
  BY <1>2 DEF EventInv, ReaderType
<1>5. CacheInv'
  BY <1>1, <1>2, <1>3, SettledGrow DEF EventInv, CacheInv
<1>6. ASSUME NEW p \in Page PROVE MemoryInv(p)'
  <2>1. MemoryInv(p) /\ (Paging(p) => Paging(p)')
    BY <1>2 DEF EventInv, Paging, At
  <2>2. ASSUME Memory(emitted, oldest, closed, reader[p])
        PROVE  Memory(emitted', oldest', closed', reader'[p])
    BY <2>2, <1>1, <1>2, <1>3, MemoryGrow
  <2>3. ASSUME Settled(emitted, oldest, closed, reader[p].cursor, Acc(p))
        PROVE  Settled(emitted', oldest', closed', reader'[p].cursor, Acc(p)')
    BY <2>3, <1>1, <1>2, <1>3, SettledGrow DEF Acc
  <2> QED
    BY <2>1, <2>2, <2>3, <1>2 DEF MemoryInv
<1>7. ASSUME NEW c \in Caller PROVE CallInv(c)'
  <2>1. CallInv(c)
    BY DEF EventInv
  <2>2. ASSUME Continues(emitted, oldest, closed, call[c], Acc(PageOf[c]))
        PROVE  Continues(emitted', oldest', closed', call'[c], Acc(PageOf[c])')
    BY <2>2, <1>1, <1>2, <1>3, ContinuesGrow DEF Acc
  <2>3. ASSUME Early(oldest, call[c]), call[c] \in Calls(call[c].tree)
        PROVE  Early(oldest', call'[c])
    <3>1. call[c].start \in Nat /\ call'[c] = call[c]
      BY <2>3, <1>2 DEF Calls
    <3> QED
      BY <3>1, <2>3, <1>3, EventAssumption DEF Early
  <2> QED
    BY <2>1, <2>2, <2>3, <1>2 DEF CallInv, At, Serving
<1> QED
  BY <1>1, <1>4, <1>5, <1>6, <1>7 DEF EventInv

-----------------------------------------------------------------------------
\* A step of caller c touches its call, and the reader and queue of its page.
Apart(c) ==
  /\ UNCHANGED nodeVars
  /\ \A d \in Caller \ {c} : call'[d] = call[d]
  /\ \A p \in Page \ {PageOf[c]} : reader'[p] = reader[p] /\ queue'[p] = queue[p]

\* The others keep their invariant when those at work keep their turn.
LEMMA CallerStep ==
  ASSUME EventInv, NEW c \in Caller, Apart(c), ReaderType', CacheInv',
         MemoryInv(PageOf[c])', CallInv(c)',
         \A d \in Caller \ {c} :
           PageOf[d] = PageOf[c] /\ Busy(call[d]) =>
             /\ queue'[PageOf[d]] # <<>> /\ Head(queue'[PageOf[d]]) = d
             /\ reader'[PageOf[d]] = reader[PageOf[d]]
  PROVE  EventInv'
<1>1. NodeInv'
  BY DEF EventInv, NodeInv, Apart, nodeVars
<1>2. ASSUME NEW p \in Page, p # PageOf[c] PROVE MemoryInv(p)'
  <2>1. MemoryInv(p) /\ reader'[p] = reader[p] /\ emitted' = emitted /\ oldest' = oldest
        /\ closed' = closed
    BY <1>2 DEF EventInv, Apart, nodeVars
  <2>2. Paging(p) => Paging(p)'
    BY <1>2 DEF Paging, At, Apart
  <2> QED
    BY <2>1, <2>2 DEF MemoryInv, Acc
<1>3. ASSUME NEW d \in Caller, d # c PROVE CallInv(d)'
  <2>1. CallInv(d) /\ call'[d] = call[d] /\ emitted' = emitted /\ oldest' = oldest
        /\ closed' = closed /\ PageOf[d] \in Page
    BY <1>3, EventAssumption DEF EventInv, Apart, nodeVars
  <2>2. CASE Busy(call[d])
    <3>1. Serving(d)' /\ reader'[PageOf[d]] = reader[PageOf[d]]
      BY <1>3, <2>1, <2>2 DEF Apart, CallInv, Serving
    <3> QED
      BY <2>1, <3>1 DEF CallInv, At, Acc
  <2>3. CASE ~Busy(call[d])
    BY <2>1, <2>3 DEF CallInv, Busy, At
  <2> QED
    BY <2>2, <2>3
<1> QED
  BY <1>1, <1>2, <1>3 DEF EventInv

\* The caller at the head of the queue is the only one of its page at work.
LEMMA Alone ==
  ASSUME EventInv, NEW c \in Caller, Serving(c), NEW d \in Caller, PageOf[d] = PageOf[c],
         Busy(call[d])
  PROVE  d = c
BY DEF EventInv, CallInv, Serving

\* Unless it reads a page, the history of its page is settled.
LEMMA ServedSettled ==
  ASSUME EventInv, NEW c \in Caller, Serving(c), ~At(c, "page"), reader[PageOf[c]] # NoReader
  PROVE  Settled(emitted, oldest, closed, reader[PageOf[c]].cursor, Acc(PageOf[c]))
<1>1. PageOf[c] \in Page
  BY EventAssumption
<1>2. ~Paging(PageOf[c])
  BY Alone DEF Paging, At, Busy
<1> QED
  BY <1>1, <1>2 DEF EventInv, MemoryInv

\* A step of the caller at the head of the queue.
LEMMA ServingStep ==
  ASSUME EventInv, NEW c \in Caller, Serving(c), Apart(c), ReaderType', CacheInv',
         MemoryInv(PageOf[c])', CallInv(c)'
  PROVE  EventInv'
<1>1. \A d \in Caller \ {c} : ~(PageOf[d] = PageOf[c] /\ Busy(call[d]))
  BY Alone
<1> QED
  BY <1>1, CallerStep

\* A step of a caller that is not at work on the reader; it may join the queue.
LEMMA QuietStep ==
  ASSUME EventInv, NEW c \in Caller, ~Busy(call[c]), Apart(c), CallInv(c)',
         call' = [d \in Caller |-> call'[d]], UNCHANGED <<cache, reader>>,
         ~Busy(call'[c]), queue' = queue \/ Enter(c)
  PROVE  EventInv'
<1> DEFINE p == PageOf[c]
<1>1. p \in Page
  BY EventAssumption
<1>2. ReaderType' /\ queue[p] \in Seq(Caller)
      /\ (queue'[p] = queue[p] \/ queue'[p] = Append(queue[p], c))
  <2>1. queue \in [Page -> Seq(Caller)] /\ queue[p] \in Seq(Caller)
    BY <1>1 DEF EventInv, ReaderType
  <2>2. Append(queue[p], c) \in Seq(Caller)
    BY <2>1, AppendProperties
  <2>3. queue' \in [Page -> Seq(Caller)]
    BY <2>1, <2>2 DEF Enter
  <2> QED
    BY <1>1, <2>1, <2>3 DEF EventInv, ReaderType, Enter
<1>3. CacheInv'
  BY DEF EventInv, CacheInv, Apart, nodeVars
<1>4. MemoryInv(p)'
  <2>1. Paging(p) => Paging(p)'
    BY DEF Paging, At, Apart, Busy
  <2>2. MemoryInv(p)
    BY <1>1 DEF EventInv
  <2> QED
    BY <2>1, <2>2 DEF MemoryInv, Apart, nodeVars, Acc
<1>5. ASSUME NEW d \in Caller \ {c}, PageOf[d] = p, Busy(call[d])
      PROVE  queue'[PageOf[d]] # <<>> /\ Head(queue'[PageOf[d]]) = d
  <2>1. queue[p] # <<>> /\ Head(queue[p]) = d
    BY <1>5 DEF EventInv, CallInv, Serving
  <2>2. Append(queue[p], c) # <<>> /\ Head(Append(queue[p], c)) = Head(queue[p])
    BY <2>1, <1>2, HeadTailAppend, AppendProperties
  <2> QED
    BY <2>1, <2>2, <1>2, <1>5
<1> QED
  BY <1>2, <1>3, <1>4, <1>5, CallerStep

LEMMA BeginStep ==
  ASSUME EventInv, NEW c \in Caller, Begin(c)
  PROVE  EventInv'
<1>1. /\ call' = [call EXCEPT ![c] = [Idle EXCEPT !.at = "load", !.next = "events"]]
      /\ Enter(c) /\ UNCHANGED <<nodeVars, cache, reader>> /\ At(c, "idle")
      /\ call = [d \in Caller |-> call[d]] /\ queue \in [Page -> Seq(Caller)]
  BY DEF Begin, EventInv, ReaderType
<1>2. /\ call'[c] = [Idle EXCEPT !.at = "load", !.next = "events"]
      /\ call' = [d \in Caller |-> call'[d]]
      /\ \A d \in Caller \ {c} : call'[d] = call[d]
  BY <1>1
<1>3. Apart(c)
  BY <1>1, <1>2 DEF Apart, Enter
<1>4. CallInv(c)' /\ ~Busy(call'[c])
  <2>1. call'[c] \in Calls(call'[c].tree) /\ call'[c].at = "load"
    <3>1. "load" \in Stages /\ "events" \in {"", "events", "fills"} /\ 0 \in Nat
      BY DEF Stages
    <3>2. call'[c] \in Calls(<<>>) /\ call'[c].at = "load" /\ call'[c].tree = <<>>
      BY <3>1, <1>2, IdleTo, Zenon
    <3> QED
      BY <3>2
  <2> QED
    BY <2>1 DEF CallInv, Busy, At
<1> QED
  BY <1>1, <1>2, <1>3, <1>4, QuietStep DEF Busy, At

\* A caller builds its tree from the array that it holds.
LEMMA RebuildStep ==
  ASSUME EventInv, NEW c \in Caller, RebuildNoteTree(c)
  PROVE  EventInv'
<1>1. /\ call' = [call EXCEPT ![c].at = "root", ![c].tree = Held(c)]
      /\ UNCHANGED <<nodeVars, cache, reader, queue>> /\ At(c, "build")
      /\ call = [d \in Caller |-> call[d]] /\ call[c] \in Calls(call[c].tree)
  BY DEF RebuildNoteTree, EventInv, ReaderType, CallInv
<1> DEFINE r == [call[c] EXCEPT !.at = "root", !.tree = Held(c)]
<1>2. /\ call'[c] = r
      /\ call' = [d \in Caller |-> call'[d]]
      /\ \A d \in Caller \ {c} : call'[d] = call[d]
  BY <1>1
<1>3. r \in Calls(r.tree) /\ r.at = "root"
  BY <1>1 DEF Calls, Stages
<1> HIDE DEF r
<1>4. CallInv(c)' /\ ~Busy(call'[c]) /\ ~Busy(call[c])
  BY <1>1, <1>2, <1>3 DEF CallInv, Busy, At
<1>5. Apart(c)
  BY <1>1, <1>2 DEF Apart
<1> QED
  BY <1>1, <1>2, <1>4, <1>5, QuietStep

LEMMA CacheReplayStep ==
  ASSUME EventInv, NEW c \in Caller, CacheReplay(c)
  PROVE  EventInv'
<1>1. /\ call' = [call EXCEPT ![c] = Idle]
      /\ UNCHANGED <<nodeVars, cache, reader, queue>> /\ At(c, "root")
      /\ call = [d \in Caller |-> call[d]]
  BY DEF CacheReplay, EventInv, ReaderType
<1>2. /\ call'[c] = Idle
      /\ call' = [d \in Caller |-> call'[d]]
      /\ \A d \in Caller \ {c} : call'[d] = call[d]
  BY <1>1
<1>3. CallInv(c)' /\ ~Busy(call'[c]) /\ ~Busy(call[c])
  BY <1>1, <1>2, IdleCalls DEF CallInv, Busy, At
<1>4. Apart(c)
  BY <1>1, <1>2 DEF Apart
<1> QED
  BY <1>1, <1>2, <1>3, <1>4, QuietStep

-----------------------------------------------------------------------------
\* What a caller at work knows.
LEMMA AtWork ==
  ASSUME EventInv, NEW c \in Caller, Busy(call[c])
  PROVE  /\ PageOf[c] \in Page /\ Serving(c) /\ reader[PageOf[c]] # NoReader
         /\ reader[PageOf[c]] \in Readers
         /\ Memory(emitted, oldest, closed, reader[PageOf[c]])
         /\ Acc(PageOf[c]) \in Seq(Nat)
         /\ queue[PageOf[c]] \in Seq(Caller)
<1>1. /\ PageOf[c] \in Page /\ Serving(c) /\ reader[PageOf[c]] # NoReader
      /\ reader[PageOf[c]] \in Readers /\ queue[PageOf[c]] \in Seq(Caller)
  BY EventAssumption DEF EventInv, CallInv, ReaderType
<1>2. Memory(emitted, oldest, closed, reader[PageOf[c]])
  BY <1>1 DEF EventInv, MemoryInv
<1>3. Acc(PageOf[c]) \in Seq(Nat)
  <2>1. /\ reader[PageOf[c]].arrays \in Seq(Seq(Nat)) /\ reader[PageOf[c]].arrays # <<>>
    BY <1>1, <1>2 DEF Readers, Memory
  <2> QED
    BY <2>1 DEF Acc, Last
<1> QED
  BY <1>1, <1>2, <1>3

\* The caller leaves the queue, or joins it again at its end.
LEMMA LeaveType ==
  ASSUME EventInv, NEW c \in Caller, Serving(c), Leave(c) \/ Reenter(c)
  PROVE  /\ queue' \in [Page -> Seq(Caller)]
         /\ \A p \in Page \ {PageOf[c]} : queue'[p] = queue[p]
<1>1. PageOf[c] \in Page /\ queue \in [Page -> Seq(Caller)] /\ queue[PageOf[c]] # <<>>
  BY EventAssumption DEF EventInv, ReaderType, Serving
<1>2. Tail(queue[PageOf[c]]) \in Seq(Caller)
  BY <1>1, HeadTailProperties
<1>3. Append(Tail(queue[PageOf[c]]), c) \in Seq(Caller)
  BY <1>2, AppendProperties
<1> QED
  BY <1>1, <1>2, <1>3 DEF Leave, Reenter

\* A call that is no longer at work.
Rests(c) ==
  /\ call' = [d \in Caller |-> call'[d]]
  /\ \A d \in Caller \ {c} : call'[d] = call[d]
  /\ call'[c] \in Calls(call'[c].tree) /\ ~Busy(call'[c])
  /\ queue' \in [Page -> Seq(Caller)]
  /\ \A p \in Page \ {PageOf[c]} : queue'[p] = queue[p]

LEMMA RestsInv ==
  ASSUME NEW c \in Caller, Rests(c)
  PROVE  CallInv(c)'
BY DEF Rests, CallInv, Busy, At

LEMMA EndCallRests ==
  ASSUME EventInv, NEW c \in Caller, Serving(c), EndCall(c)
  PROVE  Rests(c)
<1>1. call' = [call EXCEPT ![c] = Idle] /\ call = [d \in Caller |-> call[d]]
  BY DEF EndCall, EventInv, ReaderType
<1> QED
  BY <1>1, LeaveType, IdleCalls DEF EndCall, Rests, Busy

LEMMA ReturnRests ==
  ASSUME EventInv, NEW c \in Caller, Busy(call[c]), Return(c)
  PROVE  Rests(c)
<1> DEFINE p == PageOf[c]
<1>1. Serving(c) /\ call = [d \in Caller |-> call[d]] /\ call[c].array \in Nat
      /\ Len(reader[p].arrays) \in Nat
  <2>1. reader[p].arrays \in Seq(Seq(Nat)) /\ Serving(c) /\ call[c] \in Calls(call[c].tree)
    BY AtWork DEF Readers, EventInv, CallInv
  <2> QED
    BY <2>1, LenProperties DEF EventInv, ReaderType, Calls
<1>2. CASE call[c].next = "fills"
  <2> DEFINE k == call[c].array
             r == [Idle EXCEPT !.at = "build", !.array = k]
  <2>0. k \in Nat
    BY <1>1
  <2> HIDE DEF k
  <2>1. call' = [call EXCEPT ![c] = r] /\ Leave(c)
    BY <1>2 DEF Return, k
  <2>2. r \in Calls(r.tree) /\ r.at = "build"
    <3>1. "build" \in Stages /\ "fills" \in {"", "events", "fills"}
      BY DEF Stages
    <3>2. r \in Calls(<<>>) /\ r.at = "build" /\ r.tree = <<>>
      BY <3>1, <2>0, IdleTo, Zenon
    <3> QED
      BY <3>2
  <2> HIDE DEF r
  <2> QED
    BY <2>1, <2>2, <1>1, LeaveType DEF Rests, Busy
<1>3. CASE call[c].next # "fills" /\ replay[p].count = Len(Acc(p))
  BY <1>1, <1>3, EndCallRests DEF Return
<1>4. CASE call[c].next # "fills" /\ replay[p].count # Len(Acc(p))
  <2> DEFINE k == Len(reader[p].arrays)
             r == [Idle EXCEPT !.at = "load", !.next = "fills", !.array = k]
  <2>0. k \in Nat
    BY <1>1
  <2> HIDE DEF k
  <2>1. call' = [call EXCEPT ![c] = r] /\ Reenter(c)
    BY <1>4 DEF Return, k
  <2>2. r \in Calls(r.tree) /\ r.at = "load"
    <3>1. "load" \in Stages /\ "fills" \in {"", "events", "fills"}
      BY DEF Stages
    <3>2. r \in Calls(<<>>) /\ r.at = "load" /\ r.tree = <<>>
      BY <3>1, <2>0, IdleCalls DEF Calls
    <3> QED
      BY <3>2
  <2> HIDE DEF r
  <2> QED
    BY <2>1, <2>2, <1>1, LeaveType DEF Rests, Busy
<1> QED
  BY <1>2, <1>3, <1>4

\* The memory of the page after a step of the caller that was served.
LEMMA SettledMemory ==
  ASSUME NEW p \in Page, UNCHANGED nodeVars,
         reader'[p] # NoReader => Memory(emitted, oldest, closed, reader'[p])
           /\ Settled(emitted, oldest, closed, reader'[p].cursor, Last(reader'[p].arrays))
  PROVE  MemoryInv(p)'
BY DEF MemoryInv, Acc, nodeVars

LEMMA LoadStep ==
  ASSUME EventInv, NEW c \in Caller, LoadState(c)
  PROVE  EventInv'
<1> DEFINE p == PageOf[c]
           r == [call[c] EXCEPT !.at = "fetch", !.mode = "read", !.start = Start]
           loaded == [cursor |-> cache.cursor, seen |-> {}, arrays |-> <<cache.acc>>]
<1>1. /\ p \in Page /\ Serving(c) /\ At(c, "load") /\ UNCHANGED <<nodeVars, cache>>
      /\ call = [d \in Caller |-> call[d]] /\ call[c] \in Calls(call[c].tree)
      /\ cache \in [cursor : Nat, acc : Seq(Nat), fatal : BOOLEAN]
      /\ reader \in [Page -> Readers] /\ queue \in [Page -> Seq(Caller)]
      /\ Start \in Nat \ {0, 1}
  BY EventAssumption DEF LoadState, EventInv, ReaderType, CallInv
<1>2. CacheInv /\ CacheInv'
  BY <1>1 DEF EventInv, CacheInv, nodeVars
<1>3. CASE reader[p] = NoReader /\ cache.fatal
  <2>1. EndCall(c) /\ reader' = reader
    BY <1>3 DEF LoadState
  <2>2. Rests(c)
    BY <2>1, <1>1, EndCallRests
  <2>3. ReaderType' /\ Apart(c)
    BY <2>1, <2>2, <1>1 DEF ReaderType, Apart, Rests
  <2>4. MemoryInv(p)'
    BY <2>1, <1>3, <1>1, SettledMemory
  <2> QED
    BY <1>1, <1>2, <2>2, <2>3, <2>4, RestsInv, ServingStep
<1>4. CASE ~(reader[p] = NoReader /\ cache.fatal)
  <2>1. /\ reader' = IF reader[p] # NoReader THEN reader
                     ELSE [reader EXCEPT ![p] = loaded]
        /\ call' = [call EXCEPT ![c] = r]
        /\ queue' = queue
    BY <1>4, <1>1 DEF LoadState
  <2>2. /\ loaded \in Readers /\ loaded.cursor = cache.cursor
        /\ loaded.arrays = <<cache.acc>> /\ loaded.seen = {}
    BY <1>1 DEF Readers
  <2>3. Last(loaded.arrays) = cache.acc /\ loaded.arrays # <<>>
    BY <2>2, <1>1 DEF Last
  <2> HIDE DEF loaded
  <2>4. /\ Memory(emitted, oldest, closed, loaded)
        /\ Settled(emitted, oldest, closed, loaded.cursor, Last(loaded.arrays))
    BY <2>2, <2>3, <1>2 DEF CacheInv, Settled, Memory
  <2>5. reader' \in [Page -> Readers] /\ (\A q \in Page \ {p} : reader'[q] = reader[q])
        /\ reader'[p] = (IF reader[p] # NoReader THEN reader[p] ELSE loaded)
    BY <2>1, <2>2, <1>1
  <2>6. MemoryInv(p)'
    <3>1. CASE reader[p] = NoReader
      BY <3>1, <2>4, <2>5, <1>1, SettledMemory
    <3>2. CASE reader[p] # NoReader
      <4>1. Settled(emitted, oldest, closed, reader[p].cursor, Last(reader[p].arrays))
        BY <3>2, <1>1, ServedSettled DEF At, Acc
      <4>2. Memory(emitted, oldest, closed, reader[p])
        BY <3>2, <1>1 DEF EventInv, MemoryInv
      <4> QED
        BY <3>2, <4>1, <4>2, <2>5, <1>1, SettledMemory
    <3> QED
      BY <3>1, <3>2
  <2>7. /\ r \in Calls(r.tree) /\ r.at = "fetch" /\ r.start = Start
    BY <1>1 DEF Calls, Stages
  <2>8. /\ call'[c] = r /\ call' = [d \in Caller |-> call'[d]]
        /\ \A d \in Caller \ {c} : call'[d] = call[d]
    BY <2>1, <1>1
  <2> HIDE DEF r
  <2>9. ReaderType' /\ Apart(c)
    BY <2>1, <2>5, <2>8, <1>1 DEF ReaderType, Apart
  <2>10. reader'[p] # NoReader
    BY <2>5, <2>3, <2>2 DEF NoReader
  <2>11. CallInv(c)'
    BY <2>7, <2>8, <2>1, <2>10, <1>1 DEF CallInv, Busy, At, Serving, Early
  <2> QED
    BY <1>1, <1>2, <2>6, <2>9, <2>11, ServingStep
<1> QED
  BY <1>3, <1>4

\* A step that leaves the reader as it was and puts the call at its next stage.
LEMMA StageStep ==
  ASSUME EventInv, NEW c \in Caller, Busy(call[c]), UNCHANGED <<nodeVars, reader, queue>>,
         NEW r, r \in Calls(r.tree), call' = [call EXCEPT ![c] = r],
         CacheInv', cache' \in [cursor : Nat, acc : Seq(Nat), fatal : BOOLEAN],
         r.at \in {"fetch", "page"} => Early(oldest, r),
         r.at = "page" => Continues(emitted, oldest, closed, r, Acc(PageOf[c])),
         At(c, "page") => r.at = "page"
  PROVE  EventInv'
<1> DEFINE p == PageOf[c]
<1>1. /\ p \in Page /\ Serving(c) /\ reader[p] # NoReader
      /\ Memory(emitted, oldest, closed, reader[p])
      /\ call = [d \in Caller |-> call[d]]
  BY AtWork DEF EventInv, ReaderType
<1>2. /\ call'[c] = r /\ call' = [d \in Caller |-> call'[d]]
      /\ \A d \in Caller \ {c} : call'[d] = call[d]
  BY <1>1
<1>3. ReaderType' /\ Apart(c)
  BY <1>2 DEF EventInv, ReaderType, Apart
<1>4. CallInv(c)'
  BY <1>1, <1>2 DEF CallInv, Busy, At, Serving, nodeVars, Acc
<1>5. MemoryInv(p)'
  <2>1. CASE At(c, "page")
    <3>1. Paging(p)'
      BY <2>1, <1>2 DEF Paging, At
    <3> QED
      BY <3>1, <1>1 DEF MemoryInv, nodeVars
  <2>2. CASE ~At(c, "page")
    <3>1. Settled(emitted, oldest, closed, reader[p].cursor, Last(reader[p].arrays))
      BY <2>2, <1>1, ServedSettled DEF Acc
    <3> QED
      BY <3>1, <1>1, SettledMemory
  <2> QED
    BY <2>1, <2>2
<1> QED
  BY <1>1, <1>3, <1>4, <1>5, ServingStep

\* The node answers a page.
LEMMA FetchStep ==
  ASSUME EventInv, NEW c \in Caller, FetchPage(c)
  PROVE  EventInv'
<1> DEFINE p == PageOf[c]
           st == reader[p]
           found == {e \in emitted : e \in From(c)..head /\ ~(Resuming(c) /\ e = From(c))}
<1>1. /\ At(c, "fetch") /\ From(c) \in oldest..head
      /\ UNCHANGED <<nodeVars, cache, reader, queue>> /\ Busy(call[c])
  BY DEF FetchPage, Busy, At
<1>2. /\ Serving(c) /\ st # NoReader /\ Early(oldest, call[c])
      /\ call[c] \in Calls(call[c].tree) /\ CacheInv
      /\ cache \in [cursor : Nat, acc : Seq(Nat), fatal : BOOLEAN]
  BY <1>1, AtWork DEF EventInv, CallInv, At, ReaderType
<1>3. PICK page \in FirstPages(found) :
        call' = [call EXCEPT ![c].at = "page", ![c].page = page,
                             ![c].full = (Len(page) = PageSize),
                             ![c].upTo = IF Len(page) = PageSize THEN Last(page) ELSE head]
  BY DEF FetchPage
<1> DEFINE u == IF Len(page) = PageSize THEN Last(page) ELSE head
           f == Len(page) = PageSize
           r == [call[c] EXCEPT !.at = "page", !.page = page, !.full = f, !.upTo = u]
<1>4. r.page = page /\ r.upTo = u
  BY <1>2 DEF Calls
<1>5. Settled(emitted, oldest, closed, st.cursor, Acc(p))
  BY <1>1, <1>2, ServedSettled DEF At
<1>6. /\ emitted \subseteq Start..closed /\ closed \in Nat /\ oldest \in Nat /\ head \in 1..closed
      /\ call[c].start \in Nat
  <2>1. oldest \in Nat \ {0} /\ oldest <= head /\ head <= closed /\ head \in Nat /\ closed \in Nat
    BY DEF EventInv, NodeInv
  <2>2. emitted \subseteq Start..closed
    BY DEF EventInv, NodeInv
  <2>3. call[c].start \in Nat
    BY <1>2 DEF Calls
  <2>4. head \in 1..closed
    BY <2>1
  <2> QED
    BY <2>1, <2>2, <2>3, <2>4
<1>7. /\ From(c) = (IF st.cursor # NoCursor THEN st.cursor ELSE call[c].start)
      /\ From(c) <= head
  BY <1>1, <1>6 DEF From, Resuming
<1>14. found = Answered(emitted, st.cursor, From(c), head)
  BY DEF Resuming, Answered
<1> HIDE DEF r, f, found
<1>8. page \in Seq(Nat) /\ u \in Nat /\ Continues(emitted, oldest, closed, r, Acc(p))
  <2> DEFINE k == st.cursor
             s == Acc(p)
             from == From(c)
             called == call[c]
  <2>1. Fetched(emitted, oldest, closed, k, s, called, from, head, page, r) /\ r.upTo = u
    BY <1>2, <1>3, <1>4, <1>5, <1>6, <1>7, <1>14 DEF Fetched
  <2> HIDE DEF k, s, from, called, u
  <2>2. page \in Seq(Nat) /\ r.upTo \in Nat /\ Continues(emitted, oldest, closed, r, s)
    BY <2>1, FetchContinues
  <2> QED
    BY <2>1, <2>2 DEF s
<1>9. f \in BOOLEAN
  BY DEF f
<1> HIDE DEF u
<1>10. r \in Calls(r.tree) /\ r.at = "page" /\ r.start = call[c].start
  BY <1>2, <1>8, <1>9 DEF r, Calls, Stages
<1>11. Early(oldest, r)
  BY <1>2, <1>10 DEF Early
<1>12. call' = [call EXCEPT ![c] = r]
  BY <1>3 DEF r, f, u
<1>13. CacheInv'
  BY <1>1, <1>2 DEF CacheInv, nodeVars
<1> QED
  BY <1>1, <1>2, <1>8, <1>10, <1>11, <1>12, <1>13, StageStep DEF At

\* A call that ends leaves a settled history.
LEMMA RestStep ==
  ASSUME EventInv, NEW c \in Caller, Busy(call[c]), ~At(c, "page"), Rests(c),
         UNCHANGED <<nodeVars, reader>>,
         CacheInv', cache' \in [cursor : Nat, acc : Seq(Nat), fatal : BOOLEAN]
  PROVE  EventInv'
<1> DEFINE p == PageOf[c]
<1>1. /\ p \in Page /\ Serving(c) /\ reader[p] # NoReader
      /\ Memory(emitted, oldest, closed, reader[p])
  BY AtWork
<1>2. Settled(emitted, oldest, closed, reader[p].cursor, Last(reader[p].arrays))
  BY <1>1, ServedSettled DEF Acc
<1>3. MemoryInv(p)'
  BY <1>1, <1>2, SettledMemory
<1>4. ReaderType' /\ Apart(c)
  BY DEF EventInv, ReaderType, Rests, Apart
<1> QED
  BY <1>1, <1>3, <1>4, RestsInv, ServingStep

\* The reader begins an empty array.
LEMMA EmptyArray ==
  ASSUME NEW s \in Seq(Seq(Nat)), NEW t, t = Append(s, <<>>)
  PROVE  /\ t \in Seq(Seq(Nat)) /\ t # <<>> /\ Len(t) = Len(s) + 1
         /\ t[Len(s) + 1] = <<>>
<1>1. <<>> \in Seq(Nat)
  OBVIOUS
<1> DEFINE e == <<>>
           S == Seq(Nat)
<1>2. e \in S /\ s \in Seq(S) /\ t = Append(s, e)
  BY <1>1
<1> HIDE DEF e, S
<1>3. t \in Seq(S) /\ t # <<>> /\ Len(t) = Len(s) + 1 /\ t[Len(s) + 1] = e
  BY <1>2, AppendProperties
<1> QED
  BY <1>3 DEF e, S

\* A ledger that the node does not have.
LEMMA RangeStep ==
  ASSUME EventInv, NEW c \in Caller, RangeError(c)
  PROVE  EventInv'
<1> DEFINE p == PageOf[c]
           st == reader[p]
<1>1. At(c, "fetch") /\ Busy(call[c]) /\ UNCHANGED <<nodeVars, cache>>
  BY DEF RangeError, Busy, At
<1>2. /\ Serving(c) /\ p \in Page /\ st # NoReader /\ Early(oldest, call[c])
      /\ call[c] \in Calls(call[c].tree) /\ CacheInv
      /\ cache \in [cursor : Nat, acc : Seq(Nat), fatal : BOOLEAN]
      /\ call = [d \in Caller |-> call[d]] /\ reader \in [Page -> Readers]
      /\ queue \in [Page -> Seq(Caller)]
  BY <1>1, AtWork DEF EventInv, CallInv, At, ReaderType
<1>3. CacheInv' /\ cache' \in [cursor : Nat, acc : Seq(Nat), fatal : BOOLEAN]
  BY <1>1, <1>2 DEF CacheInv, nodeVars
<1>4. /\ oldest \in Nat \ {0} /\ head \in Nat \ {0} /\ oldest <= head /\ closed \in Nat
      /\ call[c].start \in Nat /\ emitted \subseteq Start..closed /\ Start \in Nat \ {0, 1}
  <2>1. NodeInv /\ call[c].start \in Nat /\ Start \in Nat \ {0, 1}
    BY <1>2, EventAssumption DEF EventInv, Calls
  <2> QED
    BY <2>1 DEF NodeInv
<1>5. CASE call[c].mode = "read" /\ st.cursor = NoCursor /\ call[c].start > head
  <2> DEFINE r == [call[c] EXCEPT !.mode = "clamped", !.start = head]
  <2>1. call' = [call EXCEPT ![c] = r] /\ UNCHANGED <<reader, queue>>
    BY <1>5 DEF RangeError, Resume
  <2>2. r \in Calls(r.tree) /\ r.at = "fetch" /\ r.start = head
    BY <1>1, <1>2, <1>4 DEF Calls, Stages, At
  <2> HIDE DEF r
  <2>3. Early(oldest, r)
    BY <2>2, <1>2, <1>4, <1>5 DEF Early
  <2> QED
    BY <1>1, <1>2, <1>3, <2>1, <2>2, <2>3, StageStep DEF At
<1>6. CASE call[c].mode = "read" /\ ~(st.cursor = NoCursor /\ call[c].start > head)
  <2> DEFINE stage == IF HadHistory(st) \/ Validated THEN call[c].at ELSE "fatal"
             r == [call[c] EXCEPT !.at = stage, !.mode = "rebuilt", !.start = oldest]
             new == Forgetful(st)
  <2>1. /\ call' = [call EXCEPT ![c] = r] /\ reader' = [reader EXCEPT ![p] = new]
        /\ queue' = queue
    BY <1>6 DEF RangeError, Resume
  <2>2. stage \in {"fetch", "fatal"}
    BY <1>1 DEF At
  <2> HIDE DEF stage
  <2>3. r \in Calls(r.tree) /\ r.at = stage /\ r.start = oldest
    BY <2>2, <1>2, <1>4 DEF Calls, Stages
  <2>4. /\ call'[c] = r /\ call' = [d \in Caller |-> call'[d]]
        /\ \A d \in Caller \ {c} : call'[d] = call[d]
    BY <2>1, <1>2
  <2> HIDE DEF r
  <2>5. /\ st.arrays \in Seq(Seq(Nat)) /\ <<>> \in Seq(Nat)
        /\ new.cursor = NoCursor /\ new.seen = {} /\ new.arrays = Append(st.arrays, <<>>)
    BY <1>2 DEF Readers, Forgetful
  <2> HIDE DEF new
  <2>6. /\ new.arrays \in Seq(Seq(Nat)) /\ new.arrays # <<>>
        /\ Last(new.arrays) = <<>>
    <3>1. /\ new.arrays \in Seq(Seq(Nat)) /\ new.arrays # <<>>
          /\ Len(new.arrays) = Len(st.arrays) + 1
          /\ new.arrays[Len(st.arrays) + 1] = <<>>
      BY <2>5, EmptyArray
    <3> QED
      BY <3>1 DEF Last
  <2>7. new \in Readers
    BY <2>5, <2>6 DEF Forgetful, Readers, NoCursor, new
  <2>8. /\ Memory(emitted, oldest, closed, new)
        /\ Settled(emitted, oldest, closed, new.cursor, Last(new.arrays))
    <3>1. Misses(emitted, oldest, NoCursor, <<>>)
      BY <1>4 DEF Misses, NoCursor, ToSet
    <3>2. NoCursor \in 0..closed
      BY <1>4 DEF NoCursor
    <3>3. Memory(emitted, oldest, closed, new)
      BY <3>1, <3>2, <2>5, <2>6 DEF Memory
    <3>4. Settled(emitted, oldest, closed, NoCursor, <<>>)
      BY <3>1, <3>2 DEF Settled
    <3> QED
      BY <3>3, <3>4, <2>5, <2>6
  <2>9. /\ reader' \in [Page -> Readers] /\ reader'[p] = new
        /\ \A q \in Page \ {p} : reader'[q] = reader[q]
    BY <2>1, <2>7, <1>2
  <2>10. new # NoReader
    BY <2>6 DEF NoReader
  <2>11. ReaderType' /\ Apart(c)
    BY <2>1, <2>4, <2>9, <1>1, <1>2 DEF ReaderType, Apart
  <2>12. MemoryInv(p)'
    BY <2>8, <2>9, <1>1, <1>2, SettledMemory
  <2>13. CallInv(c)'
    BY <2>2, <2>3, <2>4, <2>9, <2>10, <2>1, <1>1, <1>2, <1>4
       DEF CallInv, Busy, At, Serving, Early, nodeVars
  <2> QED
    BY <1>2, <1>3, <2>11, <2>12, <2>13, ServingStep
<1>7. CASE call[c].mode # "read"
  <2>1. Rests(c) /\ UNCHANGED reader
    BY <1>7, <1>2, EndCallRests DEF RangeError
  <2> QED
    BY <1>1, <1>3, <2>1, RestStep DEF At
<1> QED
  BY <1>5, <1>6, <1>7

\* One event of the page.  It is after all of the history, so it is new.
LEMMA IngestStep ==
  ASSUME EventInv, NEW c \in Caller, IngestEvent(c)
  PROVE  EventInv'
<1> DEFINE p == PageOf[c]
           st == reader[p]
           page == call[c].page
           e == Head(page)
           r == [call[c] EXCEPT !.page = Tail(@)]
           new == [st EXCEPT !.seen = @ \cup {e}, !.arrays[Len(st.arrays)] = Append(@, e)]
<1>1. /\ At(c, "page") /\ page # <<>> /\ Busy(call[c]) /\ UNCHANGED <<nodeVars, cache, queue>>
      /\ reader' = [reader EXCEPT ![p] = IF e \in st.seen THEN st ELSE new]
      /\ call' = [call EXCEPT ![c] = r]
  BY DEF IngestEvent, Busy, At
<1>2. /\ Serving(c) /\ p \in Page /\ st # NoReader /\ st \in Readers
      /\ Memory(emitted, oldest, closed, st) /\ Acc(p) \in Seq(Nat)
      /\ call[c] \in Calls(call[c].tree) /\ Early(oldest, call[c])
      /\ Continues(emitted, oldest, closed, call[c], Acc(p))
      /\ CacheInv /\ ReaderType
  BY <1>1, AtWork DEF EventInv, CallInv, At
<1>3. page \in Seq(Nat) /\ Tail(page) \in Seq(Nat)
  BY <1>1, <1>2, HeadTailProperties DEF Calls
<1>4. /\ r \in Calls(r.tree) /\ r.at = "page" /\ r.page = Tail(page)
      /\ r.upTo = call[c].upTo /\ r.start = call[c].start
  BY <1>1, <1>2, <1>3 DEF Calls, Stages, At
<1>5. /\ call'[c] = r /\ call' = [d \in Caller |-> call'[d]]
      /\ \A d \in Caller \ {c} : call'[d] = call[d]
  BY <1>1, <1>2 DEF ReaderType
<1> HIDE DEF r
<1> DEFINE s == Acc(p)
           t == Append(s, e)
<1>6. /\ emitted \subseteq Nat /\ oldest \in Nat /\ closed \in Nat
      /\ st.cursor \in Nat /\ Misses(emitted, oldest, st.cursor, s)
      /\ st.cursor \in 0..closed /\ st.seen \subseteq ToSet(s)
      /\ st.arrays # <<>> /\ st.arrays \in Seq(Seq(Nat))
      /\ s = st.arrays[Len(st.arrays)]
  <2>1. NodeInv
    BY DEF EventInv
  <2>2. emitted \subseteq Nat /\ oldest \in Nat /\ closed \in Nat
    BY <2>1, EventAssumption DEF NodeInv
  <2> QED
    BY <2>2, <1>2 DEF Memory, Acc, Readers, Last
<1> HIDE DEF s
<1>7. /\ e \in Nat /\ e \notin ToSet(s) /\ t \in Seq(Nat)
      /\ ToSet(s) \subseteq ToSet(t) /\ e \in ToSet(t)
      /\ Misses(emitted, oldest, st.cursor, t)
      /\ Continues(emitted, oldest, closed, r, t)
  <2> DEFINE k == st.cursor
             called == call[c]
  <2>1. Ingests(emitted, oldest, closed, k, s, called, r) /\ e = Head(called.page)
    BY <1>1, <1>2, <1>3, <1>4, <1>6 DEF s, Ingests
  <2> HIDE DEF k, called, page, e
  <2>2. /\ Head(called.page) \in Nat /\ Head(called.page) \notin ToSet(s)
        /\ Append(s, Head(called.page)) \in Seq(Nat)
        /\ ToSet(s) \subseteq ToSet(Append(s, Head(called.page)))
        /\ Head(called.page) \in ToSet(Append(s, Head(called.page)))
        /\ Misses(emitted, oldest, k, Append(s, Head(called.page)))
        /\ Continues(emitted, oldest, closed, r, Append(s, Head(called.page)))
    BY <2>1, IngestContinues
  <2> QED
    BY <2>1, <2>2 DEF k
<1> HIDE DEF e, t
<1>8. reader' = [reader EXCEPT ![p] = new]
  BY <1>1, <1>6, <1>7
<1>9. /\ new.cursor = st.cursor /\ new.seen = st.seen \cup {e}
      /\ new.arrays = [st.arrays EXCEPT ![Len(st.arrays)] = t]
  BY <1>2, <1>6 DEF Readers, t
<1>10. /\ new.arrays \in Seq(Seq(Nat)) /\ new.arrays # <<>> /\ Last(new.arrays) = t
  <2> DEFINE old == st.arrays
  <2>1. /\ old \in Seq(Seq(Nat)) /\ old # <<>> /\ t \in Seq(Nat)
        /\ new.arrays = [old EXCEPT ![Len(old)] = t]
    BY <1>6, <1>7, <1>9
  <2> HIDE DEF old, new
  <2>2. Len(old) \in 1..Len(old) /\ DOMAIN old = 1..Len(old)
    BY <2>1, LenProperties, EmptySeq
  <2>3. new.arrays \in Seq(Seq(Nat)) /\ Len(new.arrays) = Len(old)
    BY <2>1, <2>2, ExceptSeq
  <2>4. new.arrays[Len(old)] = t
    BY <2>1, <2>2
  <2> QED
    BY <2>2, <2>3, <2>4 DEF Last
<1>11. new \in Readers
  BY <1>2, <1>6, <1>7, <1>9, <1>10 DEF Readers
<1> HIDE DEF new
<1>12. /\ reader' \in [Page -> Readers] /\ reader'[p] = new
       /\ \A q \in Page \ {p} : reader'[q] = reader[q]
  BY <1>8, <1>11, <1>2 DEF ReaderType
<1>13. ReaderType' /\ Apart(c)
  BY <1>1, <1>2, <1>5, <1>12 DEF ReaderType, Apart
<1>14. CacheInv'
  BY <1>1, <1>2 DEF CacheInv, nodeVars
<1>15. MemoryInv(p)'
  <2>1. Memory(emitted, oldest, closed, new)
    BY <1>6, <1>7, <1>9, <1>10 DEF Memory
  <2>2. Paging(p)'
    BY <1>4, <1>5 DEF Paging, At
  <2> QED
    BY <2>1, <2>2, <1>1, <1>12 DEF MemoryInv, nodeVars
<1>16. CallInv(c)'
  <2>1. Acc(p)' = t /\ reader'[p] # NoReader
    BY <1>10, <1>12 DEF Acc, NoReader
  <2>2. Early(oldest, r)
    BY <1>2, <1>4 DEF Early
  <2> QED
    BY <2>1, <2>2, <1>1, <1>2, <1>4, <1>5, <1>7 DEF CallInv, At, Serving, nodeVars
<1> QED
  BY <1>2, <1>13, <1>14, <1>15, <1>16, ServingStep

\* The cursor moves to the end of the page.
LEMMA PageMemory ==
  ASSUME EventInv, NEW c \in Caller, At(c, "page"), call[c].page = <<>>,
         UNCHANGED nodeVars, reader' = [reader EXCEPT ![PageOf[c]].cursor = call[c].upTo]
  PROVE  /\ reader' \in [Page -> Readers]
         /\ \A q \in Page \ {PageOf[c]} : reader'[q] = reader[q]
         /\ MemoryInv(PageOf[c])' /\ reader'[PageOf[c]] # NoReader
         /\ Settled(emitted, oldest, closed, call[c].upTo, Acc(PageOf[c]))
         /\ Acc(PageOf[c])' = Acc(PageOf[c])
<1> DEFINE p == PageOf[c]
           st == reader[p]
           new == [st EXCEPT !.cursor = call[c].upTo]
<1>1. /\ p \in Page /\ st # NoReader /\ st \in Readers
      /\ Memory(emitted, oldest, closed, st) /\ Acc(p) \in Seq(Nat)
      /\ call[c] \in Calls(call[c].tree)
      /\ Continues(emitted, oldest, closed, call[c], Acc(p))
      /\ reader \in [Page -> Readers] /\ closed \in Nat
  BY AtWork DEF EventInv, CallInv, At, Busy, ReaderType, NodeInv
<1>2. Misses(emitted, oldest, st.cursor, Acc(p)) /\ st.arrays # <<>>
      /\ st.seen \subseteq ToSet(Acc(p)) /\ call[c].upTo \in Nat
  BY <1>1 DEF Memory, Acc, Calls
<1>3. Settled(emitted, oldest, closed, call[c].upTo, Acc(p))
  BY <1>1, <1>2, PageSettles
<1>4. /\ new \in Readers /\ new.cursor = call[c].upTo /\ new.arrays = st.arrays
      /\ new.seen = st.seen
  BY <1>1, <1>2 DEF Readers
<1> HIDE DEF new
<1>5. /\ reader' \in [Page -> Readers] /\ reader'[p] = new
      /\ \A q \in Page \ {p} : reader'[q] = reader[q]
  BY <1>1, <1>4 DEF new
<1>6. Memory(emitted, oldest, closed, new)
  BY <1>2, <1>3, <1>4 DEF Memory, Settled, Acc
<1>7. MemoryInv(p)'
  BY <1>1, <1>3, <1>4, <1>5, <1>6, SettledMemory DEF Acc
<1> QED
  BY <1>2, <1>3, <1>4, <1>5, <1>7 DEF Acc, NoReader

LEMMA EndPageStep ==
  ASSUME EventInv, NEW c \in Caller, EndPage(c)
  PROVE  EventInv'
<1> DEFINE p == PageOf[c]
           stage == IF call[c].full THEN "fetch" ELSE "validate"
           r == [call[c] EXCEPT !.at = stage]
<1>1. /\ At(c, "page") /\ call[c].page = <<>> /\ Busy(call[c]) /\ UNCHANGED nodeVars
      /\ reader' = [reader EXCEPT ![p].cursor = call[c].upTo]
      /\ cache' = [cursor |-> call[c].upTo, acc |-> Acc(p), fatal |-> FALSE]
  BY DEF EndPage, Busy, At
<1>2. /\ reader' \in [Page -> Readers] /\ reader'[p] # NoReader /\ MemoryInv(p)'
      /\ \A q \in Page \ {p} : reader'[q] = reader[q]
      /\ Settled(emitted, oldest, closed, call[c].upTo, Acc(p))
  BY <1>1, PageMemory
<1>3. /\ Serving(c) /\ p \in Page /\ Acc(p) \in Seq(Nat) /\ call[c] \in Calls(call[c].tree)
      /\ call[c].upTo \in Nat /\ Early(oldest, call[c]) /\ ReaderType
  BY <1>1, AtWork DEF EventInv, CallInv, At, Calls
<1>4. CacheInv' /\ cache' \in [cursor : Nat, acc : Seq(Nat), fatal : BOOLEAN]
  <2>1. cache'.cursor = call[c].upTo /\ cache'.acc = Acc(p)
    BY <1>1
  <2>2. CacheInv'
    BY <2>1, <1>1, <1>2 DEF CacheInv, nodeVars
  <2> QED
    BY <2>2, <1>1, <1>3
<1>5. CASE call[c].full \/ (call[c].mode = "rebuilt" /\ Validated)
  <2>1. call' = [call EXCEPT ![c] = r] /\ queue' = queue
    BY <1>5 DEF EndPage
  <2>2. stage \in {"fetch", "validate"}
    OBVIOUS
  <2> HIDE DEF stage
  <2>3. r \in Calls(r.tree) /\ r.at = stage /\ r.start = call[c].start
    BY <2>2, <1>3 DEF Calls, Stages
  <2>4. /\ call'[c] = r /\ call' = [d \in Caller |-> call'[d]]
        /\ \A d \in Caller \ {c} : call'[d] = call[d]
    BY <2>1, <1>3 DEF ReaderType
  <2> HIDE DEF r
  <2>5. ReaderType' /\ Apart(c)
    BY <2>1, <2>4, <1>1, <1>2, <1>3, <1>4 DEF ReaderType, Apart
  <2>6. CallInv(c)'
    BY <2>1, <2>2, <2>3, <2>4, <1>1, <1>2, <1>3 DEF CallInv, Busy, At, Serving, Early, nodeVars
  <2> QED
    BY <1>2, <1>3, <1>4, <2>5, <2>6, ServingStep
<1>6. CASE ~(call[c].full \/ (call[c].mode = "rebuilt" /\ Validated))
  <2>1. Rests(c)
    BY <1>1, <1>6, ReturnRests DEF EndPage
  <2>2. ReaderType' /\ Apart(c)
    BY <2>1, <1>1, <1>2, <1>4 DEF ReaderType, Apart, Rests
  <2> QED
    BY <2>1, <2>2, <1>2, <1>3, <1>4, RestsInv, ServingStep
<1> QED
  BY <1>5, <1>6

LEMMA ValidateStep ==
  ASSUME EventInv, NEW c \in Caller, ValidateReplay(c)
  PROVE  EventInv'
<1>1. /\ At(c, "validate") /\ Busy(call[c]) /\ UNCHANGED <<nodeVars, cache, reader>>
      /\ call[c] \in Calls(call[c].tree) /\ CacheInv
      /\ cache \in [cursor : Nat, acc : Seq(Nat), fatal : BOOLEAN]
  BY DEF ValidateReplay, Busy, At, EventInv, CallInv, ReaderType
<1>2. CacheInv' /\ cache' \in [cursor : Nat, acc : Seq(Nat), fatal : BOOLEAN]
  BY <1>1 DEF CacheInv, nodeVars
<1>3. CASE Return(c)
  BY <1>1, <1>2, <1>3, ReturnRests, RestStep DEF At
<1>4. CASE call' = [call EXCEPT ![c].at = "fatal"] /\ UNCHANGED queue
  <2> DEFINE r == [call[c] EXCEPT !.at = "fatal"]
  <2>1. call' = [call EXCEPT ![c] = r] /\ r \in Calls(r.tree) /\ r.at = "fatal"
    BY <1>1, <1>4 DEF Calls, Stages
  <2> HIDE DEF r
  <2> QED
    BY <1>1, <1>2, <1>4, <2>1, StageStep DEF At
<1> QED
  BY <1>3, <1>4 DEF ValidateReplay

LEMMA FatalStep ==
  ASSUME EventInv, NEW c \in Caller, MarkFatal(c)
  PROVE  EventInv'
<1> DEFINE p == PageOf[c]
<1>1. /\ At(c, "fatal") /\ Busy(call[c]) /\ UNCHANGED <<nodeVars, reader>> /\ EndCall(c)
      /\ cache' = [cursor |-> reader[p].cursor, acc |-> Acc(p), fatal |-> TRUE]
  BY DEF MarkFatal, Busy, At
<1>2. /\ Serving(c) /\ Acc(p) \in Seq(Nat) /\ reader[p] \in Readers /\ reader[p] # NoReader
  BY <1>1, AtWork
<1>3. Settled(emitted, oldest, closed, reader[p].cursor, Acc(p))
  BY <1>1, <1>2, ServedSettled DEF At
<1>4. CacheInv'
  <2>1. cache'.cursor = reader[p].cursor /\ cache'.acc = Acc(p)
    BY <1>1
  <2> QED
    BY <2>1, <1>1, <1>3 DEF CacheInv, nodeVars
<1>5. cache' \in [cursor : Nat, acc : Seq(Nat), fatal : BOOLEAN]
  BY <1>1, <1>2 DEF Readers
<1> QED
  BY <1>1, <1>2, <1>4, <1>5, EndCallRests, RestStep DEF At

-----------------------------------------------------------------------------
\* A call or a save fails; the history stays settled, or the cursor moves.
LEMMA FaultStep ==
  ASSUME EventInv, NEW c \in Caller, Fault(c)
  PROVE  EventInv'
<1> DEFINE p == PageOf[c]
<1>1. UNCHANGED <<nodeVars, cache>>
  BY DEF Fault
<1>2. CacheInv' /\ cache' \in [cursor : Nat, acc : Seq(Nat), fatal : BOOLEAN]
  BY <1>1 DEF EventInv, CacheInv, nodeVars, ReaderType
<1>3. CASE At(c, "fetch") /\ EndCall(c) /\ UNCHANGED reader
  BY <1>1, <1>2, <1>3, AtWork, EndCallRests, RestStep DEF Busy, At
<1>4. CASE /\ At(c, "page") /\ call[c].page = <<>> /\ EndCall(c)
           /\ reader' = [reader EXCEPT ![p].cursor = call[c].upTo]
  <2>1. Serving(c) /\ p \in Page
    BY <1>4, AtWork DEF Busy, At
  <2>2. /\ reader' \in [Page -> Readers] /\ MemoryInv(p)'
        /\ \A q \in Page \ {p} : reader'[q] = reader[q]
    BY <1>1, <1>4, PageMemory
  <2>3. Rests(c)
    BY <1>4, <2>1, EndCallRests
  <2>4. ReaderType' /\ Apart(c)
    BY <1>1, <1>2, <2>2, <2>3 DEF ReaderType, Apart, Rests
  <2> QED
    BY <1>2, <2>1, <2>2, <2>3, <2>4, RestsInv, ServingStep
<1>5. CASE /\ At(c, "validate") /\ call' = [call EXCEPT ![c].at = "fatal"]
           /\ UNCHANGED <<queue, reader>>
  <2> DEFINE r == [call[c] EXCEPT !.at = "fatal"]
  <2>1. call[c] \in Calls(call[c].tree)
    BY DEF EventInv, CallInv
  <2>2. call' = [call EXCEPT ![c] = r] /\ r \in Calls(r.tree) /\ r.at = "fatal"
    BY <1>5, <2>1 DEF Calls, Stages
  <2> HIDE DEF r
  <2> QED
    BY <1>1, <1>2, <1>5, <2>2, StageStep DEF Busy, At
<1> QED
  BY <1>3, <1>4, <1>5 DEF Fault

\* A page that is loaded again has no reader and no call.
LEMMA ReloadStep ==
  ASSUME EventInv, NEW p \in Page, Reload(p)
  PROVE  EventInv'
<1>1. /\ UNCHANGED <<nodeVars, cache>>
      /\ reader' = [reader EXCEPT ![p] = NoReader] /\ queue' = [queue EXCEPT ![p] = <<>>]
      /\ call' = [c \in Caller |-> IF PageOf[c] = p THEN Idle ELSE call[c]]
  BY DEF Reload
<1>2. NodeInv' /\ CacheInv' /\ UNCHANGED <<emitted, oldest, closed>>
  BY <1>1 DEF EventInv, NodeInv, CacheInv, nodeVars
<1>3. NoReader \in Readers /\ <<>> \in Seq(Caller)
  BY DEF NoReader, Readers, NoCursor
<1>4. ReaderType'
  BY <1>1, <1>3 DEF EventInv, ReaderType
<1>5. ASSUME NEW q \in Page PROVE MemoryInv(q)'
  <2>1. CASE q = p
    <3>1. reader'[q] = NoReader
      BY <2>1, <1>1 DEF EventInv, ReaderType
    <3> QED
      BY <3>1 DEF MemoryInv
  <2>2. CASE q # p
    <3>1. reader'[q] = reader[q] /\ MemoryInv(q)
      BY <2>2, <1>1 DEF EventInv, ReaderType
    <3>2. Paging(q) => Paging(q)'
      BY <2>2, <1>1 DEF Paging, At
    <3> QED
      BY <3>1, <3>2, <1>2 DEF MemoryInv, Acc
  <2> QED
    BY <2>1, <2>2
<1>6. ASSUME NEW c \in Caller PROVE CallInv(c)'
  <2>1. CASE PageOf[c] = p
    <3>1. call'[c] = Idle
      BY <2>1, <1>1
    <3>2. Idle \in Calls(<<>>) /\ Idle.at = "idle" /\ Idle.tree = <<>>
      BY IdleCalls
    <3> QED
      BY <3>1, <3>2 DEF CallInv, Busy, At
  <2>2. CASE PageOf[c] # p
    <3>1. PageOf[c] \in Page /\ CallInv(c)
      BY EventAssumption DEF EventInv
    <3>2. /\ call'[c] = call[c] /\ reader'[PageOf[c]] = reader[PageOf[c]]
          /\ queue'[PageOf[c]] = queue[PageOf[c]]
      BY <2>2, <3>1, <1>1 DEF EventInv, ReaderType
    <3> QED
      BY <3>1, <3>2, <1>2 DEF CallInv, At, Serving, Acc
  <2> QED
    BY <2>1, <2>2
<1> QED
  BY <1>2, <1>4, <1>5, <1>6 DEF EventInv

LEMMA ReadersInductive == EventInv /\ [Next]_eventVars => EventInv'
<1> SUFFICES ASSUME EventInv, [Next]_eventVars PROVE EventInv'
  OBVIOUS
<1>1. CASE \/ CloseLedger({})
           \/ closed + 1 >= Start /\ CloseLedger({closed + 1})
           \/ IndexLedger \/ Lag \/ Forget
  BY <1>1, NetworkStep
<1>2. ASSUME NEW c \in Caller, Begin(c) PROVE EventInv'
  BY <1>2, BeginStep
<1>3. ASSUME NEW c \in Caller, Step(c) PROVE EventInv'
  BY <1>3, LoadStep, FetchStep, RangeStep, IngestStep, EndPageStep, ValidateStep, FatalStep,
     RebuildStep, CacheReplayStep DEF Step
<1>4. ASSUME NEW c \in Caller, Fault(c) PROVE EventInv'
  BY <1>4, FaultStep
<1>5. ASSUME NEW p \in Page, Reload(p) PROVE EventInv'
  BY <1>5, ReloadStep
<1>6. CASE UNCHANGED eventVars
  BY <1>6 DEF eventVars, nodeVars, EventInv, NodeInv, ReaderType, CacheInv, MemoryInv, CallInv,
              Paging, At, Serving, Acc
<1> QED
  BY <1>1, <1>2, <1>3, <1>4, <1>5, <1>6 DEF Next

\* The history in memory and the one in the cache miss only what the node
\* forgot, whatever the callers, pages, ledgers, page sizes and mishaps.
THEOREM MissesStayForgotten == Spec => []MissesOnlyForgotten
<1>1. EventInv => MissesOnlyForgotten
  BY DEF EventInv, CacheInv, MemoryInv, Memory, Settled, Misses, MissesOnlyForgotten, Coherent, Acc
<1> QED
  BY <1>1, ReadersInitially, ReadersInductive, PTL DEF Spec
=============================================================================
