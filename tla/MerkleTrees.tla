------------------------------ MODULE MerkleTrees ------------------------------
(***************************************************************************)
(* The Merkle trees of a distribution: built off chain, where proofs come  *)
(* from, and verified by the contracts.  Hashing is free of collisions: a  *)
(* hash is written as what was hashed, an element as <<n>> and the hash of *)
(* two nodes as a mark and the nodes negated, so that hashes are not in    *)
(* the order of what was hashed.  Bytes are ordered as these are.          *)
(***************************************************************************)
EXTENDS Integers, Sequences, SequencesExt

CONSTANTS Elements,   \* that trees are made of, other than Mark
          Mark,       \* a number, so that hashes have a place among the elements
          MaxElements \* bound on a list of elements

\* Leaves and hashes are told apart by their first number.
ASSUME MerkleAssumption ==
  Elements \subseteq Int /\ Mark \in Int \ Elements /\ MaxElements \in Nat

VARIABLES given,  \* the elements a tree is built from, as listed
          tree,   \* its layers
          proven  \* an element and its proof, when it has been asked for

merkleVars == <<given, tree, proven>>

LessBytes(a, b) ==
  \E i \in DOMAIN a \cap DOMAIN b : a[i] < b[i] /\ \A j \in 1..(i - 1) : a[j] = b[j]
keccak256(first, second) ==
  LET nodes == first \o second IN <<Mark>> \o [i \in DOMAIN nodes |-> -nodes[i]]

-----------------------------------------------------------------------------
sortBuffers(elements) ==
  LET place == [i \in DOMAIN elements |-> Cardinality({j \in DOMAIN elements :
                  \/ LessBytes(elements[j], elements[i])
                  \/ elements[j] = elements[i] /\ j <= i})]
  IN  [k \in DOMAIN elements |-> elements[CHOOSE i \in DOMAIN elements : place[i] = k]]
bufDedup(elements) ==
  FlattenSeq([i \in DOMAIN elements |->
    IF i = 1 \/ elements[i - 1] # elements[i] THEN <<elements[i]>> ELSE <<>>])

\* Mutant: nodes are combined in the order of their places.
sortAndConcat_AsGiven(first, second) == <<first, second>>
sortAndConcat(first, second) ==
  IF LessBytes(second, first) THEN <<second, first>> ELSE <<first, second>>
combinedHash(first, second) ==
  LET sorted == sortAndConcat(first, second) IN keccak256(sorted[1], sorted[2])

\* An element without another to be paired with goes up as it is.
getNextLayer(layer) ==
  [k \in 1..((Len(layer) + 1) \div 2) |->
     IF 2 * k <= Len(layer) THEN combinedHash(layer[2 * k - 1], layer[2 * k]) ELSE layer[2 * k - 1]]
getLayers(elements) ==
  LET layer[k \in 1..(Len(elements) + 1)] ==
        IF k = 1 THEN elements
        ELSE IF Len(layer[k - 1]) > 1 THEN getNextLayer(layer[k - 1]) ELSE layer[k - 1]
      top == CHOOSE k \in DOMAIN layer :
               Len(layer[k]) <= 1 /\ \A j \in 1..(k - 1) : Len(layer[j]) > 1
  IN  SubSeq(layer, 1, top)

\* No element is "", which stands for the root of no elements.
Tree(elements) ==
  LET sorted == bufDedup(sortBuffers([i \in DOMAIN elements |-> <<elements[i]>>]))
  IN  IF sorted = <<>> THEN <<<< <<>> >>>> ELSE getLayers(sorted)
getRoot(layers) == Last(layers)[1]

bufIndexOf(el, elements) ==
  IF \E i \in DOMAIN elements : elements[i] = el
  THEN (CHOOSE i \in DOMAIN elements : elements[i] = el) - 1 ELSE -1
getPairElement(idx, layer) ==
  LET pair == IF idx % 2 = 0 THEN idx + 1 ELSE idx - 1
  IN  IF pair < Len(layer) THEN <<layer[pair + 1]>> ELSE <<>>
getProof(el, layers) ==
  LET idx[k \in DOMAIN layers] ==
        IF k = 1 THEN bufIndexOf(el, layers[1]) ELSE idx[k - 1] \div 2
  IN  FlattenSeq([k \in DOMAIN layers |-> getPairElement(idx[k], layers[k])])

\* The contracts' side of it, which sees a claim and the tree's root.
verify(proof, root, leaf) ==
  LET computedHash[i \in 0..Len(proof)] ==
        IF i = 0 THEN leaf
        ELSE IF LessBytes(proof[i], computedHash[i - 1])
             THEN keccak256(proof[i], computedHash[i - 1])
             ELSE keccak256(computedHash[i - 1], proof[i])
  IN  computedHash[Len(proof)] = root

-----------------------------------------------------------------------------
MerkleInit ==
  /\ given = <<>>
  /\ tree = Tree(<<>>)
  /\ proven = <<>>

Distribute(elements) ==
  /\ given = <<>>
  /\ given' = elements
  /\ tree' = Tree(elements)
  /\ proven' = <<>>

\* Of what is not in the tree there is no proof.
getHexProof(el) ==
  /\ bufIndexOf(<<el>>, tree[1]) # -1
  /\ proven' = <<[element |-> el, proof |-> getProof(<<el>>, tree)]>>
  /\ UNCHANGED <<given, tree>>

MerkleNext ==
  \/ \E n \in 0..MaxElements : \E elements \in [1..n -> Elements] : Distribute(elements)
  \/ \E el \in Elements : getHexProof(el)

MerkleSpec == MerkleInit /\ [][MerkleNext]_merkleVars

-----------------------------------------------------------------------------
\* However many elements a list has, in whatever order and however often: every one of
\* them can be proven, and a proof is one that the contracts take for that element and
\* for no other.
ProofsVerify ==
  /\ \A i \in DOMAIN given : bufIndexOf(<<given[i]>>, tree[1]) # -1
  /\ proven # <<>> =>
       \A el \in Elements : verify(proven[1].proof, getRoot(tree), <<el>>) = (el = proven[1].element)

=============================================================================
