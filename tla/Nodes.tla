-------------------------------- MODULE Nodes --------------------------------
(***************************************************************************)
(* A page of the trie as a value: its root node, the nodes of its second   *)
(* level, their hashes, the delta items an update leaves behind, and what  *)
(* is left of nodes and items once they were written to an index file and  *)
(* read again.                                                             *)
(*                                                                         *)
(* A string of bytes is a sequence of tokens, so that the hash of a        *)
(* concatenation is the hash of a sequence: a value is one token, a hash   *)
(* is one token that holds what was hashed, the empty string is <<>>.      *)
(* A hash has 20 bytes (SHA-1) and its field in a file 32 (HASH_SIZE): the *)
(* bytes after it are a token of their own.                                *)
(***************************************************************************)
EXTENDS Integers, SequencesExt

CONSTANTS
    Fanout,   \* DMM_NODE_FANOUT, 16 in the code
    NoNode,   \* the null pointer
    Nul12,    \* 12 zero bytes: the rest of a field with a hash
    Nul32,    \* 32 zero bytes: a field without a hash
    Junk12,   \* 12 bytes from behind the end of a string
    Junk32    \* 32 bytes from behind the end of the empty string

ASSUME FanoutAssumption == Fanout \in Nat \ {0}

Nibble == 0..(Fanout - 1)

EmptyString == <<>>

\* Nothing but equality of hashes is used: equal exactly when the inputs are.
HashFunction(input) == <<[hash |-> input]>>

-----------------------------------------------------------------------------
(* Nodes *)

\* The location of a value that was never written.
NoLocation == [version |-> 0, key |-> <<>>]

NewLeaf == [is_leaf |-> TRUE, version |-> 0, location |-> NoLocation, hash |-> EmptyString]

NoChild == [version |-> 0, hash |-> EmptyString, node |-> NoNode]

\* A new index node; a node of the second level has no pointers.
NewIndex(bitmap) ==
    [is_leaf |-> FALSE, version |-> 0, hash |-> EmptyString, bitmap |-> bitmap,
     children |-> [i \in Nibble |-> NoChild]]

HasChild(node, i) == i \in node.bitmap

\* The entry of the child starts anew.
AddChild(node, i, child) ==
    [node EXCEPT !.bitmap = @ \cup {i}, !.children[i] = [NoChild EXCEPT !.node = child]]

\* Mutant: the entry keeps the version it had.
SetHashOnly(node, i, version, hash) ==
    [node EXCEPT !.bitmap = @ \cup {i}, !.children[i].hash = hash]

\* The pointer to the child stays.
SetChild(node, i, version, hash) ==
    [node EXCEPT !.bitmap = @ \cup {i},
                 !.children[i].version = version,
                 !.children[i].hash = hash]

ConcatenatedHash(node) == FlattenSeq([i \in 1..Fanout |-> node.children[i - 1].hash])

\* Mutant: the hash is of the key and the value.
UpdateLeafWithKey(node, version, location, value) ==
    [node EXCEPT !.version = version,
                 !.location = location,
                 !.hash = IF value = EmptyString THEN EmptyString
                          ELSE HashFunction(location.key \o value)]

\* LeafNode::UpdateNode; the empty value deletes.
UpdateLeaf(node, version, location, value) ==
    [node EXCEPT !.version = version,
                 !.location = location,
                 !.hash = IF value = EmptyString THEN EmptyString ELSE HashFunction(value)]

\* IndexNode::UpdateNode.
UpdateIndex(node, version, i, child_hash) ==
    LET linked == SetChild(node, i, version, child_hash)
    IN  [linked EXCEPT !.version = version, !.hash = HashFunction(ConcatenatedHash(linked))]

-----------------------------------------------------------------------------
(* Updates and delta items *)

\* An item is about the root (place 0) or the child i of it (place i + 1).
LeafItem(place, leaf) ==
    [is_leaf_node |-> TRUE, location_in_page |-> place, version |-> leaf.version,
     hash |-> leaf.hash, location |-> leaf.location]

IndexItem(place, node, i) ==
    [is_leaf_node |-> FALSE, location_in_page |-> place, version |-> node.version,
     hash |-> node.hash, index |-> i, child_hash |-> node.children[i].hash]

Pointer(node, i, child) == [node EXCEPT !.children[i].node = child]

\* The update of a page with one leaf node.
UpdateLeafPage(root, update) ==
    LET leaf == UpdateLeaf(IF root = NoNode THEN NewLeaf ELSE root,
                           update.version, update.location, update.value)
    IN  [root |-> leaf, items |-> <<LeafItem(0, leaf)>>]

\* The child of the root that an update of these nibbles goes to.
ChildFor(root, nibbles) ==
    IF HasChild(root, nibbles[1]) THEN root.children[nibbles[1]].node
    ELSE IF Len(nibbles) = 1 THEN NewLeaf
    ELSE NewIndex({nibbles[2]})

UpdatedChild(root, update) ==
    LET child == ChildFor(root, update.nibbles)
    IN  IF Len(update.nibbles) = 1
        THEN UpdateLeaf(child, update.version, update.location, update.value)
        ELSE UpdateIndex(child, update.version, update.nibbles[2], update.child_hash)

\* Mutant: the root keeps the hash it had.
RootStale(root, version, i, child) ==
    [UpdateIndex(root, version, i, child.hash) EXCEPT !.hash = root.hash]

\* The root above the child that was updated.
UpdatedRoot(root, version, i, child) == UpdateIndex(root, version, i, child.hash)

ChildItem(nibbles, child) ==
    IF Len(nibbles) = 1 THEN LeafItem(nibbles[1] + 1, child)
    ELSE IndexItem(nibbles[1] + 1, child, nibbles[2])

\* The update of a page whose root is an index node, above leaf nodes or
\* index nodes.
UpdateIndexPage(root, update) ==
    LET i == update.nibbles[1]
        old == IF root = NoNode THEN NewIndex({}) ELSE root
        child == UpdatedChild(old, update)
        grown == IF HasChild(old, i) THEN Pointer(old, i, child) ELSE AddChild(old, i, child)
        new == UpdatedRoot(grown, update.version, i, child)
    IN  [root |-> new, items |-> <<ChildItem(update.nibbles, child), IndexItem(0, new, i)>>]

\* BasePage::UpdatePage: the new root and the delta items.
UpdatePage(root, update) ==
    IF update.nibbles = <<>> THEN UpdateLeafPage(root, update)
    ELSE UpdateIndexPage(root, update)

\* The node an item is about.
PlaceOf(item) == item.location_in_page

NewNode(item) == IF item.is_leaf_node THEN NewLeaf ELSE NewIndex({})

\* Mutant: a leaf keeps the hash it had.
ReplayedStale(node, item) ==
    IF item.is_leaf_node
    THEN [node EXCEPT !.version = item.version, !.location = item.location]
    ELSE SetChild([node EXCEPT !.version = item.version, !.hash = item.hash],
                  item.index, item.version, item.child_hash)

Replayed(node, item) ==
    IF item.is_leaf_node
    THEN [node EXCEPT !.version = item.version, !.location = item.location, !.hash = item.hash]
    ELSE SetChild([node EXCEPT !.version = item.version, !.hash = item.hash],
                  item.index, item.version, item.child_hash)

\* BasePage::UpdateDeltaItem.
UpdateDeltaItem(root, item) ==
    LET old == IF root # NoNode THEN root
               ELSE IF PlaceOf(item) = 0 THEN NewNode(item) ELSE NewIndex({})
        i == PlaceOf(item) - 1
    IN  IF PlaceOf(item) = 0 THEN Replayed(old, item)
        ELSE IF HasChild(old, i) THEN Pointer(old, i, Replayed(old.children[i].node, item))
        ELSE AddChild(old, i, Replayed(NewNode(item), item))

-----------------------------------------------------------------------------
(* Written to a file and read again *)

ZeroPads == [short |-> Nul12, long |-> Nul32]
JunkPads == [short |-> Junk12, long |-> Junk32]

\* The field of 32 bytes that a string of 0, 20 or 32 bytes comes back as.
Field(s, pads) ==
    IF s = EmptyString THEN <<pads.long>>
    ELSE IF Len(s) = 1 /\ s[1] \notin {Nul32, Junk32} THEN Append(s, pads.short)
    ELSE s

\* A page's buffer is cleared before nodes are copied into it.
ReadLeaf(node) == [node EXCEPT !.hash = Field(@, ZeroPads)]

ReadEntry(entry) == [entry EXCEPT !.hash = Field(@, ZeroPads)]

\* A node of the second level keeps the entries of its children.
ReadSecondIndex(node) ==
    [node EXCEPT !.hash = Field(@, ZeroPads),
                 !.children = [i \in Nibble |->
                     IF HasChild(node, i) THEN ReadEntry(node.children[i]) ELSE NoChild]]

ReadSecond(node) == IF node.is_leaf THEN ReadLeaf(node) ELSE ReadSecondIndex(node)

\* In the root the entries are read, then AddChild puts them back to empty.
ReadRoot(node) ==
    IF node.is_leaf THEN ReadLeaf(node)
    ELSE [node EXCEPT !.hash = Field(@, ZeroPads),
                      !.children = [i \in Nibble |->
                          IF HasChild(node, i)
                          THEN [NoChild EXCEPT !.node = ReadSecond(node.children[i].node)]
                          ELSE NoChild]]

\* A delta item copies 32 bytes of a string whatever its length.
ReadItem(item, pads) ==
    IF item.is_leaf_node THEN [item EXCEPT !.hash = Field(@, pads)]
    ELSE [item EXCEPT !.hash = Field(@, pads), !.child_hash = Field(@, pads)]

-----------------------------------------------------------------------------
(* Proofs *)

NodeProof(level, node, i) ==
    [level |-> level, index |-> i, sibling_hash |-> [j \in Nibble |-> node.children[j].hash]]

\* The hash of a node whose child has this hash, the others as in the proof.
HashAbove(hash, node_proof) ==
    HashFunction(FlattenSeq([i \in 1..Fanout |->
        IF i - 1 = node_proof.index THEN hash ELSE node_proof.sibling_hash[i - 1]]))

\* The hashes from that of the value up, one for each node of the proof.
HashesUp(value, proofs) ==
    LET up[i \in 0..Len(proofs)] ==
            IF i = 0 THEN HashFunction(value) ELSE HashAbove(up[i - 1], proofs[i])
    IN  up

\* Mutant: the hash of the value stays in every node of the path.
HashOfValue(value, proofs, i) == HashFunction(value)

\* The hash that the i-th node of the path is entered with.
HashBelow(value, proofs, i) == HashesUp(value, proofs)[i - 1]

\* LetusProof: the path a client is handed, from the leaf up.
ProofPath(value, proofs) ==
    [i \in DOMAIN proofs |->
        [is_data |-> i = 1, index |-> Len(proofs) - i,
         hash |-> HashBelow(value, proofs, i), inodes |-> proofs[i].sibling_hash]]

\* Verify of a proof.
Verify(value, root_hash, proofs) == HashesUp(value, proofs)[Len(proofs)] = root_hash
=============================================================================
