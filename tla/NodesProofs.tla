------------------------------ MODULE NodesProofs ------------------------------
(***************************************************************************)
(* Proofs about Nodes: the delta items that an update of a page leaves     *)
(* behind, replayed on the page as it was, give the page as it is after    *)
(* the update, whatever the fanout and the nodes.                          *)
(***************************************************************************)
EXTENDS Nodes, SequenceTheorems, WellFoundedInduction, FiniteSetTheorems, TLAPS

\* A record with the fields of a leaf node.
LeafNode(n) ==
    n \in [is_leaf : {TRUE}, version : {n.version}, location : {n.location}, hash : {n.hash}]

\* The entry of a child.
ChildEntry(e) == e \in [version : {e.version}, hash : {e.hash}, node : {e.node}]

\* A record with the fields of an index node.
IndexNode(n) ==
    /\ n \in [is_leaf : {FALSE}, version : {n.version}, hash : {n.hash},
              bitmap : {n.bitmap}, children : {n.children}]
    /\ n.children = [i \in Nibble |-> n.children[i]]
    /\ \A i \in Nibble : ChildEntry(n.children[i])

\* The nodes of the second level are leaf nodes when the page has one level of
\* nibbles, and index nodes when it has two.
SecondLevel(root, depth) ==
    \A i \in Nibble : HasChild(root, i) =>
        IF depth = 1 THEN LeafNode(root.children[i].node)
        ELSE IndexNode(root.children[i].node)

\* The root of a page whose keys go on for this many nibbles.
PageRoot(root, depth) ==
    \/ root = NoNode
    \/ root # NoNode /\ depth = 0 /\ LeafNode(root)
    \/ root # NoNode /\ depth > 0 /\ IndexNode(root) /\ SecondLevel(root, depth)

-----------------------------------------------------------------------------
(* Nodes *)

LEMMA NewNodes ==
    /\ LeafNode(NewLeaf)
    /\ \A bitmap : IndexNode(NewIndex(bitmap)) /\ NewIndex(bitmap).bitmap = bitmap
<1>1. LeafNode(NewLeaf)
  BY DEF LeafNode, NewLeaf
<1>2. ASSUME NEW bitmap
      PROVE  IndexNode(NewIndex(bitmap)) /\ NewIndex(bitmap).bitmap = bitmap
  <2> DEFINE n == NewIndex(bitmap)
  <2>1. ChildEntry(NoChild)
    BY DEF ChildEntry, NoChild
  <2>2. n.children = [i \in Nibble |-> NoChild] /\ n.bitmap = bitmap
    BY DEF NewIndex
  <2>3. n \in [is_leaf : {FALSE}, version : {n.version}, hash : {n.hash},
               bitmap : {n.bitmap}, children : {n.children}]
    BY DEF NewIndex
  <2> QED
    BY <2>1, <2>2, <2>3 DEF IndexNode
<1> QED
  BY <1>1, <1>2

\* The hash of a leaf node with this value.
HashOfLeaf(value) == IF value = EmptyString THEN EmptyString ELSE HashFunction(value)

\* Leaf nodes with the same fields are the same.
LEMMA SameLeaf ==
    ASSUME NEW m, NEW n, LeafNode(m), LeafNode(n),
           m.version = n.version, m.location = n.location, m.hash = n.hash
    PROVE  m = n
<1> DEFINE S == [is_leaf : {TRUE}, version : {n.version}, location : {n.location},
                 hash : {n.hash}]
<1>1. m \in S /\ n \in S
  BY DEF LeafNode
<1>2. m.is_leaf = n.is_leaf
  BY <1>1
<1> QED
  BY <1>1, <1>2

LEMMA SameIndex ==
    ASSUME NEW m, NEW n, IndexNode(m), IndexNode(n),
           m.version = n.version, m.hash = n.hash, m.bitmap = n.bitmap, m.children = n.children
    PROVE  m = n
<1> DEFINE S == [is_leaf : {FALSE}, version : {n.version}, hash : {n.hash},
                 bitmap : {n.bitmap}, children : {n.children}]
<1>1. m \in S /\ n \in S
  BY DEF IndexNode
<1>2. m.is_leaf = n.is_leaf
  BY <1>1
<1> QED
  BY <1>1, <1>2

\* A leaf node after an update.
LEMMA LeafUpdated ==
    ASSUME NEW n, LeafNode(n), NEW version, NEW location, NEW value
    PROVE  LET leaf == UpdateLeaf(n, version, location, value)
           IN  /\ LeafNode(leaf)
               /\ leaf.version = version /\ leaf.location = location
               /\ leaf.hash = HashOfLeaf(value)
BY DEF LeafNode, UpdateLeaf, HashOfLeaf

\* The item of a leaf node says all of the update.
LEMMA LeafReplayed ==
    ASSUME NEW n, LeafNode(n), NEW leaf, LeafNode(leaf), NEW place
    PROVE  Replayed(n, LeafItem(place, leaf)) = leaf
<1> DEFINE item == LeafItem(place, leaf)
           m == [n EXCEPT !.version = leaf.version, !.location = leaf.location,
                          !.hash = leaf.hash]
<1>1. Replayed(n, item) = m
  BY DEF Replayed, LeafItem
<1>2. /\ LeafNode(m)
      /\ m.version = leaf.version /\ m.location = leaf.location /\ m.hash = leaf.hash
  BY DEF LeafNode
<1> QED
  BY <1>1, <1>2, SameLeaf

\* The entries after one of them has got a version and a hash.
Linked(children, i, version, hash) ==
    [children EXCEPT ![i] = [children[i] EXCEPT !.version = version, !.hash = hash]]

LEMMA ChildLinked ==
    ASSUME NEW n, IndexNode(n), NEW version, NEW i \in Nibble, NEW hash
    PROVE  LET node == SetChild(n, i, version, hash)
           IN  /\ IndexNode(node)
               /\ node.version = n.version /\ node.hash = n.hash
               /\ node.bitmap = n.bitmap \cup {i}
               /\ node.children = Linked(n.children, i, version, hash)
               /\ node.children[i].hash = hash
<1> DEFINE e == [n.children[i] EXCEPT !.version = version, !.hash = hash]
           c == Linked(n.children, i, version, hash)
           node == SetChild(n, i, version, hash)
<1>1. ChildEntry(n.children[i])
  BY DEF IndexNode
<1>2. ChildEntry(e) /\ e.hash = hash
  BY <1>1 DEF ChildEntry
<1>3. c = [j \in Nibble |-> IF j = i THEN e ELSE n.children[j]]
  BY DEF Linked, IndexNode
<1> HIDE DEF e, c
<1>4. node = [n EXCEPT !.bitmap = n.bitmap \cup {i}, !.children = c]
  BY DEF SetChild, c, Linked, IndexNode
<1>5. /\ node \in [is_leaf : {FALSE}, version : {n.version}, hash : {n.hash},
                   bitmap : {n.bitmap \cup {i}}, children : {c}]
  BY <1>4 DEF IndexNode
<1> HIDE DEF node
<1>6. /\ node.version = n.version /\ node.hash = n.hash
      /\ node.bitmap = n.bitmap \cup {i} /\ node.children = c
  BY <1>5
<1>7. c[i] = e /\ c = [j \in Nibble |-> c[j]] /\ \A j \in Nibble : ChildEntry(c[j])
  BY <1>2, <1>3 DEF IndexNode
<1>8. IndexNode(node)
  BY <1>5, <1>6, <1>7 DEF IndexNode
<1> QED
  BY <1>2, <1>6, <1>7, <1>8 DEF node, c

\* An index node after an update of one child.
LEMMA IndexUpdated ==
    ASSUME NEW n, IndexNode(n), NEW version, NEW i \in Nibble, NEW child_hash
    PROVE  LET node == UpdateIndex(n, version, i, child_hash)
           IN  /\ IndexNode(node)
               /\ node.version = version
               /\ node.bitmap = n.bitmap \cup {i}
               /\ node.children = Linked(n.children, i, version, child_hash)
               /\ node.children[i].hash = child_hash
<1> DEFINE linked == SetChild(n, i, version, child_hash)
           h == HashFunction(ConcatenatedHash(linked))
<1>1. /\ IndexNode(linked)
      /\ linked.bitmap = n.bitmap \cup {i}
      /\ linked.children = Linked(n.children, i, version, child_hash)
      /\ linked.children[i].hash = child_hash
  BY ChildLinked
<1>2. UpdateIndex(n, version, i, child_hash) = [linked EXCEPT !.version = version, !.hash = h]
  BY DEF UpdateIndex
<1> HIDE DEF linked, h
<1> QED
  BY <1>1, <1>2 DEF IndexNode

\* The item of an index node says all of an update of one child.
LEMMA IndexReplayed ==
    ASSUME NEW n, IndexNode(n), NEW node, IndexNode(node), NEW i \in Nibble, NEW place,
           node.bitmap = n.bitmap \cup {i},
           node.children = Linked(n.children, i, node.version, node.children[i].hash)
    PROVE  Replayed(n, IndexItem(place, node, i)) = node
<1> DEFINE m == [n EXCEPT !.version = node.version, !.hash = node.hash]
           r == SetChild(m, i, node.version, node.children[i].hash)
<1>1. Replayed(n, IndexItem(place, node, i)) = r
  BY DEF Replayed, IndexItem
<1>2. /\ IndexNode(m)
      /\ m.version = node.version /\ m.hash = node.hash
      /\ m.bitmap = n.bitmap /\ m.children = n.children
  BY DEF IndexNode
<1> HIDE DEF m
<1>3. /\ IndexNode(r)
      /\ r.version = m.version /\ r.hash = m.hash
      /\ r.bitmap = m.bitmap \cup {i}
      /\ r.children = Linked(m.children, i, node.version, node.children[i].hash)
  BY <1>2, ChildLinked
<1> HIDE DEF r
<1> QED
  BY <1>1, <1>2, <1>3, SameIndex

-----------------------------------------------------------------------------
(* Pages *)

\* The root with its child, before its own fields are updated.
Grown(root, i, child) ==
    IF HasChild(root, i) THEN Pointer(root, i, child) ELSE AddChild(root, i, child)

\* What the root is like with its child.
LEMMA GrownIndex ==
    ASSUME NEW root, IndexNode(root), NEW i \in Nibble, NEW child
    PROVE  /\ IndexNode(Grown(root, i, child))
           /\ Grown(root, i, child).bitmap = root.bitmap \cup {i}
           /\ \A j \in Nibble : Grown(root, i, child).children[j].node =
                  IF j = i THEN child ELSE root.children[j].node
<1> DEFINE kept == [root.children[i] EXCEPT !.node = child]
           fresh == [NoChild EXCEPT !.node = child]
           p == Pointer(root, i, child)
           a == AddChild(root, i, child)
<1>1. ChildEntry(root.children[i])
  BY DEF IndexNode
<1>2. ChildEntry(kept) /\ kept.node = child
  BY <1>1 DEF ChildEntry
<1>3. ChildEntry(fresh) /\ fresh.node = child
  BY DEF ChildEntry, NoChild
<1> HIDE DEF kept, fresh
<1>4. p = [root EXCEPT !.children = [root.children EXCEPT ![i] = kept]]
  BY DEF Pointer, IndexNode, kept
<1>5. a = [root EXCEPT !.bitmap = root.bitmap \cup {i},
                       !.children = [root.children EXCEPT ![i] = fresh]]
  BY DEF AddChild, IndexNode, fresh
<1> HIDE DEF p, a
<1>6. /\ IndexNode(p) /\ p.bitmap = root.bitmap
      /\ \A j \in Nibble : p.children[j] = IF j = i THEN kept ELSE root.children[j]
  BY <1>2, <1>4 DEF IndexNode
<1>7. /\ IndexNode(a) /\ a.bitmap = root.bitmap \cup {i}
      /\ \A j \in Nibble : a.children[j] = IF j = i THEN fresh ELSE root.children[j]
  BY <1>3, <1>5 DEF IndexNode
<1>8. CASE HasChild(root, i)
  <2>1. Grown(root, i, child) = p /\ root.bitmap = root.bitmap \cup {i}
    BY <1>8 DEF Grown, HasChild, p
  <2> QED
    BY <1>2, <1>6, <2>1
<1>9. CASE ~HasChild(root, i)
  <2>1. Grown(root, i, child) = a
    BY <1>9 DEF Grown, a
  <2> QED
    BY <1>3, <1>7, <2>1
<1> QED
  BY <1>8, <1>9

\* The root a page starts from.
OldRoot(root) == IF root = NoNode THEN NewIndex({}) ELSE root

\* An update of the keys below the page.
NibblesFit(update, depth) ==
    /\ update.nibbles \in Seq(Nibble)
    /\ Len(update.nibbles) = depth

\* The item of the child, replayed on the root, gives the root with the child.
LEMMA ChildReplayed ==
    ASSUME NEW update, NEW depth \in {1, 2}, NibblesFit(update, depth),
           NEW root, PageRoot(root, depth)
    PROVE  LET i == update.nibbles[1]
               old == OldRoot(root)
               child == UpdatedChild(old, update)
           IN  /\ i \in Nibble /\ IndexNode(old) /\ SecondLevel(old, depth)
               /\ IF depth = 1 THEN LeafNode(child) ELSE IndexNode(child)
               /\ child.version = update.version
               /\ depth = 1 => child.location = update.location
               /\ UpdateDeltaItem(root, ChildItem(update.nibbles, child)) = Grown(old, i, child)
<1> DEFINE i == update.nibbles[1]
           old == OldRoot(root)
           was == ChildFor(old, update.nibbles)
           child == UpdatedChild(old, update)
           item == ChildItem(update.nibbles, child)
           from == IF HasChild(old, i) THEN old.children[i].node ELSE NewNode(item)
<1>1. /\ i \in Nibble /\ i \in Nat /\ Len(update.nibbles) = depth
      /\ depth = 2 => update.nibbles[2] \in Nibble
  BY FanoutAssumption DEF NibblesFit, Nibble
<1>2. IndexNode(old) /\ SecondLevel(old, depth)
  BY NewNodes DEF PageRoot, OldRoot, SecondLevel, HasChild
<1>3. /\ item.location_in_page = i + 1
      /\ depth = 1 => item.is_leaf_node
      /\ depth = 2 => ~item.is_leaf_node
  BY <1>1 DEF ChildItem, LeafItem, IndexItem
<1>4. ASSUME depth = 1
      PROVE  /\ LeafNode(child) /\ Replayed(from, item) = child
             /\ child.version = update.version /\ child.location = update.location
  <2>1. LeafNode(was)
    BY <1>1, <1>2, <1>4, NewNodes DEF ChildFor, HasChild, SecondLevel
  <2>2. child = UpdateLeaf(was, update.version, update.location, update.value)
    BY <1>1, <1>4 DEF UpdatedChild
  <2>3. /\ LeafNode(child)
        /\ child.version = update.version /\ child.location = update.location
    BY <2>1, <2>2, LeafUpdated
  <2>4. item = LeafItem(i + 1, child)
    BY <1>1, <1>4 DEF ChildItem
  <2>5. LeafNode(from)
    BY <1>1, <1>2, <1>3, <1>4, NewNodes DEF HasChild, SecondLevel, NewNode
  <2>6. Replayed(from, item) = child
    BY <2>3, <2>4, <2>5, LeafReplayed
  <2> QED
    BY <2>3, <2>6
<1>5. ASSUME depth = 2
      PROVE  /\ IndexNode(child) /\ Replayed(from, item) = child
             /\ child.version = update.version
  <2> DEFINE k == update.nibbles[2]
  <2>1. k \in Nibble
    BY <1>1, <1>5
  <2>2. was = IF HasChild(old, i) THEN old.children[i].node ELSE NewIndex({k})
    BY <1>1, <1>5 DEF ChildFor
  <2>3. IndexNode(was)
    BY <1>1, <1>2, <1>5, <2>2, NewNodes DEF HasChild, SecondLevel
  <2>4. child = UpdateIndex(was, update.version, k, update.child_hash)
    BY <1>1, <1>5 DEF UpdatedChild
  <2>5. /\ IndexNode(child) /\ child.bitmap = was.bitmap \cup {k}
        /\ child.version = update.version
        /\ child.children = Linked(was.children, k, child.version, child.children[k].hash)
    BY <2>1, <2>3, <2>4, IndexUpdated
  <2>6. item = IndexItem(i + 1, child, k)
    BY <1>1, <1>5 DEF ChildItem
  <2>7. from = IF HasChild(old, i) THEN old.children[i].node ELSE NewIndex({})
    BY <1>3, <1>5 DEF NewNode
  <2>8. /\ IndexNode(from) /\ child.bitmap = from.bitmap \cup {k}
        /\ was.children = from.children
    <3>1. CASE HasChild(old, i)
      BY <2>2, <2>3, <2>5, <2>7, <3>1
    <3>2. CASE ~HasChild(old, i)
      <4>1. was = NewIndex({k}) /\ from = NewIndex({})
        BY <2>2, <2>7, <3>2
      <4>2. was.children = from.children
        BY <4>1 DEF NewIndex
      <4> QED
        BY <2>5, <4>1, <4>2, NewNodes
    <3> QED
      BY <3>1, <3>2
  <2>9. Replayed(from, item) = child
    BY <2>1, <2>5, <2>6, <2>8, IndexReplayed
  <2> QED
    BY <2>5, <2>9
<1> HIDE DEF item, child
<1>6. UpdateDeltaItem(root, item) = Grown(old, i, Replayed(from, item))
  <2>1. item.location_in_page # 0 /\ item.location_in_page - 1 = i
    BY <1>1, <1>3
  <2>2. (IF root # NoNode THEN root
         ELSE IF PlaceOf(item) = 0 THEN NewNode(item) ELSE NewIndex({})) = old
    BY <2>1 DEF OldRoot, PlaceOf
  <2> QED
    BY <2>1, <2>2 DEF UpdateDeltaItem, Grown, PlaceOf
<1>7. /\ IF depth = 1 THEN LeafNode(child) ELSE IndexNode(child)
      /\ Replayed(from, item) = child
      /\ child.version = update.version
      /\ depth = 1 => child.location = update.location
  BY <1>4, <1>5
<1> QED
  BY <1>1, <1>2, <1>6, <1>7 DEF item, child

\* The new root of a page has the shape of a root, and is the old root with
\* the child, updated.
LEMMA RootUpdated ==
    ASSUME \A n : IndexNode(n) => n # NoNode,
           NEW update, NEW depth \in {1, 2}, NibblesFit(update, depth),
           NEW root, PageRoot(root, depth)
    PROVE  LET i == update.nibbles[1]
               child == UpdatedChild(OldRoot(root), update)
               grown == Grown(OldRoot(root), i, child)
               new == UpdatedRoot(grown, update.version, i, child)
           IN  /\ UpdatePage(root, update) =
                     [root |-> new,
                      items |-> <<ChildItem(update.nibbles, child), IndexItem(0, new, i)>>]
               /\ UpdateDeltaItem(grown, IndexItem(0, new, i)) = new
               /\ new.version = update.version
               /\ PageRoot(new, depth)
<1> DEFINE i == update.nibbles[1]
           old == OldRoot(root)
           child == UpdatedChild(old, update)
           grown == Grown(old, i, child)
           new == UpdatedRoot(grown, update.version, i, child)
           item == IndexItem(0, new, i)
<1>1. /\ i \in Nibble /\ IndexNode(old) /\ SecondLevel(old, depth)
      /\ IF depth = 1 THEN LeafNode(child) ELSE IndexNode(child)
  BY ChildReplayed
<1> HIDE DEF i, child
<1>2. /\ IndexNode(grown)
      /\ grown.bitmap = old.bitmap \cup {i}
      /\ \A j \in Nibble : grown.children[j].node =
             IF j = i THEN child ELSE old.children[j].node
  BY <1>1, GrownIndex
<1> HIDE DEF grown
<1>3. /\ IndexNode(new)
      /\ new.version = update.version
      /\ new.bitmap = grown.bitmap \cup {i}
      /\ new.children = Linked(grown.children, i, update.version, child.hash)
      /\ new.children[i].hash = child.hash
  BY <1>1, <1>2, IndexUpdated DEF UpdatedRoot
<1> HIDE DEF new
<1>4. Replayed(grown, item) = new
  BY <1>1, <1>2, <1>3, IndexReplayed
<1>5. UpdateDeltaItem(grown, item) = new
  <2>1. item.location_in_page = 0 /\ grown # NoNode
    BY <1>2 DEF IndexItem
  <2> QED
    BY <1>4, <2>1 DEF UpdateDeltaItem, PlaceOf
<1>6. \A j \in Nibble : new.children[j].node = IF j = i THEN child ELSE old.children[j].node
  <2>1. \A j \in Nibble : ChildEntry(grown.children[j])
    BY <1>2 DEF IndexNode
  <2>2. new.children = [j \in Nibble |->
          IF j = i THEN [grown.children[i] EXCEPT !.version = update.version, !.hash = child.hash]
          ELSE grown.children[j]]
    BY <1>2, <1>3 DEF Linked, IndexNode
  <2>3. \A j \in Nibble : new.children[j].node = grown.children[j].node
    BY <1>1, <2>1, <2>2 DEF ChildEntry
  <2> QED
    BY <1>2, <2>3
<1>7. SecondLevel(new, depth)
  <2>1. SecondLevel(old, depth)
    BY <1>1
  <2>2. \A j \in new.bitmap : j = i \/ j \in old.bitmap
    BY <1>2, <1>3
  <2> QED
    BY <1>1, <1>6, <2>1, <2>2 DEF SecondLevel, HasChild
<1>8. PageRoot(new, depth)
  BY <1>3, <1>7 DEF PageRoot
<1>9. UpdatePage(root, update) =
        [root |-> new, items |-> <<ChildItem(update.nibbles, child), item>>]
  <2>1. update.nibbles # <<>>
    BY DEF NibblesFit
  <2> QED
    BY <2>1 DEF UpdatePage, UpdateIndexPage, OldRoot, Grown, new, grown, child, i
<1> QED
  BY <1>3, <1>5, <1>8, <1>9 DEF new, grown, child, i

\* Replaying the delta items of an update on the page as it was gives the page
\* as the update left it: a page with one leaf node, a page with one level of
\* nibbles and a page with two.  The page keeps its shape, so that it holds
\* for the items of any number of updates one after the other: what LoadPage
\* replays is what UpdatePage recorded.
THEOREM ItemsReplay ==
    ASSUME \A n : LeafNode(n) \/ IndexNode(n) => n # NoNode,
           NEW update, NEW depth \in 0..2, NibblesFit(update, depth),
           NEW root, PageRoot(root, depth)
    PROVE  LET after == UpdatePage(root, update)
           IN  /\ depth = 0 => UpdateDeltaItem(root, after.items[1]) = after.root
               /\ depth # 0 => UpdateDeltaItem(UpdateDeltaItem(root, after.items[1]),
                                               after.items[2]) = after.root
               /\ PageRoot(after.root, depth)
<1>1. ASSUME depth = 0
      PROVE  LET after == UpdatePage(root, update)
             IN  /\ UpdateDeltaItem(root, after.items[1]) = after.root
                 /\ PageRoot(after.root, depth)
  <2> DEFINE old == IF root = NoNode THEN NewLeaf ELSE root
             leaf == UpdateLeaf(old, update.version, update.location, update.value)
             item == LeafItem(0, leaf)
  <2>1. update.nibbles = <<>>
    BY <1>1 DEF NibblesFit
  <2>2. UpdatePage(root, update) = [root |-> leaf, items |-> <<item>>]
    BY <2>1 DEF UpdatePage, UpdateLeafPage
  <2>3. LeafNode(old)
    BY <1>1, NewNodes DEF PageRoot
  <2> HIDE DEF old
  <2>4. LeafNode(leaf)
    BY <2>3, LeafUpdated
  <2> HIDE DEF leaf
  <2>5. Replayed(old, item) = leaf
    BY <2>3, <2>4, LeafReplayed
  <2>6. item.location_in_page = 0 /\ item.is_leaf_node
    BY DEF LeafItem
  <2>7. UpdateDeltaItem(root, item) = Replayed(old, item)
    BY <2>6 DEF UpdateDeltaItem, PlaceOf, NewNode, old
  <2>8. PageRoot(leaf, depth)
    BY <1>1, <2>4 DEF PageRoot
  <2> QED
    BY <2>2, <2>5, <2>7, <2>8
<1>2. ASSUME depth \in {1, 2}
      PROVE  LET after == UpdatePage(root, update)
             IN  /\ UpdateDeltaItem(UpdateDeltaItem(root, after.items[1]), after.items[2])
                        = after.root
                 /\ PageRoot(after.root, depth)
  <2> DEFINE i == update.nibbles[1]
             child == UpdatedChild(OldRoot(root), update)
             grown == Grown(OldRoot(root), i, child)
             new == UpdatedRoot(grown, update.version, i, child)
             first == ChildItem(update.nibbles, child)
             second == IndexItem(0, new, i)
  <2>1. /\ UpdatePage(root, update) = [root |-> new, items |-> <<first, second>>]
        /\ UpdateDeltaItem(grown, second) = new
        /\ PageRoot(new, depth)
    BY <1>2, RootUpdated
  <2>2. UpdateDeltaItem(root, first) = grown
    BY <1>2, ChildReplayed
  <2> HIDE DEF first, second, grown, new
  <2> QED
    BY <2>1, <2>2
<1> QED
  BY <1>1, <1>2

-----------------------------------------------------------------------------
(* Pairs of items, as they were made or as a file gives them back *)

\* The null pointer is no node.
NullIsNoNode == \A n : LeafNode(n) \/ IndexNode(n) => n # NoNode

\* The nibbles of the keys below a page.
Paths(depth) == [1..depth -> Nibble]

\* An entry that was never set has no version.
Zeroed(node) == \A j \in Nibble : ~HasChild(node, j) => node.children[j].version = 0

PageShape(root, depth) ==
    /\ PageRoot(root, depth)
    /\ root # NoNode /\ depth = 2 =>
           \A i \in Nibble : HasChild(root, i) => Zeroed(root.children[i].node)

LeafHere(item, place, version, location) ==
    /\ item.is_leaf_node
    /\ item.location_in_page = place
    /\ item.version = version
    /\ item.location = location

IndexHere(item, place, version, i) ==
    /\ ~item.is_leaf_node
    /\ item.location_in_page = place
    /\ item.version = version
    /\ item.index = i

\* The items of one update below these nibbles: one of the child, unless the page
\* is a leaf node, and one of the root.
ItemsFor(child_item, root_item, nibbles, version, location) ==
    IF Len(nibbles) = 0 THEN LeafHere(root_item, 0, version, location)
    ELSE /\ IndexHere(root_item, 0, version, nibbles[1])
         /\ IF Len(nibbles) = 1 THEN LeafHere(child_item, nibbles[1] + 1, version, location)
            ELSE IndexHere(child_item, nibbles[1] + 1, version, nibbles[2])

\* The page after them.
AfterItems(root, child_item, root_item, depth) ==
    IF depth = 0 THEN UpdateDeltaItem(root, root_item)
    ELSE UpdateDeltaItem(UpdateDeltaItem(root, child_item), root_item)

\* What the page says of the keys below these nibbles: the version of the child
\* page, or the location in the leaf; version 0 where there is nothing.
LeafLinks(leaf, version, path) ==
    version # 0 /\ leaf.location = [version |-> version, key |-> path]

Links(root, nibbles, version, path) ==
    IF root = NoNode THEN version = 0
    ELSE IF Len(nibbles) = 0 THEN LeafLinks(root, version, path)
    ELSE IF ~HasChild(root, nibbles[1]) THEN version = 0
    ELSE IF Len(nibbles) = 1 THEN LeafLinks(root.children[nibbles[1]].node, version, path)
    ELSE root.children[nibbles[1]].node.children[nibbles[2]].version = version

\* The same but for the keys below these nibbles.
SameLinks(root, new, depth, nibbles) ==
    \A other \in Paths(depth) : other # nibbles =>
        \A version, path : Links(root, other, version, path) => Links(new, other, version, path)

LEMMA PathsAreSequences ==
    ASSUME NEW depth \in 0..2
    PROVE  /\ \A m \in Paths(depth) : m \in Seq(Nibble) /\ Len(m) = depth
           /\ \A m \in Paths(depth) : \A i \in 1..depth : m[i] \in Nibble
           /\ \A m \in Seq(Nibble) : Len(m) = depth => m \in Paths(depth)
           /\ \A m, n \in Paths(depth) : (\A i \in 1..depth : m[i] = n[i]) => m = n
BY DEF Paths

LEMMA LeafItemReplayed ==
    ASSUME NEW n, LeafNode(n), NEW item, item.is_leaf_node
    PROVE  LeafNode(Replayed(n, item)) /\ Replayed(n, item).location = item.location
BY DEF Replayed, LeafNode

LEMMA IndexItemReplayed ==
    ASSUME NEW n, IndexNode(n), NEW item, ~item.is_leaf_node, item.index \in Nibble
    PROVE  LET node == Replayed(n, item)
           IN  /\ IndexNode(node)
               /\ node.bitmap = n.bitmap \cup {item.index}
               /\ \A j \in Nibble :
                     /\ node.children[j].node = n.children[j].node
                     /\ node.children[j].version =
                           IF j = item.index THEN item.version ELSE n.children[j].version
<1> DEFINE m == [n EXCEPT !.version = item.version, !.hash = item.hash]
           i == item.index
           node == SetChild(m, i, item.version, item.child_hash)
<1>1. Replayed(n, item) = node
  BY DEF Replayed
<1>2. IndexNode(m) /\ m.bitmap = n.bitmap /\ m.children = n.children
  BY DEF IndexNode
<1> HIDE DEF m
<1>3. /\ IndexNode(node)
      /\ node.bitmap = m.bitmap \cup {i}
      /\ node.children = Linked(m.children, i, item.version, item.child_hash)
  BY <1>2, ChildLinked
<1> HIDE DEF node
<1>4. n.children = [j \in Nibble |-> n.children[j]] /\ \A j \in Nibble : ChildEntry(n.children[j])
  BY DEF IndexNode
<1>5. node.children = [j \in Nibble |->
         IF j = i THEN [n.children[i] EXCEPT !.version = item.version, !.hash = item.child_hash]
         ELSE n.children[j]]
  BY <1>2, <1>3, <1>4 DEF Linked
<1>6. ASSUME NEW j \in Nibble
      PROVE  /\ node.children[j].node = n.children[j].node
             /\ node.children[j].version =
                   IF j = i THEN item.version ELSE n.children[j].version
  <2> DEFINE e == n.children[i]
             f == [e EXCEPT !.version = item.version, !.hash = item.child_hash]
  <2>1. f.node = e.node /\ f.version = item.version
    BY <1>4 DEF ChildEntry
  <2>2. node.children[j] = IF j = i THEN f ELSE n.children[j]
    BY <1>5
  <2> HIDE DEF f
  <2> QED
    BY <2>1, <2>2
<1> QED
  BY <1>1, <1>2, <1>3, <1>6

\* The child after its item.
ReplayedChild(root, i, item) ==
    Replayed(IF HasChild(OldRoot(root), i) THEN OldRoot(root).children[i].node
             ELSE NewNode(item), item)

\* The item of the child puts it below the root.
LEMMA ChildItemReplayed ==
    ASSUME NEW depth \in {1, 2}, NEW root, PageShape(root, depth),
           NEW nibbles \in Paths(depth), NEW item,
           depth = 1 => LeafHere(item, nibbles[1] + 1, item.version, item.location),
           depth = 2 => IndexHere(item, nibbles[1] + 1, item.version, nibbles[2])
    PROVE  LET i == nibbles[1]
               old == OldRoot(root)
               child == ReplayedChild(root, i, item)
           IN  /\ UpdateDeltaItem(root, item) = Grown(old, i, child)
               /\ depth = 1 => LeafNode(child) /\ child.location = item.location
               /\ depth = 2 =>
                     /\ IndexNode(child) /\ Zeroed(child)
                     /\ child.children[nibbles[2]].version = item.version
                     /\ \A j \in Nibble : j # nibbles[2] =>
                           child.children[j].version =
                               IF HasChild(old, i) THEN old.children[i].node.children[j].version
                               ELSE 0
<1> DEFINE i == nibbles[1]
           old == OldRoot(root)
           was == IF HasChild(old, i) THEN old.children[i].node ELSE NewNode(item)
           child == Replayed(was, item)
<1>0. child = ReplayedChild(root, i, item)
  BY DEF ReplayedChild
<1>1. i \in Nibble /\ (depth = 2 => nibbles[2] \in Nibble)
  BY PathsAreSequences
<1>2. IndexNode(old) /\ SecondLevel(old, depth)
  BY NewNodes DEF PageShape, PageRoot, OldRoot, SecondLevel, HasChild
<1>3. UpdateDeltaItem(root, item) = Grown(old, i, child)
  <2>1. item.location_in_page = i + 1
    BY DEF LeafHere, IndexHere
  <2>2. item.location_in_page # 0 /\ item.location_in_page - 1 = i
    BY <1>1, <2>1, FanoutAssumption DEF Nibble
  <2>3. (IF root # NoNode THEN root
         ELSE IF PlaceOf(item) = 0 THEN NewNode(item) ELSE NewIndex({})) = old
    BY <2>2 DEF OldRoot, PlaceOf
  <2> QED
    BY <2>2, <2>3 DEF UpdateDeltaItem, Grown, PlaceOf
<1>4. ASSUME depth = 1 PROVE LeafNode(child) /\ child.location = item.location
  <2>1. item.is_leaf_node
    BY <1>4 DEF LeafHere
  <2>2. LeafNode(was)
    BY <1>1, <1>2, <1>4, <2>1, NewNodes DEF SecondLevel, NewNode
  <2> QED
    BY <2>1, <2>2, LeafItemReplayed
<1>5. ASSUME depth = 2
      PROVE  /\ IndexNode(child) /\ Zeroed(child)
             /\ child.children[nibbles[2]].version = item.version
             /\ \A j \in Nibble : j # nibbles[2] =>
                   child.children[j].version =
                       IF HasChild(old, i) THEN old.children[i].node.children[j].version ELSE 0
  <2> DEFINE k == nibbles[2]
  <2>1. ~item.is_leaf_node /\ item.index = k
    BY <1>5 DEF IndexHere
  <2>2. was = IF HasChild(old, i) THEN old.children[i].node ELSE NewIndex({})
    BY <2>1 DEF NewNode
  <2>3. IndexNode(was) /\ Zeroed(was)
    <3>1. CASE HasChild(old, i)
      <4>1. old = root /\ root # NoNode
        BY <3>1 DEF OldRoot, HasChild, NewIndex
      <4> QED
        BY <1>1, <1>2, <1>5, <2>2, <3>1, <4>1 DEF SecondLevel, PageShape
    <3>2. CASE ~HasChild(old, i)
      <4>1. was = NewIndex({})
        BY <2>2, <3>2
      <4>2. \A j \in Nibble : was.children[j].version = 0
        BY <4>1 DEF NewIndex, NoChild
      <4> QED
        BY <4>1, <4>2, NewNodes DEF Zeroed
    <3> QED
      BY <3>1, <3>2
  <2>4. ~HasChild(old, i) => \A j \in Nibble : was.children[j].version = 0
    BY <2>2 DEF NewIndex, NoChild
  <2> HIDE DEF was
  <2>5. /\ IndexNode(child)
        /\ child.bitmap = was.bitmap \cup {k}
        /\ \A j \in Nibble : child.children[j].version =
                                 IF j = k THEN item.version ELSE was.children[j].version
    BY <1>1, <1>5, <2>1, <2>3, IndexItemReplayed
  <2> HIDE DEF child
  <2>6. Zeroed(child)
    BY <2>3, <2>5 DEF Zeroed, HasChild
  <2> QED
    BY <1>1, <1>5, <2>2, <2>4, <2>5, <2>6 DEF was
<1> QED
  BY <1>0, <1>3, <1>4, <1>5

\* The two items of an update of an index page.
LEMMA PairReplayed ==
    ASSUME NullIsNoNode,
           NEW depth \in {1, 2}, NEW root, PageShape(root, depth),
           NEW nibbles \in Paths(depth), NEW child_item, NEW root_item,
           NEW version, version # 0, NEW path,
           ItemsFor(child_item, root_item, nibbles, version,
                    [version |-> version, key |-> path])
    PROVE  LET new == AfterItems(root, child_item, root_item, depth)
           IN  /\ PageShape(new, depth) /\ new # NoNode
               /\ Links(new, nibbles, version, path)
               /\ SameLinks(root, new, depth, nibbles)
<1> DEFINE i == nibbles[1]
           old == OldRoot(root)
           location == [version |-> version, key |-> path]
           child == ReplayedChild(root, i, child_item)
           grown == UpdateDeltaItem(root, child_item)
           new == UpdateDeltaItem(grown, root_item)
<1>0. AfterItems(root, child_item, root_item, depth) = new
  BY DEF AfterItems
<1>1. /\ i \in Nibble /\ Len(nibbles) = depth
      /\ \A other \in Paths(depth) : /\ other[1] \in Nibble /\ Len(other) = depth
                                     /\ depth = 2 => other[2] \in Nibble
                                     /\ other[1] = i /\ (depth = 2 => other[2] = nibbles[2])
                                            => other = nibbles
  <2>0. depth \in 0..2
    OBVIOUS
  <2>1. Len(nibbles) = depth /\ \A j \in 1..depth : nibbles[j] \in Nibble
    BY <2>0, PathsAreSequences
  <2>2. ASSUME NEW other \in Paths(depth)
        PROVE  /\ Len(other) = depth /\ \A j \in 1..depth : other[j] \in Nibble
               /\ (\A j \in 1..depth : other[j] = nibbles[j]) => other = nibbles
    BY <2>0, PathsAreSequences
  <2>3. 1..1 = {1} /\ 1..2 = {1, 2}
    OBVIOUS
  <2> QED
    BY <2>1, <2>2, <2>3
<1>2. IndexNode(old) /\ SecondLevel(old, depth)
  BY NewNodes DEF PageShape, PageRoot, OldRoot, SecondLevel, HasChild
<1>3. /\ depth = 1 => LeafHere(child_item, i + 1, version, location)
      /\ depth = 2 => IndexHere(child_item, i + 1, version, nibbles[2])
      /\ IndexHere(root_item, 0, version, i)
  BY <1>1 DEF ItemsFor
<1> HIDE DEF location
<1>4. /\ grown = Grown(old, i, child)
      /\ depth = 1 => LeafNode(child) /\ child.location = location
      /\ depth = 2 => /\ IndexNode(child) /\ Zeroed(child)
                      /\ child.children[nibbles[2]].version = version
                      /\ \A j \in Nibble : j # nibbles[2] =>
                            child.children[j].version =
                                IF HasChild(old, i) THEN old.children[i].node.children[j].version
                                ELSE 0
  <2> HIDE DEF location
  <2> QED
    <3>1. /\ depth = 1 => /\ LeafHere(child_item, i + 1, child_item.version, child_item.location)
                          /\ child_item.location = location
          /\ depth = 2 => /\ IndexHere(child_item, i + 1, child_item.version, nibbles[2])
                          /\ child_item.version = version
      BY <1>3 DEF LeafHere, IndexHere
    <3>2. /\ grown = Grown(old, i, child)
          /\ depth = 1 => LeafNode(child) /\ child.location = child_item.location
          /\ depth = 2 => /\ IndexNode(child) /\ Zeroed(child)
                          /\ child.children[nibbles[2]].version = child_item.version
                          /\ \A j \in Nibble : j # nibbles[2] =>
                                child.children[j].version =
                                    IF HasChild(old, i) THEN old.children[i].node.children[j].version
                                    ELSE 0
      BY <3>1, ChildItemReplayed
    <3> QED
      BY <3>1, <3>2
<1> HIDE DEF child
<1> HIDE DEF grown
<1>5. /\ IndexNode(grown)
      /\ grown.bitmap = old.bitmap \cup {i}
      /\ \A j \in Nibble : grown.children[j].node = IF j = i THEN child ELSE old.children[j].node
  BY <1>1, <1>2, <1>4, GrownIndex
<1>6. new = Replayed(grown, root_item)
  BY <1>3, <1>5 DEF NullIsNoNode, UpdateDeltaItem, PlaceOf, IndexHere
<1>7. /\ IndexNode(new)
      /\ new.bitmap = old.bitmap \cup {i}
      /\ \A j \in Nibble : new.children[j].node = IF j = i THEN child ELSE old.children[j].node
  <2>1. ~root_item.is_leaf_node /\ root_item.index = i
    BY <1>3 DEF IndexHere
  <2>2. /\ IndexNode(new)
        /\ new.bitmap = grown.bitmap \cup {i}
        /\ \A j \in Nibble : new.children[j].node = grown.children[j].node
    BY <1>1, <1>5, <1>6, <2>1, IndexItemReplayed
  <2> HIDE DEF new
  <2> QED
    BY <1>5, <2>2
<1> HIDE DEF new
<1>8. new # NoNode
  BY <1>7 DEF NullIsNoNode
<1>9. \A j \in Nibble : HasChild(new, j) <=> j = i \/ HasChild(old, j)
  BY <1>7 DEF HasChild
<1>10. root = NoNode => \A j \in Nibble : ~HasChild(old, j)
  BY DEF OldRoot, NewIndex, HasChild
<1>11. root # NoNode => old = root
  BY DEF OldRoot
<1>12. PageShape(new, depth)
  <2>1. SecondLevel(new, depth)
    BY <1>1, <1>2, <1>4, <1>7, <1>9 DEF SecondLevel
  <2>2. ASSUME depth = 2, NEW j \in Nibble, HasChild(new, j) PROVE Zeroed(new.children[j].node)
    <3>1. CASE j = i
      BY <1>4, <1>7, <2>2, <3>1
    <3>2. CASE j # i
      <4>1. HasChild(old, j) /\ root # NoNode /\ old = root
        BY <1>9, <1>10, <1>11, <2>2, <3>2
      <4> QED
        BY <1>7, <2>2, <3>2, <4>1 DEF PageShape
    <3> QED
      BY <3>1, <3>2
  <2> QED
    BY <1>7, <1>8, <2>1, <2>2 DEF PageShape, PageRoot
<1>13. Links(new, nibbles, version, path)
  <2>1. HasChild(new, i) /\ new.children[i].node = child
    BY <1>1, <1>7, <1>9
  <2>2. CASE depth = 1
    BY <1>1, <1>4, <1>8, <2>1, <2>2 DEF Links, LeafLinks, location
  <2>3. CASE depth = 2
    BY <1>1, <1>4, <1>8, <2>1, <2>3 DEF Links
  <2> QED
    BY <2>2, <2>3
<1>14. ASSUME NEW other \in Paths(depth), other # nibbles, NEW w, NEW p, Links(root, other, w, p)
       PROVE  Links(new, other, w, p)
  <2> DEFINE j == other[1]
  <2>1. j \in Nibble /\ Len(other) = depth /\ (depth = 2 => other[2] \in Nibble)
    BY <1>1
  <2>2. CASE HasChild(old, j) /\ j # i
    <3>1. root # NoNode /\ old = root /\ HasChild(new, j)
      BY <1>9, <1>10, <1>11, <2>1, <2>2
    <3>2. new.children[j].node = root.children[j].node
      BY <1>7, <2>1, <2>2, <3>1
    <3> QED
      BY <1>8, <1>14, <2>1, <2>2, <3>1, <3>2 DEF Links
  <2>3. CASE ~HasChild(old, j) /\ j # i
    <3>1. ~HasChild(new, j) /\ w = 0
      BY <1>9, <1>11, <1>14, <2>1, <2>3 DEF Links
    <3> QED
      BY <1>8, <2>1, <3>1 DEF Links
  <2>4. CASE j = i
    <3>1. depth = 2 /\ other[2] # nibbles[2] /\ other[2] \in Nibble
      BY <1>1, <1>14, <2>4
    <3>2. HasChild(new, j) /\ new.children[j].node = child
      BY <1>7, <1>9, <2>1, <2>4
    <3>3. child.children[other[2]].version = w
      <4>1. CASE HasChild(old, i)
        <5>1. root # NoNode /\ old = root
          BY <1>1, <1>10, <1>11, <4>1
        <5> QED
          BY <1>4, <1>14, <2>1, <2>4, <3>1, <4>1, <5>1 DEF Links
      <4>2. CASE ~HasChild(old, i)
        <5>1. w = 0
          BY <1>11, <1>14, <2>1, <2>4, <4>2 DEF Links
        <5> QED
          BY <1>4, <3>1, <4>2, <5>1
      <4> QED
        BY <4>1, <4>2
    <3> QED
      BY <1>8, <2>1, <3>1, <3>2, <3>3 DEF Links
  <2> QED
    BY <2>2, <2>3, <2>4
<1> QED
  BY <1>0, <1>8, <1>12, <1>13, <1>14 DEF SameLinks

\* The items of an update, replayed one after the other: the page has what
\* they say below their nibbles, and what it had below the others.
LEMMA ItemsReplayed ==
    ASSUME NullIsNoNode,
           NEW depth \in 0..2, NEW root, PageShape(root, depth),
           NEW nibbles \in Paths(depth), NEW child_item, NEW root_item,
           NEW version, version # 0, NEW path,
           ItemsFor(child_item, root_item, nibbles, version,
                    [version |-> version, key |-> path])
    PROVE  LET new == AfterItems(root, child_item, root_item, depth)
           IN  /\ PageShape(new, depth) /\ new # NoNode
               /\ Links(new, nibbles, version, path)
               /\ SameLinks(root, new, depth, nibbles)
<1>1. CASE depth = 0
  <2> DEFINE old == IF root = NoNode THEN NewLeaf ELSE root
             new == Replayed(old, root_item)
  <2>1. Len(nibbles) = 0 /\ \A other \in Paths(depth) : other = nibbles
    BY <1>1 DEF Paths
  <2>2. LeafHere(root_item, 0, version, [version |-> version, key |-> path])
    BY <2>1 DEF ItemsFor
  <2>3. AfterItems(root, child_item, root_item, depth) = new
    BY <1>1, <2>2 DEF AfterItems, UpdateDeltaItem, PlaceOf, NewNode, LeafHere
  <2>4. LeafNode(old)
    BY <1>1, NewNodes DEF PageShape, PageRoot
  <2> HIDE DEF old
  <2>5. LeafNode(new) /\ new.location = root_item.location
    BY <2>2, <2>4, LeafItemReplayed DEF LeafHere
  <2> HIDE DEF new
  <2>6. new # NoNode /\ PageShape(new, depth)
    BY <1>1, <2>5 DEF PageShape, PageRoot, NullIsNoNode
  <2>7. Links(new, nibbles, version, path)
    BY <2>1, <2>2, <2>5, <2>6 DEF Links, LeafLinks, LeafHere
  <2>8. SameLinks(root, new, depth, nibbles)
    BY <2>1 DEF SameLinks
  <2> QED
    BY <2>3, <2>6, <2>7, <2>8
<1>2. CASE depth \in {1, 2}
  BY <1>2, PairReplayed
<1> QED
  BY <1>1, <1>2

\* An update records such items, and they replay to the page it makes.
LEMMA UpdateRecorded ==
    ASSUME NullIsNoNode,
           NEW update, NEW depth \in 0..2, NibblesFit(update, depth),
           NEW root, PageShape(root, depth)
    PROVE  LET after == UpdatePage(root, update)
               child_item == after.items[1]
               root_item == after.items[IF depth = 0 THEN 1 ELSE 2]
           IN  /\ after.items = IF depth = 0 THEN <<root_item>> ELSE <<child_item, root_item>>
               /\ ItemsFor(child_item, root_item, update.nibbles, update.version, update.location)
               /\ AfterItems(root, child_item, root_item, depth) = after.root
<1>0. PageRoot(root, depth)
  BY DEF PageShape
<1>1. CASE depth = 0
  <2> DEFINE old == IF root = NoNode THEN NewLeaf ELSE root
             leaf == UpdateLeaf(old, update.version, update.location, update.value)
             item == LeafItem(0, leaf)
  <2>1. update.nibbles = <<>> /\ Len(update.nibbles) = 0
    BY <1>1 DEF NibblesFit
  <2>2. UpdatePage(root, update) = [root |-> leaf, items |-> <<item>>]
    BY <2>1 DEF UpdatePage, UpdateLeafPage
  <2>3. LeafNode(old)
    BY <1>0, <1>1, NewNodes DEF PageRoot
  <2> HIDE DEF old
  <2>4. leaf.version = update.version /\ leaf.location = update.location
    BY <2>3, LeafUpdated
  <2> HIDE DEF leaf
  <2>5. LeafHere(item, 0, update.version, update.location)
    BY <2>4 DEF LeafItem, LeafHere
  <2>6. UpdateDeltaItem(root, UpdatePage(root, update).items[1]) = UpdatePage(root, update).root
    BY <1>0, <1>1, ItemsReplay DEF NullIsNoNode
  <2> HIDE DEF item
  <2> QED
    BY <1>1, <2>1, <2>2, <2>5, <2>6 DEF ItemsFor, AfterItems
<1>2. CASE depth \in {1, 2}
  <2> DEFINE i == update.nibbles[1]
             child == UpdatedChild(OldRoot(root), update)
             grown == Grown(OldRoot(root), i, child)
             new == UpdatedRoot(grown, update.version, i, child)
             first == ChildItem(update.nibbles, child)
             second == IndexItem(0, new, i)
  <2>1. /\ UpdatePage(root, update) = [root |-> new, items |-> <<first, second>>]
        /\ UpdateDeltaItem(grown, second) = new
        /\ new.version = update.version
    BY <1>0, <1>2, RootUpdated DEF NullIsNoNode
  <2>2. /\ UpdateDeltaItem(root, first) = grown
        /\ child.version = update.version
        /\ depth = 1 => child.location = update.location
    BY <1>0, <1>2, ChildReplayed
  <2>3. Len(update.nibbles) = depth
    BY DEF NibblesFit
  <2> HIDE DEF child, new, grown
  <2>4. IndexHere(second, 0, update.version, i)
    BY <2>1 DEF IndexItem, IndexHere
  <2>5. depth = 1 => LeafHere(first, i + 1, update.version, update.location)
    BY <2>2, <2>3 DEF ChildItem, LeafItem, LeafHere
  <2>6. depth = 2 => IndexHere(first, i + 1, update.version, update.nibbles[2])
    BY <2>2, <2>3 DEF ChildItem, IndexItem, IndexHere
  <2>7. ItemsFor(first, second, update.nibbles, update.version, update.location)
    BY <1>2, <2>3, <2>4, <2>5, <2>6 DEF ItemsFor
  <2>8. AfterItems(root, first, second, depth) = new
    BY <1>2, <2>1, <2>2 DEF AfterItems
  <2> HIDE DEF first, second
  <2> QED
    BY <1>2, <2>1, <2>7, <2>8
<1> QED
  BY <1>1, <1>2

\* What a file gives back of an item says the same but for hashes.
LEMMA ItemRead ==
    ASSUME NEW child_item, NEW root_item, NEW nibbles, NEW version, NEW location, NEW pads,
           ItemsFor(child_item, root_item, nibbles, version, location)
    PROVE  /\ ItemsFor(ReadItem(child_item, pads), root_item, nibbles, version, location)
           /\ ItemsFor(child_item, ReadItem(root_item, pads), nibbles, version, location)
<1>1. ASSUME NEW item, NEW place, LeafHere(item, place, version, location)
      PROVE  LeafHere(ReadItem(item, pads), place, version, location)
  BY <1>1 DEF LeafHere, ReadItem
<1>2. ASSUME NEW item, NEW place, NEW i, IndexHere(item, place, version, i)
      PROVE  IndexHere(ReadItem(item, pads), place, version, i)
  BY <1>2 DEF IndexHere, ReadItem
<1> QED
  BY <1>1, <1>2 DEF ItemsFor

\* Nodes of the second level, read from a file.
LEMMA LeafRead ==
    ASSUME NEW n, LeafNode(n)
    PROVE  LeafNode(ReadSecond(n)) /\ ReadSecond(n).location = n.location
BY DEF LeafNode, ReadSecond, ReadLeaf

LEMMA SecondRead ==
    ASSUME NEW n, IndexNode(n), Zeroed(n)
    PROVE  /\ IndexNode(ReadSecond(n)) /\ Zeroed(ReadSecond(n))
           /\ \A j \in Nibble : ReadSecond(n).children[j].version = n.children[j].version
<1> DEFINE e(j) == ReadEntry(n.children[j])
           c == [j \in Nibble |-> IF HasChild(n, j) THEN e(j) ELSE NoChild]
           m == [n EXCEPT !.hash = Field(n.hash, ZeroPads), !.children = c]
<1>1. ReadSecond(n) = m
  <2>1. ~n.is_leaf
    BY DEF IndexNode
  <2>2. ReadSecondIndex(n) = m
    BY DEF ReadSecondIndex
  <2> QED
    BY <2>1, <2>2 DEF ReadSecond
<1>2. \A j \in Nibble : ChildEntry(e(j)) /\ e(j).version = n.children[j].version
  BY DEF IndexNode, ChildEntry, ReadEntry
<1>3. ChildEntry(NoChild) /\ NoChild.version = 0
  BY DEF ChildEntry, NoChild
<1>4. \A j \in Nibble : ~HasChild(n, j) => n.children[j].version = 0
  BY DEF Zeroed
<1> HIDE DEF e
<1>5. /\ c = [j \in Nibble |-> c[j]]
      /\ \A j \in Nibble : ChildEntry(c[j]) /\ c[j].version = n.children[j].version
  BY <1>2, <1>3, <1>4
<1> HIDE DEF c
<1>6. /\ m \in [is_leaf : {FALSE}, version : {m.version}, hash : {m.hash},
                bitmap : {m.bitmap}, children : {m.children}]
      /\ m.children = c /\ m.bitmap = n.bitmap
  BY DEF IndexNode
<1> HIDE DEF m
<1>7. IndexNode(m)
  BY <1>5, <1>6 DEF IndexNode
<1>8. Zeroed(m)
  BY <1>4, <1>5, <1>6 DEF Zeroed, HasChild
<1> QED
  BY <1>1, <1>5, <1>6, <1>7, <1>8

\* A base page read from a file: its root has lost hashes and versions, but the
\* nodes below it, and so what the page says of its keys, are the same.
LEMMA RootRead ==
    ASSUME NullIsNoNode,
           NEW depth \in 0..2, NEW root, PageShape(root, depth), root # NoNode
    PROVE  /\ PageShape(ReadRoot(root), depth) /\ ReadRoot(root) # NoNode
           /\ \A nibbles \in Paths(depth) : \A version, path :
                 Links(root, nibbles, version, path)
                    => Links(ReadRoot(root), nibbles, version, path)
<1>1. CASE depth = 0
  <2> DEFINE new == ReadRoot(root)
  <2>1. LeafNode(root)
    BY <1>1 DEF PageShape, PageRoot
  <2>2. LeafNode(new) /\ new.location = root.location
    BY <2>1 DEF ReadRoot, ReadLeaf, LeafNode
  <2> HIDE DEF new
  <2>3. new # NoNode /\ PageShape(new, depth)
    BY <1>1, <2>2 DEF PageShape, PageRoot, NullIsNoNode
  <2>4. \A nibbles \in Paths(depth) : Len(nibbles) = 0
    BY <1>1 DEF Paths
  <2>5. \A nibbles \in Paths(depth) : \A version, path :
            Links(root, nibbles, version, path) => Links(new, nibbles, version, path)
    BY <2>2, <2>3, <2>4 DEF Links, LeafLinks
  <2> QED
    BY <2>3, <2>5 DEF new
<1>2. CASE depth \in {1, 2}
  <2> DEFINE node(i) == ReadSecond(root.children[i].node)
             fresh(i) == [NoChild EXCEPT !.node = node(i)]
             c == [i \in Nibble |-> IF HasChild(root, i) THEN fresh(i) ELSE NoChild]
             new == [root EXCEPT !.hash = Field(root.hash, ZeroPads), !.children = c]
  <2>1. IndexNode(root) /\ SecondLevel(root, depth)
    BY <1>2 DEF PageShape, PageRoot
  <2>2. ReadRoot(root) = new
    BY <2>1 DEF ReadRoot, IndexNode
  <2>3. \A i \in Nibble : ChildEntry(fresh(i)) /\ fresh(i).node = node(i)
    BY DEF ChildEntry, NoChild
  <2>4. ChildEntry(NoChild)
    BY DEF ChildEntry, NoChild
  <2> HIDE DEF fresh, node
  <2>5. /\ c = [i \in Nibble |-> c[i]]
        /\ \A i \in Nibble : ChildEntry(c[i]) /\ (HasChild(root, i) => c[i].node = node(i))
    BY <2>3, <2>4
  <2> HIDE DEF c
  <2>6. /\ new \in [is_leaf : {FALSE}, version : {new.version}, hash : {new.hash},
                    bitmap : {new.bitmap}, children : {new.children}]
        /\ new.children = c /\ new.bitmap = root.bitmap
    BY <2>1 DEF IndexNode
  <2> HIDE DEF new
  <2>7. IndexNode(new) /\ new # NoNode
    BY <2>5, <2>6 DEF IndexNode, NullIsNoNode
  <2>8. \A i \in Nibble : /\ HasChild(new, i) <=> HasChild(root, i)
                          /\ HasChild(new, i) => new.children[i].node = node(i)
    BY <2>5, <2>6 DEF HasChild
  <2>9. ASSUME depth = 1, NEW i \in Nibble, HasChild(root, i)
        PROVE  LeafNode(node(i)) /\ node(i).location = root.children[i].node.location
    BY <2>1, <2>9, LeafRead DEF SecondLevel, node
  <2>10. ASSUME depth = 2, NEW i \in Nibble, HasChild(root, i)
         PROVE  /\ IndexNode(node(i)) /\ Zeroed(node(i))
                /\ \A j \in Nibble : node(i).children[j].version
                                        = root.children[i].node.children[j].version
    <3>1. IndexNode(root.children[i].node) /\ Zeroed(root.children[i].node)
      BY <2>1, <2>10 DEF SecondLevel, PageShape
    <3> QED
      BY <3>1, SecondRead DEF node
  <2>11. PageShape(new, depth)
    <3>1. SecondLevel(new, depth)
      BY <1>2, <2>8, <2>9, <2>10 DEF SecondLevel
    <3>2. depth = 2 => \A i \in Nibble : HasChild(new, i) => Zeroed(new.children[i].node)
      BY <2>8, <2>10
    <3> QED
      BY <1>2, <2>7, <3>1, <3>2 DEF PageShape, PageRoot
  <2>12. ASSUME NEW nibbles \in Paths(depth), NEW version, NEW path,
                Links(root, nibbles, version, path)
         PROVE  Links(new, nibbles, version, path)
    <3> DEFINE i == nibbles[1]
    <3>1. /\ i \in Nibble /\ Len(nibbles) = depth
          /\ depth = 2 => nibbles[2] \in Nibble
      <4>1. 1 \in 1..depth /\ (depth = 2 => 2 \in 1..depth)
        BY <1>2
      <4> QED
        BY <4>1, PathsAreSequences
    <3>2. CASE ~HasChild(root, i)
      BY <1>2, <2>7, <2>8, <2>12, <3>1, <3>2 DEF Links
    <3>3. CASE HasChild(root, i) /\ depth = 1
      BY <2>7, <2>8, <2>9, <2>12, <3>1, <3>3 DEF Links, LeafLinks
    <3>4. CASE HasChild(root, i) /\ depth = 2
      BY <2>7, <2>8, <2>10, <2>12, <3>1, <3>4 DEF Links
    <3> QED
      BY <1>2, <3>2, <3>3, <3>4
  <2> QED
    BY <2>2, <2>7, <2>11, <2>12
<1> QED
  BY <1>1, <1>2
-----------------------------------------------------------------------------
(* The hashes of a page *)

\* The hash that the page has below these nibbles.
HashAt(root, nibbles) ==
    IF root = NoNode THEN EmptyString
    ELSE IF Len(nibbles) = 0 THEN root.hash
    ELSE IF ~HasChild(root, nibbles[1]) THEN EmptyString
    ELSE IF Len(nibbles) = 1 THEN root.children[nibbles[1]].node.hash
    ELSE root.children[nibbles[1]].node.children[nibbles[2]].hash

\* The hash of an index node is that of the hashes of its children.
HashedNode(node) == node.hash = HashFunction(ConcatenatedHash(node))

\* A node of the second level has a version for each of its children.
SecondHashed(node) ==
    /\ HashedNode(node)
    /\ \E j \in Nibble : node.children[j].version # 0
    /\ \A j \in Nibble : HasChild(node, j) => node.children[j].version # 0

\* So it is in a page, whose root has the hashes of the nodes below it.
PageHashed(root, depth) ==
    root # NoNode /\ depth # 0 =>
        /\ HashedNode(root)
        /\ \A i \in Nibble : root.children[i].hash =
              IF HasChild(root, i) THEN root.children[i].node.hash ELSE EmptyString
        /\ depth = 2 => \A i \in Nibble : HasChild(root, i) => SecondHashed(root.children[i].node)

\* A node with a new version and hash at one child, and hashed again.
HashedAnew(n, node, version, i, child_hash) ==
    /\ HashedNode(node)
    /\ node.bitmap = n.bitmap \cup {i}
    /\ node.children[i].version = version
    /\ \A j \in Nibble :
          /\ node.children[j].node = n.children[j].node
          /\ j # i => node.children[j].version = n.children[j].version
          /\ node.children[j].hash = IF j = i THEN child_hash ELSE n.children[j].hash

LEMMA IndexHashed ==
    ASSUME NEW n, IndexNode(n), NEW version, NEW i \in Nibble, NEW child_hash
    PROVE  HashedAnew(n, UpdateIndex(n, version, i, child_hash), version, i, child_hash)
<1> DEFINE node == UpdateIndex(n, version, i, child_hash)
           linked == SetChild(n, i, version, child_hash)
           h == HashFunction(ConcatenatedHash(linked))
<1>1. /\ IndexNode(linked)
      /\ linked.bitmap = n.bitmap \cup {i}
      /\ linked.children = Linked(n.children, i, version, child_hash)
  BY ChildLinked
<1>2. node = [linked EXCEPT !.version = version, !.hash = h]
  BY DEF UpdateIndex
<1>3. HashedNode(node)
  <2> DEFINE c == ConcatenatedHash(linked)
  <2>1. h = HashFunction(c)
    OBVIOUS
  <2>2. c = FlattenSeq([j \in 1..Fanout |-> linked.children[j - 1].hash])
    BY DEF ConcatenatedHash
  <2> HIDE DEF linked, h, c
  <2>3. node.children = linked.children /\ node.hash = h
    BY <1>1, <1>2 DEF IndexNode
  <2>4. ConcatenatedHash(node) = c
    BY <2>2, <2>3 DEF ConcatenatedHash
  <2> QED
    BY <2>1, <2>3, <2>4 DEF HashedNode
<1> HIDE DEF linked, h
<1>4. node.children = linked.children /\ node.bitmap = linked.bitmap
  BY <1>1, <1>2 DEF IndexNode
<1>5. \A j \in Nibble : ChildEntry(n.children[j])
  BY DEF IndexNode
<1>6. PICK e : e = [n.children[i] EXCEPT !.version = version, !.hash = child_hash]
  OBVIOUS
<1>7. e.version = version /\ e.hash = child_hash /\ e.node = n.children[i].node
  BY <1>5, <1>6 DEF ChildEntry
<1>8. linked.children = [j \in Nibble |-> IF j = i THEN e ELSE n.children[j]]
  BY <1>1, <1>6 DEF Linked, IndexNode
<1>9. /\ linked.children[i].version = version
      /\ \A j \in Nibble :
            /\ linked.children[j].node = n.children[j].node
            /\ j # i => linked.children[j].version = n.children[j].version
            /\ linked.children[j].hash = IF j = i THEN child_hash ELSE n.children[j].hash
  BY <1>7, <1>8
<1> HIDE DEF node
<1>10. HashedAnew(n, node, version, i, child_hash)
  BY <1>1, <1>3, <1>4, <1>9 DEF HashedAnew
<1> QED
  BY <1>10 DEF node

LEMMA GrownHashes ==
    ASSUME NEW root, IndexNode(root), NEW i \in Nibble, NEW child
    PROVE  \A j \in Nibble : j # i =>
              Grown(root, i, child).children[j].hash = root.children[j].hash
<1> DEFINE p == Pointer(root, i, child)
           a == AddChild(root, i, child)
<1>1. \A j \in Nibble : j # i => p.children[j] = root.children[j]
  BY DEF Pointer, IndexNode
<1>2. \A j \in Nibble : j # i => a.children[j] = root.children[j]
  BY DEF AddChild, IndexNode
<1> HIDE DEF p, a
<1> QED
  BY <1>1, <1>2 DEF Grown, p, a

\* The child after an update: a leaf has the hash of the value, an index node
\* the hash handed in at its nibble and its own from all of them.
LEMMA ChildHashed ==
    ASSUME NEW update, NEW depth \in {1, 2}, NibblesFit(update, depth), update.version # 0,
           NEW root, IndexNode(root), SecondLevel(root, depth),
           depth = 2 => \A j \in Nibble : HasChild(root, j) => SecondHashed(root.children[j].node)
    PROVE  LET i == update.nibbles[1]
               k == update.nibbles[2]
               child == UpdatedChild(root, update)
           IN  /\ depth = 1 => child.hash = HashOfLeaf(update.value)
               /\ depth = 2 =>
                     /\ SecondHashed(child)
                     /\ child.children[k].hash = update.child_hash
                     /\ \A j \in Nibble : j # k => child.children[j].hash =
                           IF HasChild(root, i) THEN root.children[i].node.children[j].hash
                           ELSE EmptyString
<1> DEFINE i == update.nibbles[1]
           k == update.nibbles[2]
           was == ChildFor(root, update.nibbles)
           child == UpdatedChild(root, update)
<1>1. /\ i \in Nibble /\ Len(update.nibbles) = depth
      /\ depth = 2 => k \in Nibble
  BY DEF NibblesFit
<1>2. ASSUME depth = 1 PROVE child.hash = HashOfLeaf(update.value)
  <2>1. LeafNode(was)
    BY <1>1, <1>2, NewNodes DEF ChildFor, HasChild, SecondLevel
  <2>2. child = UpdateLeaf(was, update.version, update.location, update.value)
    BY <1>1, <1>2 DEF UpdatedChild
  <2> QED
    BY <2>1, <2>2, LeafUpdated
<1>3. ASSUME depth = 2
      PROVE  /\ SecondHashed(child)
             /\ child.children[k].hash = update.child_hash
             /\ \A j \in Nibble : j # k => child.children[j].hash =
                   IF HasChild(root, i) THEN root.children[i].node.children[j].hash
                   ELSE EmptyString
  <2>1. k \in Nibble
    BY <1>1, <1>3
  <2>2. was = IF HasChild(root, i) THEN root.children[i].node ELSE NewIndex({k})
    BY <1>1, <1>3 DEF ChildFor
  <2>3. IndexNode(was)
    BY <1>1, <1>3, <2>2, NewNodes DEF HasChild, SecondLevel
  <2>4. child = UpdateIndex(was, update.version, k, update.child_hash)
    BY <1>1, <1>3 DEF UpdatedChild
  <2>5. /\ HashedNode(child)
        /\ child.bitmap = was.bitmap \cup {k}
        /\ child.children[k].version = update.version
        /\ \A j \in Nibble : j # k => child.children[j].version = was.children[j].version
        /\ \A j \in Nibble : child.children[j].hash =
              IF j = k THEN update.child_hash ELSE was.children[j].hash
    <3>1. PICK version : version = update.version
      OBVIOUS
    <3>2. PICK hash : hash = update.child_hash
      OBVIOUS
    <3> HIDE DEF k, was, child
    <3>3. k \in Nibble /\ IndexNode(was) /\ child = UpdateIndex(was, version, k, hash)
      BY <2>1, <2>3, <2>4, <3>1, <3>2
    <3>4. HashedAnew(was, child, version, k, hash)
      BY ONLY <3>3, IndexHashed
    <3> QED
      BY ONLY <3>1, <3>2, <3>4 DEF HashedAnew
  <2>6. \A j \in Nibble : was.children[j].hash =
            IF HasChild(root, i) THEN root.children[i].node.children[j].hash ELSE EmptyString
    <3>1. \A j \in Nibble : NewIndex({k}).children[j].hash = EmptyString
      BY DEF NewIndex, NoChild
    <3> QED
      BY <2>2, <3>1
  <2>7. \A j \in Nibble : j # k /\ HasChild(was, j) => was.children[j].version # 0
    <3>1. \A j : HasChild(NewIndex({k}), j) => j = k
      BY NewNodes DEF HasChild
    <3>2. HasChild(root, i) => SecondHashed(root.children[i].node)
      BY <1>1, <1>3
    <3> HIDE DEF k, i
    <3> QED
      BY <2>2, <3>1, <3>2 DEF SecondHashed
  <2> HIDE DEF k, was, child
  <2>8. \A j \in Nibble : HasChild(child, j) => child.children[j].version # 0
    BY <2>5, <2>7 DEF HasChild
  <2> QED
    BY <2>1, <2>5, <2>6, <2>8 DEF SecondHashed
<1> QED
  BY <1>2, <1>3

LEMMA OldRootHashed ==
    ASSUME NEW depth \in {1, 2}, NEW root, PageRoot(root, depth), PageHashed(root, depth)
    PROVE  LET old == OldRoot(root)
           IN  /\ IndexNode(old) /\ SecondLevel(old, depth)
               /\ \A i \in Nibble : old.children[i].hash =
                     IF HasChild(old, i) THEN old.children[i].node.hash ELSE EmptyString
               /\ depth = 2 =>
                     \A i \in Nibble : HasChild(old, i) => SecondHashed(old.children[i].node)
               /\ \A m \in Paths(depth) : HashAt(root, m) =
                     IF ~HasChild(old, m[1]) THEN EmptyString
                     ELSE IF depth = 1 THEN old.children[m[1]].node.hash
                     ELSE old.children[m[1]].node.children[m[2]].hash
<1> DEFINE old == OldRoot(root)
<1>1. IndexNode(old) /\ SecondLevel(old, depth)
  BY NewNodes DEF PageRoot, OldRoot, SecondLevel, HasChild
<1>2. \A m \in Paths(depth) : Len(m) = depth
  <2>1. depth \in 0..2
    OBVIOUS
  <2> QED
    BY <2>1, PathsAreSequences
<1>3. CASE root = NoNode
  <2>1. old = NewIndex({})
    BY <1>3 DEF OldRoot
  <2>2. \A i : ~HasChild(old, i)
    BY <2>1, NewNodes DEF HasChild
  <2>3. \A i \in Nibble : old.children[i].hash = EmptyString
    BY <2>1 DEF NewIndex, NoChild
  <2> HIDE DEF old
  <2> QED
    BY <1>1, <1>3, <2>2, <2>3 DEF HashAt, old
<1>4. CASE root # NoNode
  <2>1. old = root
    BY <1>4 DEF OldRoot
  <2>2. \A m \in Paths(depth) : HashAt(root, m) =
            IF ~HasChild(root, m[1]) THEN EmptyString
            ELSE IF depth = 1 THEN root.children[m[1]].node.hash
            ELSE root.children[m[1]].node.children[m[2]].hash
    <3> TAKE m \in Paths(depth)
    <3>1. Len(m) = depth
      BY <1>2
    <3>2. depth # 0
      OBVIOUS
    <3> HIDE DEF old
    <3> QED
      BY <1>4, <3>1, <3>2 DEF HashAt
  <2>3. /\ \A i \in Nibble : root.children[i].hash =
              IF HasChild(root, i) THEN root.children[i].node.hash ELSE EmptyString
        /\ depth = 2 => \A i \in Nibble : HasChild(root, i) => SecondHashed(root.children[i].node)
    BY <1>4 DEF PageHashed
  <2> HIDE DEF old
  <2> QED
    BY <1>1, <2>1, <2>2, <2>3 DEF old
<1> QED
  BY <1>3, <1>4

\* An update keeps the hashes of a page summed up, sets the one below its
\* nibbles and no other.
LEMMA HashesUpdated ==
    ASSUME NullIsNoNode,
           NEW update, NEW depth \in 0..2, NibblesFit(update, depth), update.version # 0,
           NEW root, PageRoot(root, depth), PageHashed(root, depth)
    PROVE  LET new == UpdatePage(root, update).root
           IN  /\ PageHashed(new, depth)
               /\ HashAt(new, update.nibbles) =
                     IF depth = 2 THEN update.child_hash ELSE HashOfLeaf(update.value)
               /\ \A m \in Paths(depth) : m # update.nibbles => HashAt(new, m) = HashAt(root, m)
<1> DEFINE n == update.nibbles
           after == UpdatePage(root, update)
<1>1. Len(n) = depth /\ n \in Paths(depth)
  BY PathsAreSequences DEF NibblesFit
<1>2. CASE depth = 0
  <2> DEFINE old == IF root = NoNode THEN NewLeaf ELSE root
             leaf == UpdateLeaf(old, update.version, update.location, update.value)
  <2>1. LeafNode(old)
    BY <1>2, NewNodes DEF PageRoot
  <2>2. LeafNode(leaf) /\ leaf.hash = HashOfLeaf(update.value)
    BY <2>1, LeafUpdated
  <2>3. n = <<>>
    BY <1>1, <1>2 DEF NibblesFit
  <2>4. after.root = leaf
    BY <2>3 DEF UpdatePage, UpdateLeafPage
  <2>5. leaf # NoNode
    BY <2>2 DEF NullIsNoNode
  <2> HIDE DEF leaf, after
  <2>6. HashAt(leaf, n) = leaf.hash
    BY <1>1, <1>2, <2>5 DEF HashAt
  <2>7. \A m \in Paths(0) : m = n
    BY <1>1, <1>2, PathsAreSequences
  <2> QED
    BY <1>2, <2>2, <2>4, <2>6, <2>7 DEF PageHashed, after
<1>3. CASE depth # 0
  <2> DEFINE i == n[1]
             old == OldRoot(root)
             child == UpdatedChild(old, update)
             grown == Grown(old, i, child)
             new == UpdatedRoot(grown, update.version, i, child)
  <2>1. depth \in {1, 2}
    BY <1>3
  <2>2. i \in Nibble /\ (depth = 2 => n[2] \in Nibble)
    BY <1>1, <2>1 DEF NibblesFit
  <2>3. /\ IndexNode(old) /\ SecondLevel(old, depth)
        /\ \A j \in Nibble : old.children[j].hash =
              IF HasChild(old, j) THEN old.children[j].node.hash ELSE EmptyString
        /\ depth = 2 =>
              \A j \in Nibble : HasChild(old, j) => SecondHashed(old.children[j].node)
        /\ \A m \in Paths(depth) : HashAt(root, m) =
              IF ~HasChild(old, m[1]) THEN EmptyString
              ELSE IF depth = 1 THEN old.children[m[1]].node.hash
              ELSE old.children[m[1]].node.children[m[2]].hash
    BY <2>1, OldRootHashed
  <2> HIDE DEF old
  <2>4. /\ depth = 1 => child.hash = HashOfLeaf(update.value)
        /\ depth = 2 =>
              /\ SecondHashed(child)
              /\ child.children[n[2]].hash = update.child_hash
              /\ \A j \in Nibble : j # n[2] => child.children[j].hash =
                    IF HasChild(old, i) THEN old.children[i].node.children[j].hash
                    ELSE EmptyString
    BY <2>1, <2>3, ChildHashed
  <2>5. after.root = new /\ PageRoot(new, depth)
    <3>1. \A x : IndexNode(x) => x # NoNode
      BY DEF NullIsNoNode
    <3> HIDE DEF after
    <3> QED
      BY <2>1, <3>1, RootUpdated DEF after, old
  <2> HIDE DEF child, after
  <2>6. /\ IndexNode(grown)
        /\ grown.bitmap = old.bitmap \cup {i}
        /\ \A j \in Nibble : grown.children[j].node = IF j = i THEN child ELSE old.children[j].node
        /\ \A j \in Nibble : j # i => grown.children[j].hash = old.children[j].hash
    BY <2>2, <2>3, GrownIndex, GrownHashes
  <2> HIDE DEF grown
  <2>7. /\ HashedNode(new)
        /\ new.bitmap = grown.bitmap \cup {i}
        /\ \A j \in Nibble :
              /\ new.children[j].node = grown.children[j].node
              /\ new.children[j].hash = IF j = i THEN child.hash ELSE grown.children[j].hash
    <3>1. new = UpdateIndex(grown, update.version, i, child.hash)
      BY DEF UpdatedRoot
    <3>2. PICK hash : hash = child.hash
      OBVIOUS
    <3>3. PICK version : version = update.version
      OBVIOUS
    <3> HIDE DEF new, i
    <3>4. /\ i \in Nibble /\ IndexNode(grown)
          /\ new = UpdateIndex(grown, version, i, hash)
      BY <2>2, <2>6, <3>1, <3>2, <3>3
    <3>5. HashedAnew(grown, new, version, i, hash)
      BY ONLY <3>4, IndexHashed
    <3> QED
      BY <3>2, <3>5 DEF HashedAnew
  <2>8. new # NoNode
    <3>1. IndexNode(new)
      BY <2>2, <2>6, IndexUpdated DEF UpdatedRoot
    <3> QED
      BY <3>1 DEF NullIsNoNode
  <2> HIDE DEF new
  <2>9. \A j : HasChild(new, j) <=> j = i \/ HasChild(old, j)
    BY <2>6, <2>7 DEF HasChild
  <2>10. \A j \in Nibble : new.children[j].node = IF j = i THEN child ELSE old.children[j].node
    BY <2>6, <2>7
  <2>11. PageHashed(new, depth)
    <3>1. \A j \in Nibble : new.children[j].hash =
              IF HasChild(new, j) THEN new.children[j].node.hash ELSE EmptyString
      BY <2>3, <2>6, <2>7, <2>9, <2>10
    <3>2. depth = 2 => \A j \in Nibble : HasChild(new, j) => SecondHashed(new.children[j].node)
      BY <2>3, <2>4, <2>9, <2>10
    <3> QED
      BY <2>7, <3>1, <3>2 DEF PageHashed
  <2>12. ASSUME NEW m \in Paths(depth)
         PROVE  /\ Len(m) = depth /\ m[1] \in Nibble /\ (depth = 2 => m[2] \in Nibble)
                /\ HashAt(new, m) =
                      IF ~HasChild(new, m[1]) THEN EmptyString
                      ELSE IF depth = 1 THEN new.children[m[1]].node.hash
                      ELSE new.children[m[1]].node.children[m[2]].hash
    <3>1. Len(m) = depth /\ \A x \in 1..depth : m[x] \in Nibble
      BY PathsAreSequences
    <3> QED
      BY <2>1, <2>8, <3>1 DEF HashAt
  <2>13. HashAt(new, n) = IF depth = 2 THEN update.child_hash ELSE HashOfLeaf(update.value)
    BY <1>1, <2>1, <2>2, <2>4, <2>9, <2>10, <2>12
  <2>14. ASSUME NEW m \in Paths(depth), m # n PROVE HashAt(new, m) = HashAt(root, m)
    <3>1. CASE m[1] # i
      <4>1. PICK j \in Nibble : j = m[1]
        BY <2>12
      <4>2. /\ new.children[j].node = old.children[j].node
            /\ HasChild(new, j) <=> HasChild(old, j)
        BY <2>9, <2>10, <3>1, <4>1
      <4>3. HashAt(root, m) = IF ~HasChild(old, j) THEN EmptyString
                              ELSE IF depth = 1 THEN old.children[j].node.hash
                              ELSE old.children[j].node.children[m[2]].hash
        BY <2>3, <4>1
      <4>4. HashAt(new, m) = IF ~HasChild(new, j) THEN EmptyString
                             ELSE IF depth = 1 THEN new.children[j].node.hash
                             ELSE new.children[j].node.children[m[2]].hash
        BY <2>12, <4>1
      <4> QED
        BY ONLY <4>2, <4>3, <4>4
    <3>2. CASE m[1] = i
      <4>1. depth = 2 /\ m[2] # n[2]
        <5>1. \E x \in 1..depth : m[x] # n[x]
          BY <1>1, <2>14, PathsAreSequences
        <5> QED
          BY <2>1, <3>2, <5>1
      <4>2. HashAt(new, m) = child.children[m[2]].hash
        BY <2>2, <2>9, <2>10, <2>12, <3>2, <4>1
      <4>3. PICK j \in Nibble : j = m[2]
        BY <2>12, <4>1
      <4>4. child.children[j].hash =
                IF HasChild(old, i) THEN old.children[i].node.children[j].hash ELSE EmptyString
        BY <2>4, <4>1, <4>3
      <4>5. HashAt(root, m) = IF ~HasChild(old, i) THEN EmptyString
                              ELSE old.children[i].node.children[j].hash
        BY <2>3, <3>2, <4>1, <4>3
      <4> QED
        BY ONLY <4>2, <4>3, <4>4, <4>5
    <3> QED
      BY <3>1, <3>2
  <2> QED
    BY <2>5, <2>11, <2>13, <2>14 DEF after
<1> QED
  BY <1>2, <1>3
=============================================================================
