---------------------------- MODULE PageHistoryProofs ----------------------------
(***************************************************************************)
(* Proofs about what LoadPage and GetPage of PageChain answer: no read     *)
(* breaks, its replay is bounded, versions from the last base page on are  *)
(* served whatever the sizes of the commits, and every version is served,  *)
(* as VersionedPage promises, when no commit bypasses an empty delta page. *)
(***************************************************************************)
EXTENDS PageChainProofs, WellFoundedInduction

-----------------------------------------------------------------------------
(* Induction over the natural numbers *)

\* Every set of natural numbers has a least element.
LEMMA LeastElement ==
    ASSUME NEW T \in SUBSET Nat, T # {}
    PROVE  \E x \in T : \A y \in T : x <= y
<1> DEFINE R == OpToRel(<, Nat)
<1>1. IsWellFoundedOn(R, Nat)
  BY NatLessThanWellFounded
<1>2. \A x, y \in Nat : y < x => <<y, x>> \in R
  BY DEF OpToRel
<1> HIDE DEF R
<1>3. PICK x \in T : \A y \in T : ~ (<<y, x>> \in R)
  BY <1>1, WFMin
<1>4. \A y \in T : ~ (y < x)
  BY <1>2, <1>3
<1> QED
  BY <1>4

\* A set of natural numbers with a bound has a greatest element.
LEMMA GreatestElement ==
    ASSUME NEW n \in Nat, NEW T \in SUBSET (0..n), T # {}
    PROVE  \E x \in T : \A y \in T : y <= x
<1> DEFINE U == {k \in Nat : n - k \in T}
<1>1. U # {}
  <2>1. PICK x \in T : TRUE
    OBVIOUS
  <2>2. x \in 0..n
    BY <2>1
  <2>3. n - x \in Nat /\ n - (n - x) = x
    BY <2>2
  <2>4. n - x \in U
    BY <2>1, <2>3
  <2> QED
    BY <2>4
<1>2. PICK k \in U : \A j \in U : k <= j
  BY <1>1, LeastElement
<1>3. n - k \in T /\ k \in Nat
  BY <1>2
<1>4. ASSUME NEW y \in T PROVE y <= n - k
  <2>1. y \in 0..n
    OBVIOUS
  <2>2. n - y \in Nat /\ n - (n - y) = y
    BY <2>1
  <2>3. n - y \in U
    BY <2>2
  <2>4. k <= n - y
    BY <1>2, <2>3
  <2> QED
    BY <1>3, <2>1, <2>2, <2>4
<1> QED
  BY <1>3, <1>4

\* A set that holds 0 and with every number up to n the next one.
LEMMA CountUp ==
    ASSUME NEW n \in Nat, NEW S, 0 \in S, \A i \in 0..n : i \in S /\ i < n => i + 1 \in S
    PROVE  n \in S
<1> SUFFICES ASSUME n \notin S PROVE FALSE
  OBVIOUS
<1> DEFINE T == {i \in 0..n : i \notin S}
<1>1. T \in SUBSET Nat /\ T # {}
  OBVIOUS
<1>2. PICK k \in T : \A j \in T : k <= j
  BY <1>1, LeastElement
<1>3. k # 0 /\ k \in 0..n /\ k \notin S
  BY <1>2
<1>4. k - 1 \in 0..n /\ k - 1 \notin T /\ (k - 1) + 1 = k /\ k - 1 < n
  BY <1>2, <1>3
<1> QED
  BY <1>3, <1>4

-----------------------------------------------------------------------------
(* Replaying items *)

\* The least index with a newer item, where there is one.
LEMMA UptoCut ==
    ASSUME NEW items \in Seq(Item), NEW u \in Nat, NEW i \in 1..Len(items),
           items[i].version > u, \A j \in 1..Len(items) : items[j].version > u => i <= j
    PROVE  Upto(items, u) = SubSeq(items, 1, i - 1)
<1> DEFINE newer == {j \in DOMAIN items : items[j].version > u}
<1>1. DOMAIN items = 1..Len(items)
  OBVIOUS
<1>2. i \in newer /\ \A j \in newer : i <= j
  BY <1>1
<1>3. (CHOOSE k \in newer : \A j \in newer : k <= j) = i
  <2>1. \A k \in newer : (\A j \in newer : k <= j) => k = i
    BY <1>1, <1>2
  <2> HIDE DEF newer
  <2> QED
    BY <1>2, <2>1
<1>4. newer # {}
  BY <1>2
<1> QED
  BY <1>3, <1>4 DEF Upto

\* Nothing is cut off where no item is newer.
LEMMA UptoAll ==
    ASSUME NEW items, NEW u, \A i \in DOMAIN items : ~ (items[i].version > u)
    PROVE  Upto(items, u) = items
BY DEF Upto

\* Either nothing is cut off, or the list before the first newer item is left.
LEMMA UptoCases ==
    ASSUME NEW items \in Seq(Item), NEW u \in Nat
    PROVE  \/ /\ \A i \in DOMAIN items : ~ (items[i].version > u)
              /\ Upto(items, u) = items
           \/ \E i \in 1..Len(items) :
                /\ items[i].version > u
                /\ \A j \in 1..Len(items) : items[j].version > u => i <= j
                /\ Upto(items, u) = SubSeq(items, 1, i - 1)
<1> DEFINE newer == {j \in 1..Len(items) : items[j].version > u}
<1>1. DOMAIN items = 1..Len(items) /\ newer \in SUBSET Nat
  OBVIOUS
<1>2. CASE newer = {}
  BY <1>1, <1>2, UptoAll
<1>3. CASE newer # {}
  <2>1. PICK i \in newer : \A j \in newer : i <= j
    BY <1>1, <1>3, LeastElement
  <2>2. /\ i \in 1..Len(items) /\ items[i].version > u
        /\ \A j \in 1..Len(items) : items[j].version > u => i <= j
    BY <2>1
  <2> QED
    BY <2>2, UptoCut
<1> QED
  BY <1>2, <1>3

LEMMA UptoType ==
    ASSUME NEW items \in Seq(Item), NEW u \in Nat
    PROVE  Upto(items, u) \in Seq(Item) /\ Len(Upto(items, u)) <= Len(items)
<1>1. CASE Upto(items, u) = items
  BY <1>1
<1>2. CASE \E i \in 1..Len(items) : Upto(items, u) = SubSeq(items, 1, i - 1)
  <2>1. PICK i \in 1..Len(items) : Upto(items, u) = SubSeq(items, 1, i - 1)
    BY <1>2
  <2>2. i - 1 \in 0..Len(items) /\ i - 1 <= Len(items)
    OBVIOUS
  <2>3. SubSeq(items, 1, i - 1) \in Seq(Item) /\ Len(SubSeq(items, 1, i - 1)) = i - 1
    BY <2>2, SubSeqProperties
  <2> QED
    BY <2>1, <2>2, <2>3
<1> QED
  BY <1>1, <1>2, UptoCases

\* An item newer than u, added at the end, is not replayed up to u.
LEMMA UptoIgnoresNewer ==
    ASSUME NEW items \in Seq(Item), NEW item \in Item, NEW u \in Nat, item.version > u
    PROVE  Upto(Append(items, item), u) = Upto(items, u)
<1> DEFINE longer == Append(items, item)
           n == Len(items)
<1>1. /\ longer \in Seq(Item) /\ Len(longer) = n + 1 /\ n \in Nat
      /\ longer[n + 1] = item /\ \A i \in 1..n : longer[i] = items[i]
      /\ DOMAIN items = 1..n
  BY AppendProperties
<1> HIDE DEF longer
<1>2. CASE \A i \in 1..n : ~ (items[i].version > u)
  <2>1. n + 1 \in 1..Len(longer) /\ longer[n + 1].version > u
    BY <1>1
  <2>2. \A j \in 1..Len(longer) : longer[j].version > u => n + 1 <= j
    BY <1>1, <1>2
  <2>3. Upto(longer, u) = SubSeq(longer, 1, (n + 1) - 1)
    BY <1>1, <2>1, <2>2, UptoCut
  <2>4. SubSeq(longer, 1, n) = items
    BY <1>1 DEF longer
  <2>5. Upto(items, u) = items
    BY <1>1, <1>2, UptoAll
  <2> QED
    BY <1>1, <2>3, <2>4, <2>5 DEF longer
<1>3. CASE \E i \in 1..n : items[i].version > u
  <2>1. PICK i \in 1..n : /\ items[i].version > u
                          /\ \A j \in 1..n : items[j].version > u => i <= j
                          /\ Upto(items, u) = SubSeq(items, 1, i - 1)
    BY <1>1, <1>3, UptoCases
  <2>2. i \in 1..Len(longer) /\ longer[i].version > u
    BY <1>1, <2>1
  <2>3. \A j \in 1..Len(longer) : longer[j].version > u => i <= j
    BY <1>1, <2>1
  <2>4. Upto(longer, u) = SubSeq(longer, 1, i - 1)
    BY <1>1, <2>2, <2>3, UptoCut
  <2>5. SubSeq(longer, 1, i - 1) = SubSeq(items, 1, i - 1)
    BY <1>1, <2>1
  <2> QED
    BY <2>1, <2>4, <2>5 DEF longer
<1> QED
  BY <1>2, <1>3

\* Replaying nothing changes nothing.
LEMMA ReplayNone ==
    ASSUME NEW contents \in Contents
    PROVE  Replay(contents, <<>>) = contents
BY DEF Replay, Contents

\* One more item sets its slot.
LEMMA ReplayAppend ==
    ASSUME NEW contents, NEW items \in Seq(Item), NEW item \in Item
    PROVE  Replay(contents, Append(items, item))
             = [Replay(contents, items) EXCEPT ![item.slot] = item.version]
<1> DEFINE longer == Append(items, item)
           n == Len(items)
           writes(q, s) == {i \in DOMAIN q : q[i].slot = s}
           last(w) == CHOOSE i \in w : \A j \in w : j <= i
           value(q, s) == IF writes(q, s) = {} THEN contents[s] ELSE q[last(writes(q, s))].version
<1>1. /\ longer \in Seq(Item) /\ Len(longer) = n + 1 /\ n \in Nat
      /\ longer[n + 1] = item /\ \A i \in 1..n : longer[i] = items[i]
      /\ DOMAIN items = 1..n /\ DOMAIN longer = 1..(n + 1)
  BY AppendProperties
<1>2. /\ Replay(contents, items) = [s \in Slot |-> value(items, s)]
      /\ Replay(contents, longer) = [s \in Slot |-> value(longer, s)]
  BY DEF Replay
<1> HIDE DEF longer
<1>3. value(longer, item.slot) = item.version
  <2> DEFINE w == writes(longer, item.slot)
  <2>1. n + 1 \in w /\ \A j \in w : j <= n + 1 /\ j \in Nat
    BY <1>1
  <2> HIDE DEF w
  <2>2. last(w) = n + 1
    <3>1. \A k \in w : (\A j \in w : j <= k) => k = n + 1
      BY <1>1, <2>1
    <3> QED
      BY <2>1, <3>1
  <2> QED
    BY <1>1, <2>1, <2>2 DEF w
<1>4. ASSUME NEW s \in Slot, s # item.slot PROVE value(longer, s) = value(items, s)
  <2>1. writes(longer, s) = writes(items, s)
    <3>1. \A i \in 1..(n + 1) : longer[i].slot = s <=> i \in 1..n /\ items[i].slot = s
      BY <1>1, <1>4
    <3> QED
      BY <1>1, <3>1
  <2>2. CASE writes(items, s) = {}
    BY <2>1, <2>2
  <2>3. CASE writes(items, s) # {}
    <3> DEFINE w == writes(items, s)
    <3>1. w \in SUBSET (0..n) /\ w # {}
      BY <1>1, <2>3
    <3>2. \E x \in w : \A y \in w : y <= x
      BY <1>1, <3>1, GreatestElement
    <3>3. last(w) \in w
      <4> HIDE DEF w
      <4> QED
        BY <3>2
    <3>4. last(w) \in 1..n
      BY <1>1, <3>3
    <3>5. longer[last(w)] = items[last(w)]
      BY <1>1, <3>4
    <3>6. value(longer, s) = longer[last(w)].version
      BY <2>1, <2>3
    <3>7. value(items, s) = items[last(w)].version
      BY <2>3
    <3> QED
      BY <3>5, <3>6, <3>7
  <2> QED
    BY <2>2, <2>3
<1>5. item.slot \in Slot
  BY DEF Item
<1> HIDE DEF value
<1> QED
  BY <1>2, <1>3, <1>4, <1>5 DEF longer

-----------------------------------------------------------------------------
(* The walk through a table of delta pages *)

Tables == [Version -> Delta \cup {None}]

\* Every delta page is linked to an earlier key.
Descends(table) == \A v \in Version : table[v] # None => table[v].last.version < v

\* The delta page stored under a key leads on.
Linked(table, k) == k.type = "delta" /\ Lookup(table, k.version) # None

\* What the walk from a key is, where w is the walk from every earlier key.
WalkOn(table, u, w, k) ==
    LET d == Lookup(table, k.version) IN
    IF k.type = "delta" /\ d # None
    THEN [from |-> w[d.last].from, items |-> w[d.last].items \o Upto(d.items, u)]
    ELSE [from |-> k, items |-> <<>>]

LEMMA LookupType ==
    ASSUME NEW table \in Tables, NEW v, Lookup(table, v) # None
    PROVE  v \in Version /\ Lookup(table, v) = table[v] /\ table[v] \in Delta
BY DEF Lookup, Tables

\* Where the walk goes on from a key it goes on to an earlier key.
LEMMA WalkDescends ==
    ASSUME NEW table \in Tables, Descends(table), NEW k \in Key, Linked(table, k)
    PROVE  /\ Lookup(table, k.version) \in Delta
           /\ Lookup(table, k.version).last \in Key
           /\ Lookup(table, k.version).last.version < k.version
<1> DEFINE d == Lookup(table, k.version)
<1>1. k.version \in Version /\ d = table[k.version] /\ d \in Delta /\ d # None
  BY LookupType DEF Linked
<1>2. d.last \in Key
  BY <1>1 DEF Delta
<1> QED
  BY <1>1, <1>2 DEF Descends

\* The recursive definition of the walk has a solution.
LEMMA WalkExists ==
    ASSUME NEW table \in Tables, Descends(table), NEW u
    PROVE  \E w : w = [k \in Key |-> WalkOn(table, u, w, k)]
<1> DEFINE Solves(w, n) ==
               /\ w = [k \in Key |-> w[k]]
               /\ \A k \in Key : k.version < n => w[k] = WalkOn(table, u, w, k)
           S == {n \in Nat : \E w : Solves(w, n)}
           N == LastVersion + 1
<1>1. N \in Nat /\ \A k \in Key : k.version \in Nat /\ k.version < N
  BY VersionAssumption DEF Key
<1>2. 0 \in S
  <2>1. Solves([k \in Key |-> 0], 0)
    BY <1>1
  <2> QED
    BY <2>1
<1>3. ASSUME NEW n \in 0..N, n \in S PROVE n + 1 \in S
  <2>1. PICK w : Solves(w, n)
    BY <1>3
  <2> DEFINE x == [k \in Key |-> WalkOn(table, u, w, k)]
  <2>2. ASSUME NEW k \in Key, k.version < n + 1
        PROVE  x[k] = WalkOn(table, u, x, k)
    <3> DEFINE d == Lookup(table, k.version)
    <3>1. CASE Linked(table, k)
      <4>1. d.last \in Key /\ d.last.version < k.version
        BY <3>1, WalkDescends
      <4>2. d.last.version < n
        BY <1>1, <2>2, <4>1
      <4>3. x[d.last] = w[d.last]
        BY <2>1, <4>1, <4>2
      <4>4. WalkOn(table, u, x, k) = WalkOn(table, u, w, k)
        BY <3>1, <4>3 DEF WalkOn, Linked
      <4> QED
        BY <4>4
    <3>2. CASE ~Linked(table, k)
      BY <3>2 DEF WalkOn, Linked
    <3> QED
      BY <3>1, <3>2
  <2>3. x = [k \in Key |-> x[k]]
    OBVIOUS
  <2> HIDE DEF x
  <2>4. Solves(x, n + 1)
    BY <2>2, <2>3
  <2> QED
    BY <2>4
<1> HIDE DEF S
<1>4. N \in S
  BY <1>1, <1>2, <1>3, CountUp
<1>5. PICK w : Solves(w, N)
  BY <1>4 DEF S
<1>6. \A k \in Key : w[k] = WalkOn(table, u, w, k)
  BY <1>1, <1>5
<1>7. w = [k \in Key |-> WalkOn(table, u, w, k)]
  BY <1>5, <1>6
<1> QED
  BY <1>7

\* So the walk is what its definition says.
LEMMA WalkEquation ==
    ASSUME NEW table \in Tables, Descends(table), NEW u, NEW k \in Key
    PROVE  Walk(table, u)[k] = WalkOn(table, u, Walk(table, u), k)
<1>1. Walk(table, u) = CHOOSE w : w = [j \in Key |-> WalkOn(table, u, w, j)]
  BY DEF Walk, WalkOn
<1>2. Walk(table, u) = [j \in Key |-> WalkOn(table, u, Walk(table, u), j)]
  BY <1>1, WalkExists
<1> QED
  BY <1>2

\* The walk ends at once at a key under which no delta page is stored.
LEMMA WalkEnds ==
    ASSUME NEW table \in Tables, Descends(table), NEW u, NEW k \in Key, ~Linked(table, k)
    PROVE  Walk(table, u)[k] = [from |-> k, items |-> <<>>]
BY WalkEquation DEF WalkOn, Linked

\* And gathers a delta page that is stored.
LEMMA WalkGathers ==
    ASSUME NEW table \in Tables, Descends(table), NEW u, NEW k \in Key, Linked(table, k)
    PROVE  Walk(table, u)[k] = Gathered(table, u, Lookup(table, k.version))
BY WalkEquation DEF WalkOn, Linked, Gathered

LEMMA WalkType ==
    ASSUME NEW table \in Tables, Descends(table), NEW u \in Nat, NEW k \in Key
    PROVE  Walk(table, u)[k].from \in Key /\ Walk(table, u)[k].items \in Seq(Item)
<1> DEFINE Typed(j) == Walk(table, u)[j].from \in Key /\ Walk(table, u)[j].items \in Seq(Item)
           S == {n \in Nat : \A j \in Key : j.version < n => Typed(j)}
           N == LastVersion + 1
<1>1. N \in Nat /\ \A j \in Key : j.version \in Nat /\ j.version < N
  BY VersionAssumption DEF Key
<1>2. 0 \in S
  BY <1>1
<1>3. ASSUME NEW n \in 0..N, n \in S PROVE n + 1 \in S
  <2> SUFFICES ASSUME NEW j \in Key, j.version < n + 1 PROVE Typed(j)
    OBVIOUS
  <2>1. CASE Linked(table, j)
    <3> DEFINE d == Lookup(table, j.version)
    <3>1. d \in Delta /\ d.last \in Key /\ d.last.version < j.version
      BY <2>1, WalkDescends
    <3>2. Typed(d.last)
      BY <1>1, <1>3, <3>1
    <3>3. Upto(d.items, u) \in Seq(Item)
      BY <3>1, UptoType DEF Delta
    <3>4. Walk(table, u)[j] = [from |-> Walk(table, u)[d.last].from,
                               items |-> Walk(table, u)[d.last].items \o Upto(d.items, u)]
      BY <2>1, WalkGathers DEF Gathered
    <3>5. Walk(table, u)[d.last].items \o Upto(d.items, u) \in Seq(Item)
      BY <3>2, <3>3, ConcatProperties
    <3> QED
      BY <3>2, <3>4, <3>5
  <2>2. CASE ~Linked(table, j)
    <3>1. Walk(table, u)[j] = [from |-> j, items |-> <<>>]
      BY <2>2, WalkEnds
    <3> QED
      BY <3>1, EmptySeq
  <2> QED
    BY <2>1, <2>2
<1> HIDE DEF Typed
<1>4. N \in S
  <2> HIDE DEF S
  <2> QED
    BY <1>1, <1>2, <1>3, CountUp
<1> QED
  BY <1>1, <1>4 DEF Typed

LEMMA GatheredType ==
    ASSUME NEW table \in Tables, Descends(table), NEW u \in Nat, NEW d,
           d.last \in Key, d.items \in Seq(Item)
    PROVE  /\ Gathered(table, u, d).from = Walk(table, u)[d.last].from
           /\ Gathered(table, u, d).from \in Key
           /\ Gathered(table, u, d).items = Walk(table, u)[d.last].items \o Upto(d.items, u)
           /\ Gathered(table, u, d).items \in Seq(Item)
<1>1. Walk(table, u)[d.last].from \in Key /\ Walk(table, u)[d.last].items \in Seq(Item)
  BY WalkType
<1>2. Upto(d.items, u) \in Seq(Item)
  BY UptoType
<1>3. Walk(table, u)[d.last].items \o Upto(d.items, u) \in Seq(Item)
  BY <1>1, <1>2, ConcatProperties
<1> QED
  BY <1>1, <1>3 DEF Gathered

\* A delta page stored under a later key changes no walk.
LEMMA WalkUnchanged ==
    ASSUME NEW table \in Tables, NEW longer \in Tables, Descends(table), Descends(longer),
           NEW m \in Nat, \A v \in Version : v < m => longer[v] = table[v],
           NEW u, NEW k \in Key, k.version < m
    PROVE  Walk(longer, u)[k] = Walk(table, u)[k]
<1> DEFINE Same(j) == Walk(longer, u)[j] = Walk(table, u)[j]
           S == {n \in Nat : \A j \in Key : j.version < n => Same(j)}
<1>1. \A j \in Key : j.version \in Nat
  BY DEF Key
<1>2. 0 \in S
  BY <1>1
<1>3. ASSUME NEW n \in 0..m, n \in S, n < m PROVE n + 1 \in S
  <2> SUFFICES ASSUME NEW j \in Key, j.version < n + 1 PROVE Same(j)
    OBVIOUS
  <2>1. j.version < m
    BY <1>1, <1>3
  <2>2. Lookup(longer, j.version) = Lookup(table, j.version)
    BY <2>1 DEF Lookup
  <2>3. CASE Linked(table, j)
    <3> DEFINE d == Lookup(table, j.version)
    <3>1. d.last \in Key /\ d.last.version < j.version
      BY <2>3, WalkDescends
    <3>2. Same(d.last)
      BY <1>1, <1>3, <3>1
    <3>3. Linked(longer, j)
      BY <2>2, <2>3 DEF Linked
    <3>4. /\ Walk(table, u)[j] = Gathered(table, u, d)
          /\ Walk(longer, u)[j] = Gathered(longer, u, d)
      BY <2>2, <2>3, <3>3, WalkGathers
    <3> QED
      BY <3>2, <3>4 DEF Gathered
  <2>4. CASE ~Linked(table, j)
    <3>1. ~Linked(longer, j)
      BY <2>2, <2>4 DEF Linked
    <3> QED
      BY <2>4, <3>1, WalkEnds
  <2> QED
    BY <2>3, <2>4
<1> HIDE DEF Same
<1>4. m \in S
  <2> HIDE DEF S
  <2> QED
    BY <1>2, <1>3, CountUp
<1> QED
  BY <1>4 DEF Same

-----------------------------------------------------------------------------
(* The invariant *)

Reads == 0..LastVersion

\* The tables as they will be when the commit under way has stored its pages.
Table == Stored(frozen, staged.delta)
Bases == Stored(base, staged.base)

\* What the page has been updated to, whether or not it is in the cache.
Live ==
    IF pc = "update" THEN page
    ELSE [version |-> page_version.current, slots |-> latest]

\* Page p is what a reader of version u is to get.
Correct(u, p) ==
    IF history[u] = None THEN p.version < u
    ELSE p = [version |-> u, slots |-> history[u]]

\* The page gathered for a read of u from delta page d.
BuiltFrom(u, d) ==
    LET g == Gathered(Table, u, d) IN Built(Start(Bases, g.from), g.items)

\* Pages are stored under versions of commits, and linked to earlier ones.
Links ==
    /\ \A v \in Version : frozen[v] # None \/ base[v] # None => v < version
    /\ deltapage_versions = {v \in Version : Table[v] # None}
    /\ Descends(Table)
    /\ active.last.version <= version
    /\ staged.delta = None => active.last.version < version
    /\ page_version.current \in Version \cup {0} /\ page_version.base \in Version \cup {0}
    /\ page_version.base <= active.last.version
    /\ page_version.base <= page_version.current
    /\ page_version.current <= version
    /\ pc = "idle" => page_version.current < version
    /\ \A i \in DOMAIN active.items :
          active.items[i].version \in page_version.base..page_version.current

\* What the versions committed are, and what the page is on top of them.
Commits ==
    /\ \A v \in Version : v > page_version.current /\ history[v] # None =>
          pc = "update" /\ v = version
    /\ \A v \in Version : history[v] # NewPage.slots
    /\ page_version.current > 0 /\ page_version.current < version =>
          history[page_version.current] = Live.slots
    /\ page_version.current = 0 => Live.slots = NewPage.slots
    /\ Live.version = page_version.current
    /\ pc = "idle" /\ page # NotCached => page = Live
    /\ pc = "update" =>
          /\ history[version] = latest
          /\ \A s \in Slot : IF s \in pending THEN latest[s] = version
                              ELSE page.slots[s] = latest[s]
          /\ pending = {} => page_version.current = version

\* A delta page stored at v serves the versions from its base page up to v.
FrozenServesAt(v, u) ==
    LET g == Gathered(Table, u, Table[v]) IN
    /\ Start(Bases, g.from) \in Page
    /\ g.from.version <= Table[v].last.version
    /\ u < v => Weight * Len(g.items) < Tb
    /\ u \in Version /\ g.from.version <= u /\ u < v => Correct(u, BuiltFrom(u, Table[v]))

FrozenServes == \A v \in Version, u \in Reads : Table[v] # None => FrozenServesAt(v, u)

\* The active delta page serves the versions from the last base page on; the
\* versions still to come see the page as it is.
ActiveServesAt(u) ==
    LET g == Gathered(Table, u, active) IN
    /\ g.from = BaseKey(page_version.base)
    /\ Start(Bases, g.from) \in Page
    /\ Weight * Len(g.items) <= active.bcount
    /\ ~if_exceed =>
          /\ u >= page_version.current => BuiltFrom(u, active) = Live
          /\ u \in Version /\ page_version.base <= u /\ u < page_version.current =>
                Correct(u, BuiltFrom(u, active))

ActiveServes == \A u \in Reads : ActiveServesAt(u)

HInv == IInv /\ Links /\ Commits /\ FrozenServes /\ ActiveServes

\* No version before the last base page is left without a delta page.
Covered ==
    /\ page_version.base \in deltapage_versions \cup {0}
    /\ active.last.version \in deltapage_versions \cup {0}
    /\ \A v \in deltapage_versions : Table[v].last.version \in deltapage_versions \cup {0}
    /\ if_exceed => staged.delta # None

-----------------------------------------------------------------------------
(* What the invariant says of the tables *)

LEMMA LookupAt ==
    ASSUME FirstVersion > 0, NEW table, NEW v \in Version
    PROVE  Lookup(table, v) = table[v] /\ v # 0
BY VersionAssumption DEF Lookup, Version

\* Storing a page, or none, under version v.
LEMMA StoresAt ==
    ASSUME NEW P, NEW table \in [Version -> P \cup {None}], NEW p \in P \cup {None}, NEW w,
           NEW after, after = IF p = None THEN table ELSE [table EXCEPT ![w] = p]
    PROVE  /\ after \in [Version -> P \cup {None}]
           /\ \A v \in Version : after[v] = IF p # None /\ v = w THEN p ELSE table[v]
OBVIOUS

LEMMA Stores ==
    ASSUME IInv
    PROVE  /\ Table \in Tables
           /\ Bases \in [Version -> Page \cup {None}]
           /\ \A v \in Version :
                /\ Table[v] = IF staged.delta # None /\ v = version THEN staged.delta
                              ELSE frozen[v]
                /\ Bases[v] = IF staged.base # None /\ v = version THEN staged.base
                              ELSE base[v]
<1>1. /\ staged.delta \in Delta \cup {None} /\ staged.base \in Page \cup {None}
      /\ frozen \in [Version -> Delta \cup {None}] /\ base \in [Version -> Page \cup {None}]
  BY DEF IInv, TypeOK
<1>2. Table = IF staged.delta = None THEN frozen ELSE [frozen EXCEPT ![version] = staged.delta]
  BY DEF Table, Stored
<1>3. Bases = IF staged.base = None THEN base ELSE [base EXCEPT ![version] = staged.base]
  BY DEF Bases, Stored
<1>4. /\ Table \in [Version -> Delta \cup {None}]
      /\ \A v \in Version : Table[v] = IF staged.delta # None /\ v = version THEN staged.delta
                                       ELSE frozen[v]
  BY <1>1, <1>2, StoresAt
<1>5. /\ Bases \in [Version -> Page \cup {None}]
      /\ \A v \in Version : Bases[v] = IF staged.base # None /\ v = version THEN staged.base
                                       ELSE base[v]
  BY <1>1, <1>3, StoresAt
<1> QED
  BY <1>4, <1>5 DEF Tables

\* The same as a property of one state, so that it can be said of the next.
StoresTyped ==
    /\ Table \in Tables
    /\ Bases \in [Version -> Page \cup {None}]
    /\ \A v \in Version :
         /\ Table[v] = IF staged.delta # None /\ v = version THEN staged.delta ELSE frozen[v]
         /\ Bases[v] = IF staged.base # None /\ v = version THEN staged.base ELSE base[v]

LEMMA StoresNext == IInv' => StoresTyped'
<1>1. IInv => StoresTyped
  BY Stores DEF StoresTyped
<1> QED
  BY <1>1, PTL

\* Between commits nothing is staged.
LEMMA IdleStores ==
    ASSUME IInv, pc = "idle"
    PROVE  Table = frozen /\ Bases = base
BY DEF IInv, CommitShape, NothingStaged, Table, Bases, Stored

\* Where a read starts depends on one entry of the table of base pages.
LEMMA StartSame ==
    ASSUME NEW bases, NEW more, NEW k, \A v \in Version : v = k.version => more[v] = bases[v]
    PROVE  Start(more, k) = Start(bases, k)
BY DEF Start, Lookup

\* The active delta page and what it is linked to.
LEMMA ActiveType ==
    ASSUME IInv
    PROVE  /\ active \in ActivePage
           /\ active.items \in Seq(Item) /\ active.last \in Key
           /\ active.count \in Nat /\ active.bcount \in Nat
BY DEF IInv, TypeOK, ActivePage

\* A delta page that stays, with what it is linked to, serves what it served.
LEMMA FrozenKept ==
    ASSUME HInv, IInv', Descends(Table)', NEW v \in Version, Table[v] # None,
           \A x \in Version : x <= v => Table'[x] = Table[x],
           \A x \in Version : x < v => Bases'[x] = Bases[x] /\ history'[x] = history[x],
           NEW u \in Reads
    PROVE  FrozenServesAt(v, u)'
<1> DEFINE d == Table[v]
           g == Gathered(Table, u, d)
<1>1. /\ Table \in Tables /\ Descends(Table) /\ Table' \in Tables /\ Descends(Table')
      /\ d \in Delta /\ d.last \in Key /\ d.last.version < v /\ d.items \in Seq(Item)
      /\ Table'[v] = d /\ v \in Nat /\ u \in Nat
  BY Stores, StoresNext, VersionAssumption
  DEF HInv, Links, Descends, Tables, Delta, Version, Reads, StoresTyped
<1>2. Walk(Table', u)[d.last] = Walk(Table, u)[d.last]
  <2>1. \A x \in Version : x < v => Table'[x] = Table[x]
    BY <1>1 DEF Version
  <2> DEFINE before == Table
             after == Table'
             k == d.last
  <2>2. /\ before \in Tables /\ after \in Tables /\ Descends(before) /\ Descends(after)
        /\ v \in Nat /\ k \in Key /\ k.version < v
        /\ \A x \in Version : x < v => after[x] = before[x]
    BY <1>1, <2>1
  <2> HIDE DEF before, after, k
  <2>3. Walk(after, u)[k] = Walk(before, u)[k]
    BY <2>2, WalkUnchanged
  <2> QED
    BY <2>3 DEF before, after, k
<1>3. Gathered(Table', u, d) = g
  BY <1>2 DEF Gathered
<1>4. FrozenServesAt(v, u)
  BY DEF HInv, FrozenServes
<1>5. g.from \in Key /\ g.from.version <= d.last.version
  BY <1>1, <1>4, GatheredType DEF FrozenServesAt
<1>6. \A x \in Version : x = g.from.version => Bases'[x] = Bases[x]
  BY <1>1, <1>5 DEF Key, Version
<1>7. Start(Bases', g.from) = Start(Bases, g.from)
  BY <1>6, StartSame
<1>8. BuiltFrom(u, d)' = BuiltFrom(u, d)
  BY <1>1, <1>3, <1>7 DEF BuiltFrom
<1>9. u \in Version /\ u < v => (Correct(u, BuiltFrom(u, d))' <=> Correct(u, BuiltFrom(u, d)))
  BY <1>8 DEF Correct
<1> HIDE DEF g, d
<1>10. /\ Start(Bases, g.from) \in Page
       /\ g.from.version <= d.last.version
       /\ u < v => Weight * Len(g.items) < Tb
       /\ u \in Version /\ g.from.version <= u /\ u < v => Correct(u, BuiltFrom(u, d))
  BY <1>4 DEF FrozenServesAt, g, d
<1>11. /\ Start(Bases', g.from) \in Page
       /\ g.from.version <= d.last.version
       /\ u < v => Weight * Len(g.items) < Tb
       /\ u \in Version /\ g.from.version <= u /\ u < v => Correct(u, BuiltFrom(u, d))'
  BY <1>7, <1>9, <1>10
<1> QED
  BY <1>1, <1>3, <1>11 DEF FrozenServesAt, d

LEMMA LiveType ==
    ASSUME IInv
    PROVE  Live \in Page /\ Live = [version |-> Live.version, slots |-> Live.slots]
<1>1. CASE pc = "update"
  BY <1>1 DEF IInv, CommitShape, Live, Page
<1>2. CASE pc # "update"
  BY <1>2 DEF IInv, TypeOK, Live, Page
<1> QED
  BY <1>1, <1>2

\* Every version from the last base page on is served by the active delta page.
LEMMA ActivePast ==
    ASSUME FirstVersion > 0, HInv, ~if_exceed,
           NEW u \in Version, page_version.base <= u, u < version
    PROVE  Correct(u, BuiltFrom(u, active))
<1>1. /\ u \in Reads /\ u \in Nat /\ u > 0 /\ version \in Int
      /\ page_version.current \in Nat /\ page_version.base \in Nat
  BY VersionAssumption DEF HInv, IInv, TypeOK, Version, Reads
<1>2. ActiveServesAt(u)
  BY <1>1 DEF HInv, ActiveServes
<1>3. CASE u < page_version.current
  BY <1>2, <1>3 DEF ActiveServesAt
<1>4. CASE u >= page_version.current
  <2>1. BuiltFrom(u, active) = Live /\ Live.version = page_version.current
    BY <1>2, <1>4 DEF ActiveServesAt, HInv, Commits
  <2>2. CASE u > page_version.current
    <3>1. history[u] = None
      BY <1>1, <2>2 DEF HInv, Commits
    <3> QED
      BY <1>1, <2>1, <2>2, <3>1 DEF Correct
  <2>3. CASE u = page_version.current
    <3>1. history[u] = Live.slots
      BY <1>1, <2>3 DEF HInv, Commits
    <3>2. Live \in Page /\ Live = [version |-> u, slots |-> history[u]]
      BY <2>1, <2>3, <3>1, LiveType DEF HInv
    <3>3. history[u] # None
      BY <3>1, <3>2, NoneAssumption DEF Page
    <3> QED
      BY <2>1, <3>2, <3>3 DEF Correct
  <2> QED
    BY <1>1, <1>4, <2>2, <2>3
<1> QED
  BY <1>1, <1>3, <1>4

\* Before a commit LoadPage gives the page as it is.
LEMMA LoadLive ==
    ASSUME HInv, pc = "idle"
    PROVE  LoadPage(page_version.current) = Live /\ Loaded = Live
<1> DEFINE c == page_version.current
           g == Gathered(frozen, c, active)
<1>1. c \in Reads /\ c \in Nat /\ page_version.base \in Nat /\ page_version.base <= c /\ ~if_exceed
  BY VersionAssumption DEF HInv, IInv, TypeOK, Links, CommitShape, Reads
<1>2. ActiveServesAt(c) /\ Table = frozen /\ Bases = base
  BY <1>1, IdleStores DEF HInv, ActiveServes
<1>3. Collected(c) = g
  BY <1>1 DEF Collected, Sentinel
<1>4. /\ Start(base, g.from) \in Page
      /\ Built(Start(base, g.from), g.items) = Live
  BY <1>1, <1>2 DEF ActiveServesAt, BuiltFrom
<1>5. Live.version = c /\ Live \in Page
  BY LiveType DEF HInv, Commits
<1>6. Rebuilt(base, c, g) = Live
  BY <1>1, <1>4, <1>5, NoneAssumption DEF Rebuilt
<1>7. LoadPage(c) = Live
  BY <1>3, <1>6 DEF LoadPage
<1>8. GetPage(c) = Live
  BY <1>7 DEF GetPage, HInv, Commits
<1>9. Loaded = Live
  BY <1>5, <1>8, NoneAssumption DEF Loaded
<1> QED
  BY <1>7, <1>9

\* What the active delta page gathers once it has one more item.
LEMMA GrownGathers ==
    ASSUME HInv, pc = "update", ~if_exceed, NEW n \in pending, NEW u \in Reads
    PROVE  LET t == Grown(active, n)
               g == Gathered(Table, u, t)
           IN  /\ g.from = BaseKey(page_version.base)
               /\ Start(Bases, g.from) \in Page
               /\ Weight * Len(g.items) <= active.bcount + Weight
               /\ u < version => g = Gathered(Table, u, active)
               /\ u >= version => Built(Start(Bases, g.from), g.items) = Written(n)
<1> DEFINE t == Grown(active, n)
           g == Gathered(Table, u, t)
           old == Gathered(Table, u, active)
           item == [slot |-> n, version |-> version]
<1>1. /\ Table \in Tables /\ Descends(Table) /\ u \in Nat /\ version \in Version
      /\ version \in Nat /\ n \in Slot /\ page \in Page
      /\ active.items \in Seq(Item) /\ active.last \in Key /\ active.bcount \in Nat
      /\ item \in Item /\ page_version.current <= version /\ page_version.current \in Nat
  BY Stores, ActiveType, VersionAssumption
  DEF HInv, Links, IInv, TypeOK, CommitShape, Item, Version, Reads
<1>2. t.items = Append(active.items, item) /\ t.last = active.last
  BY ActiveType DEF Grown, ActivePage, HInv
<1>3. ActiveServesAt(u)
  BY DEF HInv, ActiveServes
<1>4. old.from = BaseKey(page_version.base) /\ Start(Bases, old.from) \in Page
      /\ Weight * Len(old.items) <= active.bcount
  BY <1>3 DEF ActiveServesAt
<1>5. g.from = old.from
  BY <1>2 DEF Gathered
<1>6. /\ g.items = Walk(Table, u)[active.last].items \o Upto(t.items, u)
      /\ old.items = Walk(Table, u)[active.last].items \o Upto(active.items, u)
  BY <1>2 DEF Gathered
<1> DEFINE w == Walk(Table, u)[active.last].items
<1>7. w \in Seq(Item) /\ old.items \in Seq(Item)
  BY <1>1, WalkType, GatheredType
<1>8. Len(old.items) \in Nat /\ Weight * Len(old.items) \in Nat
  BY <1>7, LenProperties, Thresholds
<1>9. CASE u < version
  <2>1. Upto(t.items, u) = Upto(active.items, u)
    BY <1>1, <1>2, <1>9, UptoIgnoresNewer
  <2>2. g = old
    BY <1>2, <2>1 DEF Gathered
  <2>3. Weight * Len(g.items) <= active.bcount + Weight
    BY <1>1, <1>4, <1>8, <2>2, Thresholds
  <2> HIDE DEF g, old
  <2> QED
    BY <1>1, <1>4, <1>9, <2>2, <2>3 DEF g, old
<1>10. CASE u >= version
  <2>1. Upto(active.items, u) = active.items
    <3>1. \A i \in DOMAIN active.items : ~ (active.items[i].version > u)
      <4> SUFFICES ASSUME NEW i \in DOMAIN active.items PROVE ~ (active.items[i].version > u)
        OBVIOUS
      <4>1. active.items[i].version \in page_version.base..page_version.current
        BY DEF HInv, Links
      <4> QED
        BY <1>1, <1>10, <4>1
    <3> QED
      BY <3>1, UptoAll
  <2>2. Upto(t.items, u) = t.items
    <3>1. \A i \in DOMAIN t.items : ~ (t.items[i].version > u)
      <4> SUFFICES ASSUME NEW i \in DOMAIN t.items PROVE ~ (t.items[i].version > u)
        OBVIOUS
      <4>1. i \in 1..(Len(active.items) + 1)
        BY <1>1, <1>2, AppendProperties
      <4>2. CASE i \in 1..Len(active.items)
        <5>1. t.items[i] = active.items[i] /\ i \in DOMAIN active.items
          BY <1>1, <1>2, <4>2, AppendProperties
        <5>2. active.items[i].version \in page_version.base..page_version.current
          BY <5>1 DEF HInv, Links
        <5> QED
          BY <1>1, <1>10, <5>1, <5>2
      <4>3. CASE i = Len(active.items) + 1
        <5>1. t.items[i] = item
          BY <1>1, <1>2, <4>3, AppendProperties
        <5> QED
          BY <1>1, <1>10, <5>1
      <4> QED
        BY <1>1, <4>1, <4>2, <4>3
    <3> QED
      BY <3>1, UptoAll
  <2>3. g.items = Append(old.items, item)
    <3>1. w \o Append(active.items, item) = Append(w \o active.items, item)
      <4> DEFINE a == active.items
      <4>1. w \in Seq(Item) /\ a \in Seq(Item) /\ item \in Item
        BY <1>1, <1>7
      <4> HIDE DEF w, a, item
      <4>2. /\ <<item>> \in Seq(Item) /\ w \o a \in Seq(Item)
            /\ Append(a, item) = a \o <<item>>
            /\ Append(w \o a, item) = (w \o a) \o <<item>>
        BY <4>1, AppendIsConcat, ConcatProperties
      <4>3. w \o (a \o <<item>>) = (w \o a) \o <<item>>
        BY <4>1, <4>2, ConcatAssociative
      <4> QED
        BY <4>2, <4>3 DEF a
    <3> QED
      BY <1>2, <1>6, <2>1, <2>2, <3>1
  <2>4. Len(g.items) = Len(old.items) + 1
    BY <1>1, <1>7, <2>3, AppendProperties
  <2>5. Weight * Len(g.items) <= active.bcount + Weight
    <3>1. Weight * (Len(old.items) + 1) = Weight * Len(old.items) + Weight
      BY <1>8, Thresholds
    <3> QED
      BY <1>1, <1>4, <1>8, <2>4, <3>1, Thresholds
  <2>6. Built(Start(Bases, old.from), old.items) = page
    BY <1>1, <1>3, <1>10 DEF ActiveServesAt, BuiltFrom, Live
  <2> DEFINE s == Start(Bases, old.from)
  <2>7. Replay(s.slots, old.items) = page.slots
    BY <2>6 DEF Built
  <2>8. Replay(s.slots, g.items) = [page.slots EXCEPT ![n] = version]
    <3> HIDE DEF s, item, old, g
    <3>1. Replay(s.slots, Append(old.items, item))
            = [Replay(s.slots, old.items) EXCEPT ![item.slot] = item.version]
      BY <1>1, <1>7, ReplayAppend
    <3> QED
      BY <2>3, <2>7, <3>1 DEF item
  <2>9. g.items # <<>> /\ g.items[Len(g.items)].version = version
    <3> HIDE DEF g
    <3> DEFINE before == old.items
    <3>1. before \in Seq(Item) /\ item \in Item /\ g.items = Append(before, item)
      BY <1>1, <1>7, <2>3
    <3>2. item.version = version
      OBVIOUS
    <3> HIDE DEF before, item
    <3>3. g.items[Len(before) + 1] = item /\ g.items # <<>>
      BY <3>1, AppendProperties
    <3> QED
      BY <2>4, <3>2, <3>3 DEF before
  <2>10. Built(s, g.items) = Written(n)
    <3> HIDE DEF s, g
    <3> QED
      BY <2>8, <2>9 DEF Built, Written
  <2> HIDE DEF g, old
  <2> QED
    BY <1>1, <1>4, <1>5, <1>10, <2>5, <2>10 DEF g, old
<1> QED
  BY <1>1, <1>9, <1>10

-----------------------------------------------------------------------------
(* Freezing a delta page *)

\* What a delta page gathers depends on its items and its link.
LEMMA GatheredSame ==
    ASSUME NEW table, NEW u, NEW d, NEW e, d.items = e.items, d.last = e.last
    PROVE  Gathered(table, u, d) = Gathered(table, u, e)
BY DEF Gathered

\* A table with one more delta page, stored under a later key.
LEMMA FreezeDescends ==
    ASSUME NEW table, Descends(table), NEW after, NEW v \in Version,
           \A x \in Version : x # v => after[x] = table[x],
           after[v] # None => after[v].last.version < v
    PROVE  Descends(after)
BY DEF Descends

\* A delta page gathers the same whether or not it is stored, and so does the
\* empty one that is linked to it.
LEMMA FreezeGathers ==
    ASSUME FirstVersion > 0, NEW table \in Tables, NEW after \in Tables,
           Descends(table), Descends(after), NEW v \in Version,
           \A x \in Version : x < v => after[x] = table[x],
           NEW d \in Delta, after[v] = d, NEW u \in Reads,
           NEW next, next.items = <<>>, next.last = DeltaKey(v)
    PROVE  /\ Gathered(after, u, d) = Gathered(table, u, d)
           /\ Gathered(after, u, next) = Gathered(table, u, d)
<1>1. /\ d.last \in Key /\ d.items \in Seq(Item) /\ d # None
      /\ u \in Nat /\ v \in Nat /\ DeltaKey(v) \in Key
  BY NoneAssumption, VersionAssumption, VersionKeys DEF Delta, Version, Reads
<1>2. d.last.version < v
  BY <1>1 DEF Descends
<1>3. Walk(after, u)[d.last] = Walk(table, u)[d.last]
  <2> DEFINE k == d.last
  <2>1. k \in Key /\ k.version < v
    BY <1>1, <1>2
  <2> HIDE DEF k
  <2>2. Walk(after, u)[k] = Walk(table, u)[k]
    BY <1>1, <2>1, WalkUnchanged
  <2> QED
    BY <2>2 DEF k
<1>4. Gathered(after, u, d) = Gathered(table, u, d)
  BY <1>3 DEF Gathered
<1>5. Linked(after, DeltaKey(v)) /\ Lookup(after, DeltaKey(v).version) = d
  BY <1>1, LookupAt DEF Linked, DeltaKey
<1>6. Walk(after, u)[DeltaKey(v)] = Gathered(after, u, d)
  BY <1>1, <1>5, WalkGathers
<1>7. Upto(<<>>, u) = <<>>
  <2>1. DOMAIN <<>> = {}
    OBVIOUS
  <2> QED
    BY <2>1, UptoAll
<1>8. /\ Gathered(after, u, d).from \in Key /\ Gathered(after, u, d).items \in Seq(Item)
      /\ Gathered(after, u, d) = [from |-> Gathered(after, u, d).from,
                                  items |-> Gathered(after, u, d).items]
  BY <1>1, GatheredType DEF Gathered
<1>9. Gathered(after, u, d).items \o <<>> = Gathered(after, u, d).items
  BY <1>8, ConcatEmptySeq
<1>10. Gathered(after, u, next) = Gathered(after, u, d)
  BY <1>6, <1>7, <1>8, <1>9 DEF Gathered
<1> QED
  BY <1>4, <1>10

\* The delta page just frozen serves the versions up to the commit's.
LEMMA FrozenNew ==
    ASSUME FirstVersion > 0, HInv, IInv', Descends(Table)', ~if_exceed, staged.delta = None,
           NEW v \in Version, v = version,
           NEW d \in Delta, d.last = active.last, Table'[v] = d,
           \A x \in Version : x < v =>
                /\ Table'[x] = Table[x]
                /\ Bases'[x] = Bases[x]
                /\ history'[x] = history[x],
           NEW u \in Reads, u < v => Gathered(Table, u, d) = Gathered(Table, u, active)
    PROVE  FrozenServesAt(v, u)'
<1> DEFINE before == Table
           after == Table'
           g == Gathered(before, u, d)
           old == Gathered(before, u, active)
           next == [items |-> <<>>, last |-> DeltaKey(v)]
<1>1. /\ before \in Tables /\ after \in Tables /\ Descends(before) /\ Descends(after)
      /\ \A x \in Version : x < v => after[x] = before[x]
      /\ after[v] = d /\ u \in Nat /\ v \in Nat /\ active.last.version < v
      /\ active.items \in Seq(Item) /\ active.last \in Key /\ active.bcount \in Nat
      /\ active.bcount < Tb /\ page_version.base \in Nat
      /\ page_version.base <= active.last.version /\ active.last.version \in Nat
  <2>1. IInv /\ Links
    BY DEF HInv
  <2>2. before \in Tables /\ after \in Tables
    BY <2>1, Stores, StoresNext DEF StoresTyped
  <2>3. Descends(before) /\ Descends(after)
    BY <2>1 DEF Links
  <2>4. u \in Nat /\ v \in Nat
    BY VersionAssumption DEF Reads, Version
  <2>5. /\ active.items \in Seq(Item) /\ active.last \in Key /\ active.bcount \in Nat
        /\ active.last.version \in Nat
    BY <2>1, ActiveType, VersionAssumption DEF Key
  <2>6. active.bcount < Tb
    BY <2>1 DEF IInv, CountsInStep
  <2>7. page_version.base \in Nat
    BY <2>1, VersionAssumption DEF Links, Version
  <2>8. page_version.base <= active.last.version /\ active.last.version < v
    BY <2>1 DEF Links
  <2> QED
    BY <2>2, <2>3, <2>4, <2>5, <2>6, <2>7, <2>8
<1>2. Gathered(after, u, d) = g
  <2>1. next.items = <<>> /\ next.last = DeltaKey(v)
    OBVIOUS
  <2> HIDE DEF before, after, next
  <2> QED
    BY <1>1, <2>1, FreezeGathers
<1>3. ActiveServesAt(u)
  BY DEF HInv, ActiveServes
<1>4. /\ old.from = BaseKey(page_version.base) /\ Start(Bases, old.from) \in Page
      /\ Weight * Len(old.items) <= active.bcount
  BY <1>3 DEF ActiveServesAt
<1>5. g.from = old.from /\ g.from.version = page_version.base
  BY <1>4 DEF Gathered, BaseKey
<1>6. Start(Bases', g.from) = Start(Bases, g.from)
  <2>1. \A x \in Version : x = g.from.version => Bases'[x] = Bases[x]
    BY <1>1, <1>5 DEF Version
  <2> QED
    BY <2>1, StartSame
<1>7. u < v => Weight * Len(g.items) < Tb
  <2>1. SUFFICES ASSUME u < v PROVE Weight * Len(g.items) < Tb
    OBVIOUS
  <2>2. g = old
    BY <2>1
  <2>3. Len(old.items) \in Nat
    BY <1>1, GatheredType, LenProperties
  <2>4. Weight * Len(old.items) \in Nat
    BY <2>3, Thresholds
  <2> QED
    BY <1>1, <1>4, <2>2, <2>4, Thresholds
<1>8. ASSUME u \in Version, g.from.version <= u, u < v
      PROVE  LET p == Built(Start(Bases', g.from), g.items) IN
             IF history'[u] = None THEN p.version < u
             ELSE p = [version |-> u, slots |-> history'[u]]
  <2>1. g = old
    BY <1>8
  <2>2. Correct(u, BuiltFrom(u, active))
    BY <1>5, <1>8, ActivePast
  <2>3. Correct(u, Built(Start(Bases, g.from), g.items))
    BY <2>1, <2>2 DEF BuiltFrom
  <2> HIDE DEF g
  <2>4. history'[u] = history[u]
    BY <1>8
  <2> QED
    BY <1>6, <2>3, <2>4 DEF Correct
<1>9. Gathered(Table', u, Table'[v]) = g
  BY <1>1, <1>2
<1> HIDE DEF g, old
<1>10. /\ Start(Bases', g.from) \in Page
       /\ g.from.version <= Table'[v].last.version
  BY <1>1, <1>4, <1>5, <1>6
<1>11. BuiltFrom(u, Table[v])' = Built(Start(Bases', g.from), g.items)
  BY <1>9 DEF BuiltFrom
<1>12. u \in Version /\ g.from.version <= u /\ u < v => Correct(u, BuiltFrom(u, Table[v]))'
  BY <1>8, <1>11 DEF Correct
<1> QED
  BY <1>7, <1>9, <1>10, <1>12 DEF FrozenServesAt

-----------------------------------------------------------------------------
(* The steps *)

\* The page before its first commit.
LEMMA InitHist ==
    ASSUME FirstVersion > 0
    PROVE  Init => HInv
<1> SUFFICES ASSUME Init PROVE HInv
  OBVIOUS
<1>1. IInv
  BY InitInv
<1>2. /\ Table = frozen /\ Bases = base
      /\ Table = [v \in Version |-> None] /\ Bases = [v \in Version |-> None]
      /\ Live = [version |-> 0, slots |-> NewPage.slots] /\ pc = "idle"
      /\ active.items = <<>> /\ active.last = BaseKey(0) /\ active.bcount = 0
      /\ page_version.current = 0 /\ page_version.base = 0
  BY <1>1, IdleStores DEF Init, Live
<1>3. Descends(Table)
  BY <1>2 DEF Descends
<1>4. Links
  <2>1. 0 < version /\ version \in Nat
    BY VersionAssumption DEF Init
  <2>2. \A i \in DOMAIN active.items : FALSE
    BY <1>2
  <2>3. active.last.version = 0
    BY <1>2 DEF BaseKey
  <2> QED
    BY <1>2, <1>3, <2>1, <2>2, <2>3 DEF Links, Init
<1>5. Commits
  BY <1>2, NoneAssumption, NewPageType DEF Commits, Init, Page
<1>6. FrozenServes
  BY <1>2 DEF FrozenServes
<1>7. ActiveServes
  <2> SUFFICES ASSUME NEW u \in Reads PROVE ActiveServesAt(u)
    BY DEF ActiveServes
  <2>1. Table \in Tables /\ BaseKey(0) \in Key
    BY <1>1, <1>2, Stores, VersionAssumption DEF BaseKey, Key
  <2>2. Walk(Table, u)[BaseKey(0)] = [from |-> BaseKey(0), items |-> <<>>]
    <3>1. ~Linked(Table, BaseKey(0))
      BY DEF Linked, BaseKey
    <3> QED
      BY <1>3, <2>1, <3>1, WalkEnds
  <2>3. Upto(<<>>, u) = <<>>
    <3>1. DOMAIN <<>> = {}
      OBVIOUS
    <3> QED
      BY <3>1, UptoAll
  <2>4. Gathered(Table, u, active) = [from |-> BaseKey(0), items |-> <<>>]
    BY <1>2, <2>2, <2>3 DEF Gathered
  <2>5. Start(Bases, BaseKey(0)) = NewPage
    BY DEF Start, BaseKey
  <2>6. Built(NewPage, <<>>) = Live
    BY <1>2, NewPageType, ReplayNone DEF Built, NewPage, Page
  <2>7. Weight * Len(<<>>) = 0
    BY Thresholds
  <2>8. u >= 0
    BY DEF Reads
  <2> QED
    BY <1>2, <2>4, <2>5, <2>6, <2>7, <2>8, NewPageType DEF ActiveServesAt, BuiltFrom, Reads
<1> QED
  BY <1>1, <1>4, <1>5, <1>6, <1>7 DEF HInv

\* A step that changes no page and no link leaves what the delta pages serve.
LEMMA ServesKept ==
    ASSUME HInv, IInv', Table' = Table, Bases' = Bases, history' = history, Live' = Live,
           UNCHANGED <<active, page_version>>, if_exceed' = FALSE => if_exceed = FALSE
    PROVE  FrozenServes' /\ ActiveServes'
<1>1. FrozenServes'
  <2> SUFFICES ASSUME NEW v \in Version, NEW u \in Reads, Table'[v] # None
               PROVE  FrozenServesAt(v, u)'
    BY DEF FrozenServes, Reads
  <2>1. Descends(Table)'
    BY DEF HInv, Links, Descends
  <2>2. Table[v] # None
    OBVIOUS
  <2> QED
    BY <2>1, <2>2, FrozenKept
<1>2. ActiveServes'
  <2> SUFFICES ASSUME NEW u \in Reads PROVE ActiveServesAt(u)'
    BY DEF ActiveServes, Reads
  <2>1. ActiveServesAt(u)
    BY DEF HInv, ActiveServes
  <2>2. Gathered(Table, u, active)' = Gathered(Table, u, active)
    OBVIOUS
  <2>3. BuiltFrom(u, active)' = BuiltFrom(u, active)
    BY <2>2 DEF BuiltFrom
  <2>4. Correct(u, BuiltFrom(u, active))' <=> Correct(u, BuiltFrom(u, active))
    BY <2>3 DEF Correct
  <2>5. /\ if_exceed \in BOOLEAN /\ if_exceed' \in BOOLEAN
    BY DEF HInv, IInv, TypeOK
  <2> QED
    BY <2>1, <2>2, <2>3, <2>4, <2>5 DEF ActiveServesAt
<1> QED
  BY <1>1, <1>2

\* Commits of other pages, and what the LRU cache does between commits.
LEMMA BetweenCommitsHist ==
    ASSUME HInv, CommitElsewhere \/ Evict \/ Fetch \/ UNCHANGED vars
    PROVE  HInv'
<1>1. IInv'
  BY BetweenCommitsInv, NextInv DEF HInv
<1>2. /\ UNCHANGED <<pc, pending, if_exceed, active, deltapage_versions, page_version,
                     staged, frozen, base, history, latest>>
      /\ version' = version \/ (pc = "idle" /\ version' = version + 1)
      /\ page' = page \/ (pc = "idle" /\ (page' = NotCached \/ page' = Live))
  <2>1. CASE CommitElsewhere
    BY <2>1 DEF CommitElsewhere, chainVars, storeVars, ghostVars
  <2>2. CASE Evict
    BY <2>2 DEF Evict, chainVars, storeVars, ghostVars
  <2>3. CASE Fetch
    BY <2>3, LoadLive DEF Fetch, chainVars, storeVars, ghostVars
  <2>4. CASE UNCHANGED vars
    BY <2>4 DEF vars
  <2> QED
    BY <2>1, <2>2, <2>3, <2>4
<1>3. Live' = Live
  BY <1>2 DEF Live
<1>4. Table' = Table /\ Bases' = Bases
  <2>1. CASE pc = "idle"
    BY <1>1, <1>2, <2>1, IdleStores DEF HInv, IInv, CommitShape, NothingStaged, Table, Bases, Stored
  <2>2. CASE pc # "idle"
    BY <1>2, <2>2 DEF Table, Bases, Stored
  <2> QED
    BY <2>1, <2>2
<1>5. version \in Nat /\ page_version.current \in Nat /\ active.last.version \in Nat
  BY ActiveType, VersionAssumption DEF HInv, IInv, TypeOK, Key
<1>6. Links'
  <2>1. Descends(Table)'
    BY <1>4 DEF HInv, Links, Descends
  <2>2. \A v \in Version : v \in Nat
    BY VersionAssumption DEF Version
  <2>3. \A v \in Version : frozen'[v] # None \/ base'[v] # None => v < version'
    BY <1>2, <1>5, <2>2 DEF HInv, Links
  <2>4. /\ active'.last.version <= version'
        /\ staged'.delta = None => active'.last.version < version'
        /\ page_version'.current <= version'
        /\ pc' = "idle" => page_version'.current < version'
    BY <1>2, <1>5 DEF HInv, Links
  <2>5. deltapage_versions' = {v \in Version : Table'[v] # None}
    BY <1>2, <1>4 DEF HInv, Links
  <2>6. /\ page_version'.current \in Version \cup {0} /\ page_version'.base \in Version \cup {0}
        /\ page_version'.base <= active'.last.version
        /\ page_version'.base <= page_version'.current
        /\ \A i \in DOMAIN active'.items :
              active'.items[i].version \in page_version'.base..page_version'.current
    BY <1>2 DEF HInv, Links
  <2> QED
    BY <2>1, <2>3, <2>4, <2>5, <2>6 DEF Links
<1>7. Commits'
  <2>1. CASE pc = "idle"
    <3>1. page_version.current < version /\ page_version.current < version'
      BY <1>2, <1>5, <2>1 DEF HInv, Links
    <3> QED
      BY <1>2, <1>3, <2>1, <3>1 DEF HInv, Commits
  <2>2. CASE pc # "idle"
    BY <1>2, <1>3, <2>2 DEF HInv, Commits
  <2> QED
    BY <2>1, <2>2
<1>8. FrozenServes' /\ ActiveServes'
  BY <1>1, <1>2, <1>3, <1>4, ServesKept
<1> QED
  BY <1>1, <1>6, <1>7, <1>8 DEF HInv

\* Beginning a commit works on the page as it is; a commit too large for the
\* delta pages freezes the one that has items.
LEMMA BeginCommitHist ==
    ASSUME FirstVersion > 0, HInv, NEW S \in (SUBSET Slot) \ {{}}, BeginCommit(S)
    PROVE  HInv'
<1>1. IInv'
  BY BeginCommitInv DEF HInv
<1>2. /\ pc = "idle" /\ version \in Version /\ version \in Nat /\ version > 0
      /\ ~if_exceed /\ staged.delta = None /\ staged.base = None
      /\ page_version.current \in Nat /\ page_version.current < version
      /\ active.last.version \in Nat /\ active.last.version < version
      /\ Table = frozen /\ Bases = base /\ Table \in Tables /\ Descends(Table)
      /\ active \in ActivePage
  BY Stores, IdleStores, ActiveType, VersionAssumption
  DEF HInv, IInv, TypeOK, CommitShape, NothingStaged, Links, BeginCommit, Version, Key
<1>3. /\ page' = Live /\ pc' = "update" /\ pending' = S /\ if_exceed' = Exceeds(S)
      /\ latest' = [s \in Slot |-> IF s \in S THEN version ELSE latest[s]]
      /\ history' = [history EXCEPT ![version] = latest']
      /\ UNCHANGED <<version, page_version, frozen, base>>
  BY <1>2, LoadLive DEF BeginCommit, storeVars
<1>4. Live' = Live
  BY <1>3 DEF Live
<1>5. \A x \in Version : x # version => history'[x] = history[x]
  BY <1>3 DEF HInv, IInv, TypeOK
<1>6. history'[version] = latest'
  BY <1>2, <1>3 DEF HInv, IInv, TypeOK
<1>7. Commits'
  <2>1. \A v \in Version : v > page_version'.current /\ history'[v] # None =>
            pc' = "update" /\ v = version'
    BY <1>2, <1>3, <1>5 DEF HInv, Commits
  <2>2. \A v \in Version : history'[v] # NewPage.slots
    <3>1. latest' # NewPage.slots
      <4>1. PICK s \in S : s \in Slot
        OBVIOUS
      <4>2. latest'[s] = version /\ NewPage.slots[s] = -1
        BY <1>3, <4>1 DEF NewPage, Never
      <4> QED
        BY <1>2, <4>2
    <3> QED
      BY <1>5, <1>6, <3>1 DEF HInv, Commits
  <2>3. page_version'.current > 0 /\ page_version'.current < version' =>
            history'[page_version'.current] = Live'.slots
    <3>1. page_version.current > 0 => page_version.current \in Version
      BY <1>2 DEF HInv, Links
    <3> QED
      BY <1>2, <1>3, <1>4, <1>5, <3>1 DEF HInv, Commits
  <2>4. /\ page_version'.current = 0 => Live'.slots = NewPage.slots
        /\ Live'.version = page_version'.current
    BY <1>3, <1>4 DEF HInv, Commits
  <2>5. \A s \in Slot : IF s \in pending' THEN latest'[s] = version'
                        ELSE page'.slots[s] = latest'[s]
    <3>1. Live.slots = latest
      BY <1>2 DEF Live
    <3> QED
      BY <1>3, <3>1
  <2>6. pc' = "update" /\ pending' # {} /\ version' = version /\ pc' # "idle"
    BY <1>3
  <2>7. history'[version'] = latest'
    BY <1>3, <1>6
  <2> QED
    BY <2>1, <2>2, <2>3, <2>4, <2>5, <2>6, <2>7 DEF Commits
<1>8. Bases' = Bases
  <2>1. staged'.base = None
    BY <1>2 DEF BeginCommit, HInv, IInv, TypeOK
  <2> QED
    BY <1>2, <1>3, <2>1 DEF Bases, Stored
<1>9. CASE Exceeds(S) /\ active.count # 0
  <2> DEFINE d == Frozen(active)
  <2>1. /\ staged'.delta = d /\ active' = Cleared(active)
        /\ deltapage_versions' = deltapage_versions \cup {version}
    BY <1>2, <1>9 DEF BeginCommit, HInv, IInv, TypeOK
  <2>2. /\ d \in Delta /\ d # None /\ d.last = active.last /\ d.items = active.items
        /\ active'.items = <<>> /\ active'.last = DeltaKey(version)
        /\ active'.bcount = active.bcount
    BY <1>2, <2>1, FrozenType, ClearedType DEF Frozen
  <2>3. /\ \A x \in Version : x # version => Table'[x] = Table[x]
        /\ Table'[version] = d /\ Table' \in Tables
    BY <1>1, <1>2, <1>3, <2>1, <2>2, StoresNext DEF StoresTyped
  <2>4. Descends(Table)'
    <3> DEFINE after == Table'
    <3>1. after[version] # None => after[version].last.version < version
      BY <1>2, <2>2, <2>3
    <3>2. \A x \in Version : x # version => after[x] = Table[x]
      BY <2>3
    <3> HIDE DEF after
    <3>3. Descends(after)
      BY <1>2, <3>1, <3>2, FreezeDescends
    <3> QED
      BY <3>3 DEF after, Descends
  <2>5. Links'
    <3>1. deltapage_versions' = {v \in Version : Table'[v] # None}
      BY <1>2, <2>1, <2>2, <2>3 DEF HInv, Links
    <3>2. active'.last.version = version
      BY <2>2 DEF DeltaKey
    <3>3. \A i \in DOMAIN active'.items : FALSE
      BY <2>2
    <3>4. page_version.base <= version
      BY <1>2 DEF HInv, Links, IInv, TypeOK
    <3> QED
      BY <1>2, <1>3, <2>1, <2>2, <2>4, <3>1, <3>2, <3>3, <3>4 DEF HInv, Links
  <2>6. \A u \in Reads : /\ Gathered(Table', u, d) = Gathered(Table, u, active)
                         /\ Gathered(Table', u, active') = Gathered(Table, u, active)
    <3> SUFFICES ASSUME NEW u \in Reads
                 PROVE  /\ Gathered(Table', u, d) = Gathered(Table, u, active)
                        /\ Gathered(Table', u, active') = Gathered(Table, u, active)
      OBVIOUS
    <3> DEFINE before == Table
               after == Table'
               next == active'
               v == version
    <3>1. /\ before \in Tables /\ after \in Tables /\ Descends(before) /\ Descends(after)
          /\ v \in Version /\ \A x \in Version : x < v => after[x] = before[x]
          /\ d \in Delta /\ after[v] = d
          /\ next.items = <<>> /\ next.last = DeltaKey(v)
      BY <1>2, <2>2, <2>3, <2>4 DEF Descends
    <3>2. Gathered(before, u, d) = Gathered(before, u, active)
      BY <2>2, GatheredSame
    <3> HIDE DEF before, after, next, v, d
    <3>3. Gathered(after, u, d) = Gathered(before, u, d)
          /\ Gathered(after, u, next) = Gathered(before, u, d)
      BY <3>1, FreezeGathers
    <3> QED
      BY <3>2, <3>3 DEF before, after, next
  <2>7. FrozenServes'
    <3> SUFFICES ASSUME NEW v \in Version, NEW u \in Reads, Table'[v] # None
                 PROVE  FrozenServesAt(v, u)'
      BY DEF FrozenServes, Reads
    <3>1. CASE v = version
      <4>1. Gathered(Table, u, d) = Gathered(Table, u, active)
        BY <2>2, GatheredSame
      <4>2. \A x \in Version : x < v => /\ Table'[x] = Table[x] /\ Bases'[x] = Bases[x]
                                        /\ history'[x] = history[x]
        BY <1>2, <1>5, <1>8, <2>3, <3>1 DEF Version
      <4>3. Table'[v] = d
        BY <2>3, <3>1
      <4> HIDE DEF d
      <4> QED
        BY <1>1, <1>2, <2>2, <2>4, <3>1, <4>1, <4>2, <4>3, FrozenNew
    <3>2. CASE v # version
      <4>1. Table[v] # None /\ v < version
        BY <1>2, <2>3, <3>2 DEF HInv, Links
      <4>2. \A x \in Version : x <= v => Table'[x] = Table[x]
        BY <1>2, <2>3, <4>1 DEF Version
      <4>3. \A x \in Version : x < v => Bases'[x] = Bases[x] /\ history'[x] = history[x]
        BY <1>2, <1>5, <1>8, <4>1 DEF Version
      <4> QED
        BY <1>1, <2>4, <4>1, <4>2, <4>3, FrozenKept
    <3> QED
      BY <3>1, <3>2
  <2>8. ActiveServes'
    <3> SUFFICES ASSUME NEW u \in Reads PROVE ActiveServesAt(u)'
      BY DEF ActiveServes, Reads
    <3>1. ActiveServesAt(u)
      BY DEF HInv, ActiveServes
    <3>2. Gathered(Table, u, active)' = Gathered(Table, u, active)
      BY <2>6
    <3>3. if_exceed'
      BY <1>3, <1>9
    <3> QED
      BY <1>3, <1>8, <2>2, <3>1, <3>2, <3>3 DEF ActiveServesAt
  <2> QED
    BY <1>1, <1>7, <2>5, <2>7, <2>8 DEF HInv
<1>10. CASE ~(Exceeds(S) /\ active.count # 0)
  <2>1. UNCHANGED <<staged, active, deltapage_versions>>
    BY <1>10 DEF BeginCommit
  <2>2. Table' = Table
    BY <1>3, <2>1 DEF Table, Stored
  <2>3. Descends(Table)'
    BY <2>2 DEF HInv, Links, Descends
  <2>4. Links'
    BY <1>3, <2>1, <2>2, <2>3 DEF HInv, Links
  <2>5. FrozenServes'
    <3> SUFFICES ASSUME NEW v \in Version, NEW u \in Reads, Table'[v] # None
                 PROVE  FrozenServesAt(v, u)'
      BY DEF FrozenServes, Reads
    <3>1. Table[v] # None /\ v < version
      BY <1>2, <2>2 DEF HInv, Links
    <3>2. \A x \in Version : x < v => Bases'[x] = Bases[x] /\ history'[x] = history[x]
      BY <1>2, <1>5, <1>8, <3>1 DEF Version
    <3> QED
      BY <1>1, <2>2, <2>3, <3>1, <3>2, FrozenKept
  <2>6. ActiveServes'
    <3> SUFFICES ASSUME NEW u \in Reads PROVE ActiveServesAt(u)'
      BY DEF ActiveServes, Reads
    <3>1. ActiveServesAt(u)
      BY DEF HInv, ActiveServes
    <3>2. Gathered(Table, u, active)' = Gathered(Table, u, active)
      BY <2>1, <2>2
    <3>3. BuiltFrom(u, active)' = BuiltFrom(u, active)
      BY <1>8, <3>2 DEF BuiltFrom
    <3>4. u \in Version /\ u < page_version.current =>
              (Correct(u, BuiltFrom(u, active))' <=> Correct(u, BuiltFrom(u, active)))
      <4>1. u \in Version /\ u < page_version.current => history'[u] = history[u]
        BY <1>2, <1>5 DEF Version
      <4> QED
        BY <3>3, <4>1 DEF Correct
    <3> QED
      BY <1>2, <1>3, <1>4, <1>8, <2>1, <3>1, <3>2, <3>3, <3>4 DEF ActiveServesAt
  <2> QED
    BY <1>1, <1>7, <2>4, <2>5, <2>6 DEF HInv
<1> QED
  BY <1>9, <1>10

\* One more item moves the base page's counter with the delta page's: it is due
\* only where the delta page is full, and no delta page has been frozen then.
LEMMA CheckpointsAtFreeze ==
    ASSUME IInv, pc = "update", ~if_exceed, NEW n \in pending
    PROVE  LET grown == Grown(active, n) IN
           /\ grown \in ActivePage
           /\ grown.bcount = active.bcount + Weight /\ grown.last = active.last
           /\ Checkpoints(grown) => Freezes(grown)
           /\ Freezes(grown) => staged.delta = None
<1> DEFINE grown == Grown(active, n)
           c == active.count
           b == active.bcount
<1>1. /\ active \in ActivePage /\ version \in Version /\ n \in Slot /\ pending \in SUBSET Slot
      /\ c \in Nat /\ b \in Nat /\ c < Td /\ b \in {c, c + Td}
      /\ c + Weight * Cardinality(pending) < 2 * Td
      /\ staged.delta # None => c + Weight * Cardinality(pending) < Td
  BY ActiveType, VersionAssumption DEF IInv, TypeOK, CommitShape, CountsInStep, RoomLeft, Version
<1>2. grown \in ActivePage /\ grown.count = c + Weight /\ grown.bcount = b + Weight
      /\ grown.last = active.last
  BY <1>1, GrownType
<1>3. Cardinality(pending) \in Nat /\ Cardinality(pending) > 0
  BY <1>1, PendingCount
<1>4. Weight <= Weight * Cardinality(pending) /\ Weight * Cardinality(pending) \in Nat
  <2>1. CASE Weight = 1
    BY <1>3, <2>1
  <2>2. CASE Weight = 2
    BY <1>3, <2>2
  <2> QED
    BY <2>1, <2>2, Thresholds
<1>5. (Checkpoints(grown) <=> b + Weight >= Tb) /\ (Freezes(grown) <=> c + Weight >= Td)
  BY <1>2 DEF Checkpoints, Freezes
<1> HIDE DEF grown, c, b
<1>6. b + Weight >= Tb => c + Weight >= Td
  BY <1>1, Thresholds
<1>7. c + Weight >= Td => staged.delta = None
  BY <1>1, <1>4, Thresholds
<1> QED
  BY <1>2, <1>5, <1>6, <1>7 DEF grown, c, b

\* The active delta page with one more item, frozen or not, serves the page
\* with the item's slot written.
LEMMA ActiveGrown ==
    ASSUME FirstVersion > 0, HInv, pc = "update", ~if_exceed, NEW n \in pending,
           version' = version, if_exceed' = if_exceed, history' = history, Live' = Written(n),
           page_version'.base = page_version.base, page_version'.current = version,
           active'.bcount = active.bcount + Weight, Bases' = Bases,
           NEW u \in Reads,
           Gathered(Table', u, active') = Gathered(Table, u, Grown(active, n))
    PROVE  ActiveServesAt(u)'
<1> DEFINE g == Gathered(Table, u, Grown(active, n))
<1>1. /\ g.from = BaseKey(page_version.base)
      /\ Start(Bases, g.from) \in Page
      /\ Weight * Len(g.items) <= active.bcount + Weight
      /\ u < version => g = Gathered(Table, u, active)
      /\ u >= version => Built(Start(Bases, g.from), g.items) = Written(n)
  BY GrownGathers
<1>2. u \in Version /\ page_version.base <= u /\ u < version =>
          Correct(u, Built(Start(Bases, g.from), g.items))
  BY <1>1, ActivePast DEF BuiltFrom
<1>3. Gathered(Table, u, active)' = g
  OBVIOUS
<1> HIDE DEF g
<1>4. BuiltFrom(u, active)' = Built(Start(Bases, g.from), g.items)
  BY <1>3 DEF BuiltFrom
<1>5. u \in Version /\ page_version.base <= u /\ u < version =>
          Correct(u, BuiltFrom(u, active))'
  BY <1>2, <1>4 DEF Correct
<1> QED
  BY <1>1, <1>3, <1>4, <1>5 DEF ActiveServesAt

\* The empty delta page on a new base page serves that page.
LEMMA RebasedGathers ==
    ASSUME FirstVersion > 0, NEW v \in Version, NEW u, NEW table \in Tables, Descends(table),
           NEW d, d.items = <<>>, d.last = BaseKey(v),
           NEW bases, NEW p \in Page, bases[v] = p,
           p = [version |-> p.version, slots |-> p.slots]
    PROVE  LET g == Gathered(table, u, d) IN
           /\ g.from = BaseKey(v)
           /\ Start(bases, g.from) = p
           /\ Weight * Len(g.items) = 0
           /\ Built(Start(bases, g.from), g.items) = p
<1>1. BaseKey(v) \in Key /\ ~Linked(table, BaseKey(v))
  BY VersionKeys DEF Linked, BaseKey
<1>2. Walk(table, u)[BaseKey(v)] = [from |-> BaseKey(v), items |-> <<>>]
  BY <1>1, WalkEnds
<1>3. Upto(<<>>, u) = <<>>
  <2>1. DOMAIN <<>> = {}
    OBVIOUS
  <2> QED
    BY <2>1, UptoAll
<1>4. Gathered(table, u, d) = [from |-> BaseKey(v), items |-> <<>>]
  BY <1>2, <1>3 DEF Gathered
<1>5. Start(bases, BaseKey(v)) = p
  BY LookupAt DEF Start, BaseKey
<1>6. Built(p, <<>>) = p
  BY ReplayNone DEF Built, Page
<1>7. Weight * Len(<<>>) = 0
  BY Thresholds
<1> QED
  BY <1>4, <1>5, <1>6, <1>7

LEMMA ActiveRebased ==
    ASSUME FirstVersion > 0, IInv', Descends(Table)', Live' \in Page,
           Live' = [version |-> Live'.version, slots |-> Live'.slots],
           NEW v \in Version, active'.items = <<>>, active'.last = BaseKey(v), active'.bcount = 0,
           page_version'.base = v, page_version'.current = v, Bases'[v] = Live',
           NEW u \in Reads
    PROVE  ActiveServesAt(u)'
<1> DEFINE table == Table'
           bases == Bases'
           d == active'
           p == Live'
           g == Gathered(table, u, d)
<1>1. table \in Tables /\ Descends(table)
  BY StoresNext DEF StoresTyped, Descends
<1>2. /\ d.items = <<>> /\ d.last = BaseKey(v) /\ bases[v] = p /\ p \in Page
      /\ p = [version |-> p.version, slots |-> p.slots]
  OBVIOUS
<1> HIDE DEF table, bases, d, p
<1>3. /\ g.from = BaseKey(v)
      /\ Start(bases, g.from) = p
      /\ Weight * Len(g.items) = 0
      /\ Built(Start(bases, g.from), g.items) = p
  BY <1>1, <1>2, RebasedGathers
<1>4. Gathered(Table, u, active)' = g
  BY DEF table, d
<1> HIDE DEF g
<1>5. BuiltFrom(u, active)' = p
  BY <1>3, <1>4 DEF BuiltFrom, bases
<1>6. v \in Nat /\ u \in Nat
  BY VersionAssumption DEF Version, Reads
<1>7. /\ g.from = BaseKey(page_version'.base)
      /\ Start(bases, g.from) \in Page
      /\ Weight * Len(g.items) <= active'.bcount
      /\ ~ (page_version'.base <= u /\ u < page_version'.current)
  BY <1>2, <1>3, <1>6
<1> QED
  BY <1>4, <1>5, <1>7 DEF ActiveServesAt, bases, p

\* What one update does to the committed versions.
LEMMA UpdateCommits ==
    ASSUME FirstVersion > 0, HInv, NEW n \in pending, UpdatePage(n)
    PROVE  /\ Commits' /\ Live' = Written(n) /\ Live' \in Page
           /\ page_version'.current = version
<1>1. /\ pc = "update" /\ version \in Version /\ version \in Nat /\ version > 0
      /\ page \in Page /\ n \in Slot /\ page_version.current \in Nat
      /\ page_version.current <= version
  BY VersionAssumption
  DEF UpdatePage, HInv, Links, IInv, TypeOK, CommitShape, Version
<1>2. /\ page' = Written(n) /\ pending' = pending \ {n}
      /\ UNCHANGED <<version, pc, if_exceed, frozen, base, history, latest>>
  BY DEF UpdatePage, storeVars, ghostVars
<1>3. Live' = Written(n) /\ Live' \in Page
  BY <1>1, <1>2, WrittenType DEF Live
<1>4. page_version'.current = version
  BY DEF UpdatePage, UpdateInPlace, UpdateThroughDelta, HInv, IInv, TypeOK
<1>5. \A v \in Version : v > page_version'.current /\ history'[v] # None =>
          pc' = "update" /\ v = version'
  BY <1>1, <1>2, <1>4 DEF HInv, Commits, Version
<1>6. \A s \in Slot : IF s \in pending' THEN latest'[s] = version'
                      ELSE page'.slots[s] = latest'[s]
  <2> SUFFICES ASSUME NEW s \in Slot
               PROVE  IF s \in pending' THEN latest'[s] = version'
                      ELSE page'.slots[s] = latest'[s]
    OBVIOUS
  <2>1. /\ s \in pending => latest[s] = version
        /\ s \notin pending => page.slots[s] = latest[s]
    BY <1>1 DEF HInv, Commits
  <2>2. page'.slots[s] = IF s = n THEN version ELSE page.slots[s]
    BY <1>1, <1>2 DEF Written, Page, Contents
  <2> QED
    BY <1>2, <2>1, <2>2
<1>7. Live'.version = page_version'.current
  BY <1>3, <1>4 DEF Written
<1>8. /\ ~ (page_version'.current > 0 /\ page_version'.current < version')
      /\ ~ (page_version'.current = 0) /\ pc' # "idle" /\ page_version'.current = version'
  BY <1>1, <1>2, <1>4
<1>9. history'[version'] = latest' /\ \A v \in Version : history'[v] # NewPage.slots
  BY <1>1, <1>2 DEF HInv, Commits
<1> QED
  BY <1>3, <1>4, <1>5, <1>6, <1>7, <1>8, <1>9 DEF Commits

\* The delta pages stored earlier serve as before, whatever the commit stages.
LEMMA UpdateKeepsFrozen ==
    ASSUME FirstVersion > 0, HInv, IInv', Descends(Table)',
           version \in Version, version' = version, history' = history,
           \A x \in Version : x # version => Table'[x] = Table[x] /\ Bases'[x] = Bases[x],
           NEW v \in Version, v # version \/ Table'[v] = Table[v], Table'[v] # None,
           NEW u \in Reads
    PROVE  FrozenServesAt(v, u)'
<1>1. v \in Nat /\ version \in Nat
  BY VersionAssumption DEF Version
<1>2. Table[v] # None
  OBVIOUS
<1>3. v <= version
  <2>1. \A x \in Version : Table[x] # None => x <= version
    BY Stores, VersionAssumption DEF HInv, Links, Version
  <2> QED
    BY <1>2, <2>1
<1>4. /\ \A x \in Version : x <= v => Table'[x] = Table[x]
      /\ \A x \in Version : x < v => Bases'[x] = Bases[x] /\ history'[x] = history[x]
  BY <1>1, <1>3 DEF Version
<1> QED
  BY <1>2, <1>4, FrozenKept

\* One update of a commit that bypasses the delta pages.
LEMMA UpdateInPlaceHist ==
    ASSUME FirstVersion > 0, HInv, NEW n \in pending, UpdatePage(n), if_exceed
    PROVE  HInv'
<1>1. IInv' /\ Commits' /\ page_version'.current = version
  BY UpdatePageInv, UpdateCommits DEF HInv
<1>2. /\ version \in Version /\ version \in Nat /\ page_version.current \in Nat
      /\ page_version.current <= version /\ page_version.base \in Nat
      /\ page_version.base <= page_version.current
      /\ UNCHANGED <<version, pc, if_exceed, frozen, base, history, latest,
                     active, deltapage_versions, staged>>
      /\ page_version' = [page_version EXCEPT !.current = version]
  BY VersionAssumption
  DEF UpdatePage, UpdateInPlace, storeVars, ghostVars, HInv, Links, IInv, TypeOK, CommitShape,
      Version
<1>3. Table' = Table /\ Bases' = Bases
  BY <1>2 DEF Table, Bases, Stored
<1>4. page_version'.base = page_version.base
  BY <1>2 DEF HInv, IInv, TypeOK
<1>5. Descends(Table)'
  BY <1>3 DEF HInv, Links, Descends
<1>6. Links'
  <2>1. \A i \in DOMAIN active'.items :
            active'.items[i].version \in page_version'.base..page_version'.current
    <3> SUFFICES ASSUME NEW i \in DOMAIN active.items
                 PROVE  active.items[i].version \in page_version.base..version
      BY <1>1, <1>2, <1>4
    <3>1. active.items[i].version \in page_version.base..page_version.current
      BY DEF HInv, Links
    <3> QED
      BY <1>2, <3>1
  <2>2. pc' # "idle"
    BY <1>2 DEF UpdatePage
  <2> QED
    BY <1>1, <1>2, <1>3, <1>4, <1>5, <2>1, <2>2 DEF HInv, Links
<1>7. FrozenServes'
  <2> SUFFICES ASSUME NEW v \in Version, NEW u \in Reads, Table'[v] # None
               PROVE  FrozenServesAt(v, u)'
    BY DEF FrozenServes, Reads
  <2> QED
    BY <1>1, <1>2, <1>3, <1>5, UpdateKeepsFrozen
<1>8. ActiveServes'
  <2> SUFFICES ASSUME NEW u \in Reads PROVE ActiveServesAt(u)'
    BY DEF ActiveServes, Reads
  <2>1. ActiveServesAt(u)
    BY DEF HInv, ActiveServes
  <2>2. Gathered(Table, u, active)' = Gathered(Table, u, active)
    BY <1>2, <1>3
  <2> QED
    BY <1>2, <1>3, <1>4, <2>1, <2>2 DEF ActiveServesAt
<1> QED
  BY <1>1, <1>6, <1>7, <1>8 DEF HInv

\* An update that leaves the delta page room for more.
LEMMA UpdateRoomHist ==
    ASSUME FirstVersion > 0, HInv, NEW n \in pending, UpdatePage(n), ~if_exceed,
           ~Freezes(Grown(active, n))
    PROVE  HInv'
<1> DEFINE grown == Grown(active, n)
<1>1. IInv' /\ Commits' /\ page_version'.current = version /\ Live' = Written(n)
  BY UpdatePageInv, UpdateCommits DEF HInv
<1>2. /\ version \in Version /\ version \in Nat /\ page_version.current \in Nat
      /\ page_version.current <= version /\ page_version.base \in Nat
      /\ page_version.base <= page_version.current
      /\ pc = "update" /\ n \in Slot
      /\ UNCHANGED <<version, pc, if_exceed, frozen, base, history, latest>>
  BY VersionAssumption
  DEF UpdatePage, storeVars, ghostVars, HInv, Links, IInv, TypeOK, CommitShape, Version
<1>3. /\ grown \in ActivePage /\ grown.bcount = active.bcount + Weight
      /\ grown.last = active.last /\ ~Checkpoints(grown)
  BY <1>2, CheckpointsAtFreeze DEF HInv
<1>4. /\ active' = grown /\ deltapage_versions' = deltapage_versions
      /\ staged' = [delta |-> staged.delta, base |-> staged.base]
      /\ page_version' = [current |-> version, base |-> page_version.base]
  BY <1>3 DEF UpdatePage, UpdateThroughDelta
<1>5. Table' = Table /\ Bases' = Bases /\ staged'.delta = staged.delta
      /\ page_version'.base = page_version.base
  BY <1>2, <1>4 DEF Table, Bases, Stored
<1>6. Descends(Table)'
  BY <1>5 DEF HInv, Links, Descends
<1>7. Links'
  <2>1. \A i \in DOMAIN active'.items :
            active'.items[i].version \in page_version'.base..page_version'.current
    <3> SUFFICES ASSUME NEW i \in DOMAIN grown.items
                 PROVE  grown.items[i].version \in page_version.base..version
      BY <1>1, <1>4, <1>5
    <3> DEFINE item == [slot |-> n, version |-> version]
               old == active.items
    <3>1. grown.items = Append(old, item) /\ old \in Seq(Item) /\ item \in Item
      BY <1>2, ActiveType DEF Grown, ActivePage, HInv, Item
    <3> HIDE DEF grown, item, old
    <3>2. /\ i \in 1..(Len(old) + 1) /\ Len(old) \in Nat
          /\ i \in 1..Len(old) => grown.items[i] = old[i] /\ i \in DOMAIN old
          /\ i = Len(old) + 1 => grown.items[i] = item
      BY <3>1, AppendProperties
    <3>3. CASE i \in 1..Len(old)
      <4>1. old[i].version \in page_version.base..page_version.current
        BY <3>2, <3>3 DEF HInv, Links, old
      <4> QED
        BY <1>2, <3>2, <3>3, <4>1
    <3>4. CASE i = Len(old) + 1
      BY <1>2, <3>2, <3>4 DEF item
    <3> QED
      BY <3>2, <3>3, <3>4
  <2>2. pc' # "idle"
    BY <1>2
  <2>3. page_version'.base <= page_version'.current
    BY <1>1, <1>2, <1>5
  <2> QED
    BY <1>1, <1>2, <1>3, <1>4, <1>5, <1>6, <2>1, <2>2, <2>3 DEF HInv, Links
<1>8. FrozenServes'
  <2> SUFFICES ASSUME NEW v \in Version, NEW u \in Reads, Table'[v] # None
               PROVE  FrozenServesAt(v, u)'
    BY DEF FrozenServes, Reads
  <2> QED
    BY <1>1, <1>2, <1>5, <1>6, UpdateKeepsFrozen
<1>9. ActiveServes'
  <2> SUFFICES ASSUME NEW u \in Reads PROVE ActiveServesAt(u)'
    BY DEF ActiveServes, Reads
  <2>1. Gathered(Table', u, active') = Gathered(Table, u, grown)
    BY <1>4, <1>5
  <2>2. active'.bcount = active.bcount + Weight
    BY <1>3, <1>4
  <2> HIDE DEF grown
  <2> QED
    BY <1>1, <1>2, <1>5, <2>1, <2>2, ActiveGrown DEF grown
<1> QED
  BY <1>1, <1>7, <1>8, <1>9 DEF HInv

\* The update that fills the delta page, and every second time the base page.
LEMMA UpdateFreezeHist ==
    ASSUME FirstVersion > 0, HInv, NEW n \in pending, UpdatePage(n), ~if_exceed,
           Freezes(Grown(active, n))
    PROVE  HInv'
<1> DEFINE grown == Grown(active, n)
           d == Frozen(grown)
           due == Checkpoints(grown)
<1>1. /\ IInv' /\ Commits' /\ page_version'.current = version
      /\ Live' = Written(n) /\ Live' \in Page
  BY UpdatePageInv, UpdateCommits DEF HInv
<1>2. /\ version \in Version /\ version \in Nat /\ page_version.current \in Nat
      /\ page_version.current <= version /\ page_version.base \in Nat
      /\ page_version.base <= page_version.current
      /\ pc = "update" /\ n \in Slot
      /\ Table \in Tables /\ Descends(Table) /\ active.last.version \in Nat
      /\ UNCHANGED <<version, pc, if_exceed, frozen, base, history, latest>>
  BY VersionAssumption, Stores, ActiveType
  DEF UpdatePage, storeVars, ghostVars, HInv, Links, IInv, TypeOK, CommitShape, Version, Key
<1>3. /\ grown \in ActivePage /\ grown.bcount = active.bcount + Weight
      /\ grown.last = active.last /\ staged.delta = None
  BY <1>2, CheckpointsAtFreeze DEF HInv
<1>4. /\ active' = IF due THEN Rebased(Cleared(grown)) ELSE Cleared(grown)
      /\ deltapage_versions' = deltapage_versions \cup {version}
      /\ staged' = [delta |-> d, base |-> IF due THEN Written(n) ELSE staged.base]
      /\ page_version' = [current |-> version,
                          base |-> IF due THEN version ELSE page_version.base]
  BY DEF UpdatePage, UpdateThroughDelta
<1>5. /\ d \in Delta /\ d # None /\ d.last = active.last /\ d.items = grown.items
      /\ active.last.version < version
  BY <1>3, FrozenType DEF Frozen, HInv, Links
<1>6. /\ active'.items = <<>> /\ active'.last = IF due THEN BaseKey(version) ELSE DeltaKey(version)
      /\ active'.bcount = IF due THEN 0 ELSE active.bcount + Weight
  <2>1. /\ Cleared(grown) \in ActivePage
        /\ Cleared(grown).items = <<>> /\ Cleared(grown).last = DeltaKey(version)
        /\ Cleared(grown).bcount = grown.bcount
    BY <1>2, <1>3, ClearedType
  <2>2. /\ Rebased(Cleared(grown)).items = <<>>
        /\ Rebased(Cleared(grown)).last = BaseKey(version)
        /\ Rebased(Cleared(grown)).bcount = 0
    BY <1>2, <2>1, ClearedType
  <2> QED
    BY <1>3, <1>4, <2>1, <2>2
<1> HIDE DEF grown, d, due
<1>7. staged'.delta = d /\ staged'.base = IF due THEN Written(n) ELSE staged.base
  BY <1>4
<1>8. /\ \A x \in Version : x # version => Table'[x] = Table[x] /\ Bases'[x] = Bases[x]
      /\ Table'[version] = d /\ Table' \in Tables
      /\ due => Bases'[version] = Written(n)
      /\ ~due => Bases' = Bases
  <2>1. /\ \A x \in Version : x # version => Table'[x] = Table[x] /\ Bases'[x] = Bases[x]
        /\ Table'[version] = d /\ Table' \in Tables
    BY <1>1, <1>2, <1>5, <1>7, Stores, StoresNext DEF HInv, StoresTyped
  <2>2. due => Bases'[version] = Written(n)
    <3>1. Written(n) # None
      BY <1>1, NoneAssumption
    <3> QED
      BY <1>1, <1>2, <1>7, <3>1, StoresNext DEF StoresTyped
  <2>3. ~due => Bases' = Bases
    BY <1>2, <1>7 DEF Bases, Stored
  <2> QED
    BY <2>1, <2>2, <2>3
<1>9. Descends(Table)'
  <2> DEFINE after == Table'
  <2>1. /\ after[version] # None => after[version].last.version < version
        /\ \A x \in Version : x # version => after[x] = Table[x]
    BY <1>5, <1>8
  <2> HIDE DEF after
  <2>2. Descends(after)
    BY <1>2, <2>1, FreezeDescends
  <2> QED
    BY <2>2 DEF after, Descends
<1>10. /\ page_version'.base = IF due THEN version ELSE page_version.base
       /\ active'.last.version = version
  BY <1>4, <1>6 DEF BaseKey, DeltaKey
<1>11. Links'
  <2>1. deltapage_versions' = {v \in Version : Table'[v] # None}
    BY <1>2, <1>4, <1>5, <1>8 DEF HInv, Links
  <2>2. \A i \in DOMAIN active'.items : FALSE
    BY <1>6
  <2>3. /\ page_version'.base \in Version \cup {0}
        /\ page_version'.base <= version
    BY <1>2, <1>10 DEF HInv, Links
  <2>4. pc' # "idle"
    BY <1>2
  <2> QED
    BY <1>1, <1>2, <1>5, <1>7, <1>9, <1>10, <2>1, <2>2, <2>3, <2>4 DEF HInv, Links
<1>12. FrozenServes'
  <2> SUFFICES ASSUME NEW v \in Version, NEW u \in Reads, Table'[v] # None
               PROVE  FrozenServesAt(v, u)'
    BY DEF FrozenServes, Reads
  <2>1. CASE v = version
    <3>1. \A x \in Version : x < v => /\ Table'[x] = Table[x] /\ Bases'[x] = Bases[x]
                                      /\ history'[x] = history[x]
      BY <1>2, <1>8, <2>1 DEF Version
    <3>2. u < v => Gathered(Table, u, d) = Gathered(Table, u, active)
      <4>1. u < version => Gathered(Table, u, grown) = Gathered(Table, u, active)
        BY <1>2, GrownGathers DEF grown
      <4>2. Gathered(Table, u, d) = Gathered(Table, u, grown)
        BY <1>3, <1>5, GatheredSame
      <4> QED
        BY <2>1, <4>1, <4>2
    <3>3. Table'[v] = d
      BY <1>8, <2>1
    <3> QED
      BY <1>1, <1>3, <1>5, <1>9, <2>1, <3>1, <3>2, <3>3, FrozenNew
  <2>2. CASE v # version
    BY <1>1, <1>2, <1>8, <1>9, <2>2, UpdateKeepsFrozen
  <2> QED
    BY <2>1, <2>2
<1>13. ActiveServes'
  <2> SUFFICES ASSUME NEW u \in Reads PROVE ActiveServesAt(u)'
    BY DEF ActiveServes, Reads
  <2>1. CASE due
    <3>1. Live' = [version |-> Live'.version, slots |-> Live'.slots]
      BY <1>1 DEF Written
    <3>2. /\ active'.items = <<>> /\ active'.last = BaseKey(version) /\ active'.bcount = 0
          /\ page_version'.base = version /\ Bases'[version] = Live'
      BY <1>1, <1>6, <1>8, <1>10, <2>1
    <3> QED
      BY <1>1, <1>2, <1>9, <3>1, <3>2, ActiveRebased
  <2>2. CASE ~due
    <3> DEFINE before == Table
               after == Table'
               next == active'
               v == version
    <3>1. /\ before \in Tables /\ after \in Tables /\ Descends(before)
          /\ v \in Version /\ d \in Delta /\ after[v] = d
          /\ next.items = <<>> /\ next.last = DeltaKey(v)
      BY <1>2, <1>5, <1>6, <1>8, <2>2
    <3>2. \A x \in Version : x < v => after[x] = before[x]
      BY <1>2, <1>8 DEF Version
    <3>3. Descends(after)
      BY <1>9 DEF Descends
    <3> HIDE DEF before, after, next, v
    <3>4. Gathered(after, u, next) = Gathered(before, u, d)
      BY <3>1, <3>2, <3>3, FreezeGathers
    <3>5. Gathered(before, u, d) = Gathered(before, u, grown)
      BY <1>3, <1>5, GatheredSame
    <3>6. Gathered(Table', u, active') = Gathered(Table, u, Grown(active, n))
      BY <3>4, <3>5 DEF before, after, next, grown
    <3>7. /\ Bases' = Bases /\ page_version'.base = page_version.base
          /\ active'.bcount = active.bcount + Weight
      BY <1>6, <1>8, <1>10, <2>2
    <3> QED
      BY <1>1, <1>2, <3>6, <3>7, ActiveGrown
  <2> QED
    BY <2>1, <2>2
<1> QED
  BY <1>1, <1>11, <1>12, <1>13 DEF HInv

LEMMA UpdatePageHist ==
    ASSUME FirstVersion > 0, HInv, NEW n \in pending, UpdatePage(n)
    PROVE  HInv'
<1>1. CASE if_exceed
  BY <1>1, UpdateInPlaceHist
<1>2. CASE ~if_exceed /\ ~Freezes(Grown(active, n))
  BY <1>2, UpdateRoomHist
<1>3. CASE ~if_exceed /\ Freezes(Grown(active, n))
  BY <1>3, UpdateFreezeHist
<1> QED
  BY <1>1, <1>2, <1>3

\* The end of a commit stores what it staged, or the page itself.
LEMMA EndCommitHist ==
    ASSUME FirstVersion > 0, HInv, EndCommit
    PROVE  HInv'
<1>1. IInv'
  BY EndCommitInv DEF HInv
<1>2. /\ pc = "update" /\ version \in Version /\ version \in Nat /\ version > 0
      /\ page \in Page /\ pending = {} /\ page_version.current = version
      /\ page_version.base \in Nat /\ active \in ActivePage
      /\ active.last.version \in Nat
  BY VersionAssumption, ActiveType
  DEF EndCommit, HInv, Links, Commits, IInv, TypeOK, CommitShape, Version, Key
<1>3. /\ pc' = "idle" /\ if_exceed' = FALSE /\ version' = version + 1 /\ staged' = NothingStaged
      /\ UNCHANGED <<pending, page, deltapage_versions, history, latest>>
  BY DEF EndCommit, ghostVars
<1>4. page.slots = latest /\ Live = page /\ page.version = version
  <2>1. \A s \in Slot : page.slots[s] = latest[s]
    BY <1>2 DEF HInv, Commits
  <2>2. page.slots \in Contents /\ latest \in Contents
    BY <1>2 DEF Page, HInv, IInv, TypeOK
  <2>3. page.slots = latest
    BY <2>1, <2>2 DEF Contents
  <2> QED
    BY <1>2, <2>3 DEF Live, HInv, Commits
<1>5. page_version'.current = version
  BY <1>2 DEF EndCommit
<1>6. Live' = page
  <2>1. page = [version |-> page.version, slots |-> page.slots]
    BY <1>2 DEF Page
  <2> QED
    BY <1>3, <1>4, <1>5, <2>1 DEF Live
<1>7. Commits'
  <2>1. \A v \in Version : ~ (v > version /\ history[v] # None)
    BY <1>2 DEF HInv, Commits, Version
  <2>2. history'[version] = Live'.slots /\ Live'.version = version
    BY <1>2, <1>3, <1>4, <1>6 DEF HInv, Commits
  <2>3. \A v \in Version : history'[v] # NewPage.slots
    BY <1>3 DEF HInv, Commits
  <2> QED
    BY <1>2, <1>3, <1>5, <1>6, <2>1, <2>2, <2>3 DEF Commits
<1>8. Table' = Table /\ Table' = frozen'
  BY <1>1, <1>3, IdleStores DEF EndCommit, Table, Stored, NothingStaged
<1>9. Descends(Table)'
  BY <1>8 DEF HInv, Links, Descends
<1>10. Bases' = base'
  BY <1>3 DEF Bases, Stored, NothingStaged
<1>11. \A v \in Version : frozen'[v] # None \/ base'[v] # None => v < version'
  <2>1. \A v \in Version : v # version => frozen'[v] = frozen[v] /\ base'[v] = base[v]
    BY DEF EndCommit, Stored, HInv, IInv, TypeOK
  <2> QED
    BY <1>2, <1>3, <2>1 DEF HInv, Links, Version
<1>12. CASE ~if_exceed
  <2>1. UNCHANGED <<active, page_version>>
    BY <1>12 DEF EndCommit
  <2>2. Bases' = Bases
    BY <1>10, <1>12 DEF EndCommit, Bases
  <2>3. FrozenServes' /\ ActiveServes'
    <3>1. if_exceed = FALSE /\ Live' = Live /\ Table' = Table /\ history' = history
      BY <1>3, <1>4, <1>6, <1>8, <1>12 DEF HInv, IInv, TypeOK
    <3> QED
      BY <1>1, <2>1, <2>2, <3>1, ServesKept
  <2>4. Links'
    BY <1>2, <1>3, <1>8, <1>9, <1>11, <2>1 DEF HInv, Links
  <2> QED
    BY <1>1, <1>7, <2>3, <2>4 DEF HInv
<1>13. CASE if_exceed
  <2>1. /\ active' = Rebased(active)
        /\ page_version' = [current |-> version, base |-> version]
        /\ base' = [base EXCEPT ![version] = page]
    BY <1>2, <1>13, NoneAssumption DEF EndCommit, Stored
  <2>2. /\ active'.items = <<>> /\ active'.last = BaseKey(version) /\ active'.bcount = 0
    <3>1. active.items = <<>>
      <4>1. active.count = 0 /\ active.count = Weight * Len(active.items)
        BY <1>13 DEF HInv, IInv, RoomLeft, CountsInStep
      <4>2. active.items \in Seq(Item) /\ Len(active.items) \in Nat
        BY <1>2, LenProperties DEF ActivePage
      <4>3. Len(active.items) = 0
        BY <4>1, <4>2, Thresholds
      <4> QED
        BY <4>2, <4>3, EmptySeq
    <3> QED
      BY <1>2, <2>1, <3>1, ClearedType
  <2>3. /\ Bases'[version] = page
        /\ \A x \in Version : x # version => Bases'[x] = Bases[x]
    <3>1. base' = [base EXCEPT ![version] = page] /\ base \in [Version -> Page \cup {None}]
      BY <2>1 DEF HInv, IInv, TypeOK
    <3> QED
      BY <1>2, <1>10, <3>1, Stores DEF HInv
  <2>4. Links'
    <3>1. \A i \in DOMAIN active'.items : FALSE
      BY <2>2
    <3>2. active'.last.version = version
      BY <2>2 DEF BaseKey
    <3> QED
      BY <1>2, <1>3, <1>8, <1>9, <1>11, <2>1, <3>1, <3>2 DEF HInv, Links
  <2>5. FrozenServes'
    <3> SUFFICES ASSUME NEW v \in Version, NEW u \in Reads, Table'[v] # None
                 PROVE  FrozenServesAt(v, u)'
      BY DEF FrozenServes, Reads
    <3>1. Table[v] # None /\ v <= version
      BY <1>2, <1>8, Stores DEF HInv, Links, Version
    <3>2. \A x \in Version : x < v => Bases'[x] = Bases[x] /\ history'[x] = history[x]
      BY <1>2, <1>3, <2>3, <3>1 DEF Version
    <3> QED
      BY <1>1, <1>8, <1>9, <3>1, <3>2, FrozenKept
  <2>6. ActiveServes'
    <3> SUFFICES ASSUME NEW u \in Reads PROVE ActiveServesAt(u)'
      BY DEF ActiveServes, Reads
    <3>1. Live' \in Page /\ Live' = [version |-> Live'.version, slots |-> Live'.slots]
      BY <1>2, <1>6 DEF Page
    <3>2. page_version'.base = version /\ Bases'[version] = Live'
      BY <1>6, <2>1, <2>3
    <3> QED
      BY <1>1, <1>2, <1>5, <1>9, <2>2, <3>1, <3>2, ActiveRebased
  <2> QED
    BY <1>1, <1>7, <2>4, <2>5, <2>6 DEF HInv
<1> QED
  BY <1>12, <1>13

LEMMA NextHist ==
    ASSUME FirstVersion > 0, HInv, [Next]_vars
    PROVE  HInv'
<1>1. ASSUME NEW S \in (SUBSET Slot) \ {{}}, BeginCommit(S) PROVE HInv'
  BY <1>1, BeginCommitHist
<1>2. ASSUME NEW n \in pending, UpdatePage(n) PROVE HInv'
  BY <1>2, UpdatePageHist
<1>3. CASE EndCommit
  BY <1>3, EndCommitHist
<1>4. CASE CommitElsewhere \/ Evict \/ Fetch \/ UNCHANGED vars
  BY <1>4, BetweenCommitsHist
<1> QED
  BY <1>1, <1>2, <1>3, <1>4 DEF Next

-----------------------------------------------------------------------------
(* What LoadPage answers *)

LEMMA ReplayType ==
    ASSUME NEW contents \in Contents, NEW items \in Seq(Item)
    PROVE  Replay(contents, items) \in Contents
<1> DEFINE writes(s) == {i \in DOMAIN items : items[i].slot = s}
           last(w) == CHOOSE i \in w : \A j \in w : j <= i
           value(s) == IF writes(s) = {} THEN contents[s] ELSE items[last(writes(s))].version
<1>1. Replay(contents, items) = [s \in Slot |-> value(s)]
  BY DEF Replay
<1>2. ASSUME NEW s \in Slot PROVE value(s) \in Version \cup {Never}
  <2>1. CASE writes(s) = {}
    BY <2>1 DEF Contents
  <2>2. CASE writes(s) # {}
    <3> DEFINE w == writes(s)
    <3>1. w \in SUBSET (0..Len(items)) /\ w # {} /\ Len(items) \in Nat
      BY <2>2
    <3>2. \E x \in w : \A y \in w : y <= x
      BY <3>1, GreatestElement
    <3>3. last(w) \in w
      <4> HIDE DEF w
      <4> QED
        BY <3>2
    <3>4. items[last(w)] \in Item
      BY <3>3, ElementOfSeq
    <3> QED
      BY <2>2, <3>4 DEF Item
  <2> QED
    BY <2>1, <2>2
<1> HIDE DEF value
<1> QED
  BY <1>1, <1>2 DEF Contents

LEMMA BuiltType ==
    ASSUME NEW start \in Page, NEW items \in Seq(Item)
    PROVE  Built(start, items) \in Page
<1>1. start.slots \in Contents /\ start.version \in 0..LastVersion
  BY DEF Page
<1>2. Replay(start.slots, items) \in Contents
  BY <1>1, ReplayType
<1>3. items # <<>> => items[Len(items)].version \in 0..LastVersion
  <2> SUFFICES ASSUME items # <<>> PROVE items[Len(items)].version \in 0..LastVersion
    OBVIOUS
  <2>1. Len(items) \in 1..Len(items)
    BY EmptySeq, LenProperties
  <2>2. items[Len(items)] \in Item
    BY <2>1, ElementOfSeq
  <2> QED
    BY <2>2, VersionAssumption DEF Item, Version
<1> QED
  BY <1>1, <1>2, <1>3 DEF Built, Page

\* No item of a list is left when the first one is newer already.
LEMMA UptoEmpty ==
    ASSUME NEW items \in Seq(Item), NEW u \in Nat,
           \A i \in DOMAIN items : items[i].version > u
    PROVE  Upto(items, u) = <<>>
<1>1. CASE items = <<>>
  <2>1. DOMAIN <<>> = {}
    OBVIOUS
  <2> QED
    BY <1>1, <2>1, UptoAll
<1>2. CASE items # <<>>
  <2>1. 1 \in 1..Len(items) /\ DOMAIN items = 1..Len(items)
    BY <1>2, EmptySeq, LenProperties
  <2>2. Upto(items, u) = SubSeq(items, 1, 1 - 1)
    BY <2>1, UptoCut
  <2> QED
    BY <2>2, SubSeqEmpty
<1> QED
  BY <1>1, <1>2

\* Where LoadPage starts from a frozen delta page, it is the first one frozen
\* after the version read.
LEMMA SentinelFirst ==
    ASSUME FirstVersion > 0, HInv, pc = "idle", NEW u \in Version
    PROVE  /\ u < page_version.base /\ page_version.base \in deltapage_versions =>
                Sentinel(u) # None
           /\ Sentinel(u) # None =>
                \E f \in Version : /\ u < f /\ u < page_version.base
                                   /\ frozen[f] # None /\ Sentinel(u) = frozen[f]
                                   /\ \A w \in deltapage_versions : u < w => f <= w
<1> DEFINE later == {v \in deltapage_versions : v > u}
           top == VersionUpperbound(u)
<1>1. /\ u \in Nat /\ page_version.base \in Nat /\ page_version.current \in Nat
      /\ page_version.base <= page_version.current /\ page_version.current < version
      /\ version \in Nat
      /\ deltapage_versions = {v \in Version : frozen[v] # None}
      /\ \A v \in Version : v \in Nat
  BY IdleStores, VersionAssumption DEF HInv, IInv, TypeOK, Links, Version
<1>2. CASE later # {}
  <2>1. PICK f \in later : \A w \in later : f <= w
    BY <1>1, <1>2, LeastElement
  <2>2. \A v \in later : (\A w \in later : v <= w) => v = f
    BY <1>1, <2>1
  <2>3. (CHOOSE v \in later : \A w \in later : v <= w) = f
    <3> HIDE DEF later
    <3> QED
      BY <2>1, <2>2
  <2>4. top = f
    BY <1>2, <2>3 DEF VersionUpperbound
  <2>5. f \in Version /\ frozen[f] # None /\ u < f /\ \A w \in deltapage_versions : u < w => f <= w
    BY <1>1, <2>1
  <2>6. Lookup(frozen, top) = frozen[f]
    BY <2>4, <2>5, LookupAt
  <2>7. Sentinel(u) = IF u >= page_version.base THEN None ELSE frozen[f]
    BY <2>6 DEF Sentinel
  <2> HIDE DEF later, top
  <2> QED
    BY <1>1, <2>5, <2>7
<1>3. CASE later = {}
  <2>1. Sentinel(u) = None
    <3> SUFFICES ASSUME Sentinel(u) # None PROVE FALSE
      OBVIOUS
    <3>1. u < page_version.base /\ Lookup(frozen, top) # None
      BY <1>1 DEF Sentinel
    <3>2. top \in Version /\ frozen[top] # None /\ top # 0
      BY <3>1 DEF Lookup
    <3>3. top = current_version
      BY <1>3, <3>2 DEF VersionUpperbound
    <3>4. top = version - 1
      BY <3>2, <3>3 DEF current_version
    <3>5. top \in later
      BY <1>1, <3>1, <3>2, <3>4
    <3> QED
      BY <1>3, <3>5
  <2>2. ~ (u < page_version.base /\ page_version.base \in deltapage_versions)
    BY <1>1, <1>3
  <2> QED
    BY <2>1, <2>2
<1> QED
  BY <1>2, <1>3

\* A read that starts from a frozen delta page ignores the active one.
LEMMA CollectedFrozen ==
    ASSUME FirstVersion > 0, HInv, pc = "idle", NEW u \in Version, NEW f \in Version,
           u < f, u < page_version.base, frozen[f] # None, Sentinel(u) = frozen[f]
    PROVE  /\ Collected(u) = Gathered(Table, u, Table[f])
           /\ Collected(u).from \in Key /\ Collected(u).items \in Seq(Item)
<1> DEFINE g == Gathered(frozen, u, frozen[f])
<1>1. /\ Table = frozen /\ frozen \in Tables /\ Descends(frozen)
      /\ u \in Nat /\ page_version.base \in Nat /\ active.items \in Seq(Item)
      /\ frozen[f] \in Delta
  BY IdleStores, ActiveType, VersionAssumption
  DEF HInv, IInv, TypeOK, Links, Tables, Version
<1>2. frozen[f].last \in Key /\ frozen[f].items \in Seq(Item)
  BY <1>1 DEF Delta
<1>3. g.from \in Key /\ g.items \in Seq(Item) /\ g = [from |-> g.from, items |-> g.items]
  BY <1>1, <1>2, GatheredType DEF Gathered
<1>4. Upto(active.items, u) = <<>>
  <2>1. \A i \in DOMAIN active.items : active.items[i].version > u
    <3> SUFFICES ASSUME NEW i \in DOMAIN active.items PROVE active.items[i].version > u
      OBVIOUS
    <3>1. /\ active.items[i].version \in page_version.base..page_version.current
          /\ page_version.current \in Nat
      BY DEF HInv, Links, IInv, TypeOK
    <3> QED
      BY <1>1, <3>1
  <2> QED
    BY <1>1, <2>1, UptoEmpty
<1>5. g.items \o <<>> = g.items
  BY <1>3, ConcatEmptySeq
<1>6. Collected(u) = [g EXCEPT !.items = g.items \o <<>>]
  BY <1>4 DEF Collected
<1> HIDE DEF g
<1>7. Collected(u) = g
  BY <1>3, <1>5, <1>6
<1> QED
  BY <1>1, <1>3, <1>7 DEF g

LEMMA CollectedActive ==
    ASSUME FirstVersion > 0, HInv, pc = "idle", NEW u \in Version, Sentinel(u) = None
    PROVE  /\ Collected(u) = Gathered(Table, u, active)
           /\ Collected(u).from \in Key /\ Collected(u).items \in Seq(Item)
<1>1. /\ Table = frozen /\ frozen \in Tables /\ Descends(frozen) /\ u \in Nat
      /\ active.items \in Seq(Item) /\ active.last \in Key
  BY IdleStores, ActiveType, VersionAssumption
  DEF HInv, IInv, TypeOK, Links, Tables, Version
<1>2. Collected(u) = Gathered(Table, u, active)
  BY <1>1 DEF Collected
<1> QED
  BY <1>1, <1>2, GatheredType

\* Wherever a read starts, its base page is there and its replay is bounded.
LEMMA CollectedBounded ==
    ASSUME FirstVersion > 0, HInv, pc = "idle", NEW u \in Version
    PROVE  /\ Collected(u).from \in Key /\ Collected(u).items \in Seq(Item)
           /\ Start(base, Collected(u).from) \in Page
           /\ Weight * Len(Collected(u).items) < Tb
<1> DEFINE g == Collected(u)
<1>1. Table = frozen /\ Bases = base /\ u \in Reads /\ u \in Nat
  BY IdleStores, VersionAssumption DEF HInv, Version, Reads
<1>2. CASE Sentinel(u) = None
  <2>1. g = Gathered(Table, u, active) /\ g.from \in Key /\ g.items \in Seq(Item)
    BY <1>2, CollectedActive
  <2>2. ActiveServesAt(u)
    BY <1>1 DEF HInv, ActiveServes
  <2>3. Start(Bases, g.from) \in Page /\ Weight * Len(g.items) <= active.bcount
    BY <2>1, <2>2 DEF ActiveServesAt
  <2>4. active.bcount < Tb /\ active.bcount \in Nat
    BY ActiveType DEF HInv, IInv, CountsInStep
  <2>5. Weight * Len(g.items) \in Nat
    BY <2>1, LenProperties, Thresholds
  <2> HIDE DEF g
  <2>6. Weight * Len(g.items) < Tb
    BY <2>3, <2>4, <2>5, Thresholds
  <2> QED
    BY <1>1, <2>1, <2>3, <2>6 DEF g
<1>3. CASE Sentinel(u) # None
  <2>1. PICK f \in Version : /\ u < f /\ u < page_version.base
                             /\ frozen[f] # None /\ Sentinel(u) = frozen[f]
    BY <1>3, SentinelFirst
  <2>2. g = Gathered(Table, u, Table[f]) /\ g.from \in Key /\ g.items \in Seq(Item)
    BY <2>1, CollectedFrozen
  <2>3. FrozenServesAt(f, u)
    BY <1>1, <2>1 DEF HInv, FrozenServes
  <2> QED
    BY <1>1, <2>1, <2>2, <2>3 DEF FrozenServesAt
<1> QED
  BY <1>2, <1>3

\* A read whose collected pages build what was committed answers with it.
LEMMA AnswerRight ==
    ASSUME FirstVersion > 0, HInv, pc = "idle", NEW u \in Version,
           Correct(u, Built(Start(base, Collected(u).from), Collected(u).items))
    PROVE  /\ Answer(u) = history[u]
           /\ history[u] # None => LoadPage(u) = [version |-> u, slots |-> history[u]]
<1> DEFINE g == Collected(u)
           p == Built(Start(base, g.from), g.items)
<1>1. Start(base, g.from) \in Page /\ g.items \in Seq(Item)
  BY CollectedBounded
<1>2. p \in Page
  BY <1>1, BuiltType
<1>3. /\ Start(base, g.from) # None /\ p # None /\ p # Broken /\ u \in Nat /\ u > 0
      /\ p.version \in Nat /\ NewPage.slots \in Contents /\ None # Broken
  BY <1>1, <1>2, NoneAssumption, NewPageType, VersionAssumption DEF Page, Version
<1>4. LoadPage(u) = IF p.version < u THEN None ELSE p
  BY <1>3 DEF LoadPage, Rebuilt
<1>5. history[u] # NewPage.slots
  BY DEF HInv, Commits
<1> HIDE DEF p
<1>6. CASE history[u] = None
  <2>1. LoadPage(u) = None
    BY <1>4, <1>6 DEF Correct, p
  <2>2. ~ (page # NotCached /\ page_version.current = u)
    <3>1. page_version.current < version
      BY DEF HInv, Links
    <3>2. page_version.current = u => history[u] = Live.slots
      BY <1>3, <3>1 DEF HInv, Commits
    <3>3. Live.slots # None
      BY LiveType, NoneAssumption DEF HInv, Page
    <3> QED
      BY <1>6, <3>2, <3>3
  <2>3. GetPage(u) = None
    BY <2>1, <2>2 DEF GetPage
  <2> QED
    BY <1>6, <2>3 DEF Answer
<1>7. CASE history[u] # None
  <2>1. p = [version |-> u, slots |-> history[u]]
    BY <1>7 DEF Correct, p
  <2>2. LoadPage(u) = p
    BY <1>3, <1>4, <2>1
  <2>3. GetPage(u) \in Page /\ GetPage(u).slots = history[u]
    <3>1. CASE page # NotCached /\ page_version.current = u
      <4>1. page = Live /\ page_version.current < version
        BY <3>1 DEF HInv, Commits, Links
      <4>2. history[u] = Live.slots
        BY <1>3, <3>1, <4>1 DEF HInv, Commits
      <4> QED
        BY <3>1, <4>1, <4>2, LiveType DEF GetPage, HInv
    <3>2. CASE ~ (page # NotCached /\ page_version.current = u)
      <4>1. GetPage(u) = p
        BY <2>2, <3>2 DEF GetPage
      <4> QED
        BY <1>2, <2>1, <4>1
    <3> QED
      BY <3>1, <3>2
  <2>4. GetPage(u) \notin {None, Broken}
    BY <2>3, NoneAssumption
  <2>5. Answer(u) = history[u]
    BY <1>5, <2>3, <2>4 DEF Answer
  <2> QED
    BY <2>1, <2>2, <2>5
<1> QED
  BY <1>6, <1>7

\* The versions from the last base page on.
LEMMA RecentRight ==
    ASSUME FirstVersion > 0, HInv, pc = "idle", NEW u \in Version, u >= page_version.base
    PROVE  /\ Answer(u) = history[u]
           /\ history[u] # None => LoadPage(u) = [version |-> u, slots |-> history[u]]
<1>1. /\ Table = frozen /\ Bases = base /\ u \in Reads /\ u \in Nat /\ ~if_exceed
      /\ page_version.base \in Nat /\ page_version.current \in Nat
      /\ page_version.base <= page_version.current /\ page_version.current < version
      /\ version \in Nat
  BY IdleStores, VersionAssumption
  DEF HInv, IInv, TypeOK, CommitShape, Links, Version, Reads
<1>2. Sentinel(u) = None
  BY DEF Sentinel
<1>3. Collected(u) = Gathered(Table, u, active)
  BY <1>2, CollectedActive
<1>4. Correct(u, BuiltFrom(u, active))
  <2>1. CASE u < version
    BY <1>1, <2>1, ActivePast
  <2>2. CASE u >= version
    <3>1. ActiveServesAt(u)
      BY <1>1 DEF HInv, ActiveServes
    <3>2. BuiltFrom(u, active) = Live
      BY <1>1, <2>2, <3>1 DEF ActiveServesAt
    <3>3. history[u] = None /\ Live.version = page_version.current
      BY <1>1, <2>2 DEF HInv, Commits
    <3> QED
      BY <1>1, <2>2, <3>2, <3>3 DEF Correct
  <2> QED
    BY <1>1, <2>1, <2>2
<1>5. Correct(u, Built(Start(base, Collected(u).from), Collected(u).items))
  BY <1>1, <1>3, <1>4 DEF BuiltFrom
<1> QED
  BY <1>5, AnswerRight

-----------------------------------------------------------------------------
(* Every version served *)

\* A commit that bypasses the delta pages freezes the active one on its way:
\* it has items.
Orderly == ~if_exceed /\ if_exceed' => active.count # 0

LEMMA CoveredInit == Init => Covered
<1> SUFFICES ASSUME Init PROVE Covered
  OBVIOUS
<1>1. page_version.base = 0 /\ active.last.version = 0 /\ deltapage_versions = {} /\ ~if_exceed
  BY DEF Init, BaseKey
<1> QED
  BY <1>1 DEF Covered

LEMMA CoveredNext ==
    ASSUME FirstVersion > 0, HInv, HInv', Covered, [Next]_vars, Orderly
    PROVE  Covered'
<1>1. /\ Table \in Tables /\ Table' \in Tables
      /\ deltapage_versions = {v \in Version : Table[v] # None}
      /\ deltapage_versions' = {v \in Version : Table'[v] # None}
      /\ version \in Nat /\ (pc = "update" => version \in Version)
      /\ (pc = "idle" => ~if_exceed /\ Table = frozen)
  BY Stores, StoresNext, IdleStores, VersionAssumption
  DEF HInv, IInv, TypeOK, CommitShape, Links, Version, StoresTyped
<1>2. ASSUME NEW S \in (SUBSET Slot) \ {{}}, BeginCommit(S) PROVE Covered'
  <2>1. /\ version' = version /\ page_version' = page_version /\ frozen' = frozen
        /\ if_exceed' = Exceeds(S) /\ version \in Version /\ ~if_exceed /\ active \in ActivePage
        /\ staged = NothingStaged
    BY <1>1, <1>2, ActiveType, VersionAssumption
    DEF BeginCommit, storeVars, HInv, IInv, TypeOK, CommitShape, Version
  <2>2. CASE Exceeds(S) /\ active.count # 0
    <3>1. /\ staged'.delta = Frozen(active) /\ active' = Cleared(active)
          /\ deltapage_versions' = deltapage_versions \cup {version}
      BY <1>2, <2>1, <2>2 DEF BeginCommit, NothingStaged
    <3>2. /\ Frozen(active) # None /\ Frozen(active).last = active.last
          /\ active'.last.version = version
      BY <2>1, <3>1, FrozenType, ClearedType DEF Frozen, DeltaKey
    <3>3. /\ Table'[version] = Frozen(active)
          /\ \A v \in Version : v # version => Table'[v] = Table[v]
      <4>1. \A v \in Version : v # version => Table[v] = frozen[v] /\ Table'[v] = frozen'[v]
        BY <2>1, Stores, StoresNext DEF HInv, StoresTyped
      <4> QED
        BY <2>1, <3>1, <3>2, <4>1, StoresNext DEF HInv, StoresTyped
    <3> QED
      BY <1>1, <2>1, <3>1, <3>2, <3>3 DEF Covered
  <2>3. CASE ~(Exceeds(S) /\ active.count # 0)
    <3>1. UNCHANGED <<staged, active, deltapage_versions>>
      BY <1>2, <2>3 DEF BeginCommit
    <3>2. Table' = Table
      BY <2>1, <3>1 DEF Table, Stored
    <3>3. ~if_exceed'
      BY <2>1, <2>3 DEF Orderly
    <3> QED
      BY <2>1, <3>1, <3>2, <3>3 DEF Covered
  <2> QED
    BY <2>2, <2>3
<1>3. ASSUME NEW n \in pending, UpdatePage(n) PROVE Covered'
  <2> DEFINE grown == Grown(active, n)
  <2>1. /\ UNCHANGED <<version, pc, if_exceed, frozen, base>> /\ pc = "update" /\ n \in Slot
        /\ version \in Version
    BY <1>1, <1>3 DEF UpdatePage, storeVars, HInv, IInv, TypeOK
  <2>2. CASE if_exceed
    <3>1. /\ UNCHANGED <<active, deltapage_versions, staged>>
          /\ page_version'.base = page_version.base
      BY <1>3, <2>2 DEF UpdatePage, UpdateInPlace, HInv, IInv, TypeOK
    <3>2. Table' = Table
      BY <2>1, <3>1 DEF Table, Stored
    <3> QED
      BY <2>1, <3>1, <3>2 DEF Covered
  <2>3. CASE ~if_exceed /\ ~Freezes(grown)
    <3>1. /\ grown.last = active.last /\ ~Checkpoints(grown)
      BY <2>1, <2>3, CheckpointsAtFreeze DEF HInv
    <3>2. /\ active' = grown /\ deltapage_versions' = deltapage_versions
          /\ staged'.delta = staged.delta /\ page_version'.base = page_version.base
      BY <1>3, <2>3, <3>1 DEF UpdatePage, UpdateThroughDelta
    <3>3. Table' = Table
      BY <2>1, <3>2 DEF Table, Stored
    <3> QED
      BY <2>1, <2>3, <3>1, <3>2, <3>3 DEF Covered
  <2>4. CASE ~if_exceed /\ Freezes(grown)
    <3>1. grown \in ActivePage /\ grown.last = active.last
      BY <2>1, <2>4, CheckpointsAtFreeze DEF HInv
    <3>2. /\ staged'.delta = Frozen(grown)
          /\ active' = IF Checkpoints(grown) THEN Rebased(Cleared(grown)) ELSE Cleared(grown)
          /\ deltapage_versions' = deltapage_versions \cup {version}
          /\ page_version'.base = IF Checkpoints(grown) THEN version ELSE page_version.base
      BY <1>3, <2>4 DEF UpdatePage, UpdateThroughDelta
    <3>3. Frozen(grown) # None /\ Frozen(grown).last = active.last
      BY <3>1, FrozenType DEF Frozen
    <3>4. active'.last.version = version
      <4>1. Cleared(grown) \in ActivePage /\ Cleared(grown).last = DeltaKey(version)
        BY <2>1, <3>1, ClearedType
      <4>2. Rebased(Cleared(grown)).last = BaseKey(version)
        BY <2>1, <4>1, ClearedType
      <4> QED
        BY <3>2, <4>1, <4>2 DEF BaseKey, DeltaKey
    <3> HIDE DEF grown
    <3>5. /\ Table'[version] = Frozen(grown)
          /\ \A v \in Version : v # version => Table'[v] = Table[v]
      <4>1. staged.delta = None
        BY <2>1, <2>4, CheckpointsAtFreeze DEF HInv, grown
      <4>2. \A v \in Version : v # version => Table[v] = frozen[v] /\ Table'[v] = frozen'[v]
        BY <2>1, Stores, StoresNext DEF HInv, StoresTyped
      <4> QED
        BY <2>1, <3>2, <3>3, <4>2, StoresNext DEF HInv, StoresTyped
    <3> QED
      BY <1>1, <2>1, <2>4, <3>2, <3>3, <3>4, <3>5 DEF Covered
  <2> QED
    BY <2>2, <2>3, <2>4
<1>4. CASE EndCommit
  <2>1. /\ deltapage_versions' = deltapage_versions /\ ~if_exceed' /\ pc = "update"
        /\ Table' = Table /\ version \in Version
    BY <1>1, <1>4, IdleStores DEF EndCommit, Table, Stored, NothingStaged
  <2>2. CASE if_exceed
    <3>1. staged.delta # None
      BY <2>2 DEF Covered
    <3>2. version \in deltapage_versions
      BY <1>1, <2>1, <3>1, Stores DEF HInv
    <3>3. page_version'.base = version /\ active'.last = BaseKey(version)
      BY <1>4, <2>1, <2>2, ActiveType, ClearedType DEF EndCommit, HInv
    <3> QED
      BY <2>1, <3>2, <3>3 DEF Covered, BaseKey
  <2>3. CASE ~if_exceed
    <3>1. UNCHANGED <<active, page_version>>
      BY <1>4, <2>3 DEF EndCommit
    <3> QED
      BY <2>1, <3>1 DEF Covered
  <2> QED
    BY <2>2, <2>3
<1>5. CASE CommitElsewhere \/ Evict \/ Fetch \/ UNCHANGED vars
  <2>1. UNCHANGED <<if_exceed, active, deltapage_versions, page_version, staged, frozen>>
    BY <1>5 DEF CommitElsewhere, Evict, Fetch, vars, chainVars, storeVars
  <2>2. Table' = Table
    <3>1. CASE staged.delta = None
      BY <2>1, <3>1 DEF Table, Stored
    <3>2. CASE staged.delta # None
      <4>1. pc # "idle"
        BY <3>2 DEF HInv, IInv, CommitShape, NothingStaged
      <4>2. version' = version
        BY <1>5, <4>1 DEF CommitElsewhere, Evict, Fetch, vars
      <4> QED
        BY <2>1, <4>2 DEF Table, Stored
    <3> QED
      BY <3>1, <3>2
  <2> QED
    BY <2>1, <2>2 DEF Covered
<1> QED
  BY <1>2, <1>3, <1>4, <1>5 DEF Next

\* A page with fewer slots than a delta page takes: no commit of it bypasses an
\* empty delta page.
LEMMA NarrowOrderly ==
    ASSUME HInv, [Next]_vars, Cardinality(Slot) < Td
    PROVE  Orderly
<1> SUFFICES ASSUME ~if_exceed, if_exceed', active.count = 0 PROVE FALSE
  BY DEF Orderly
<1>1. ASSUME NEW S \in (SUBSET Slot) \ {{}}, BeginCommit(S) PROVE FALSE
  <2>1. 2 * Cardinality(S) + active.count >= 2 * Td
    BY <1>1 DEF BeginCommit, Exceeds
  <2>2. Cardinality(S) \in Nat /\ Cardinality(Slot) \in Nat /\ Cardinality(S) <= Cardinality(Slot)
    BY SlotAssumption, FS_Subset, FS_CardinalityType
  <2> QED
    BY <2>1, <2>2, Thresholds
<1>2. ASSUME NEW n \in pending, UpdatePage(n) PROVE FALSE
  BY <1>2 DEF UpdatePage
<1>3. CASE EndCommit
  BY <1>3 DEF EndCommit
<1>4. CASE CommitElsewhere \/ Evict \/ Fetch \/ UNCHANGED vars
  BY <1>4 DEF CommitElsewhere, Evict, Fetch, vars
<1> QED
  BY <1>1, <1>2, <1>3, <1>4 DEF Next

\* With a delta page for every version before the last base page, every read is
\* answered right.
LEMMA CoveredServes ==
    ASSUME FirstVersion > 0, HInv, Covered
    PROVE  HistoryServed
<1> SUFFICES ASSUME pc = "idle", NEW u \in Version PROVE Answer(u) = history[u]
  BY DEF HistoryServed
<1>1. /\ Table = frozen /\ Bases = base /\ Descends(Table) /\ u \in Reads /\ u \in Nat /\ u > 0
      /\ page_version.base \in Nat /\ \A v \in Version : v \in Nat
      /\ Table \in Tables
  BY IdleStores, Stores, VersionAssumption DEF HInv, IInv, TypeOK, Links, Version, Reads
<1>2. CASE u >= page_version.base
  BY <1>2, RecentRight
<1>3. CASE u < page_version.base
  <2>1. page_version.base \in deltapage_versions
    BY <1>1, <1>3 DEF Covered
  <2>2. PICK f \in Version : /\ u < f /\ u < page_version.base
                             /\ frozen[f] # None /\ Sentinel(u) = frozen[f]
                             /\ \A w \in deltapage_versions : u < w => f <= w
    BY <1>3, <2>1, SentinelFirst
  <2>3. Collected(u) = Gathered(Table, u, Table[f])
    BY <2>2, CollectedFrozen
  <2>4. FrozenServesAt(f, u)
    BY <1>1, <2>2 DEF HInv, FrozenServes
  <2>5. Table[f].last.version <= u
    <3>1. f \in deltapage_versions
      BY <1>1, <2>2 DEF HInv, Links
    <3>2. Table[f].last.version \in deltapage_versions \cup {0} /\ Table[f].last.version < f
      BY <1>1, <2>2, <3>1 DEF Covered, Descends
    <3>3. deltapage_versions \in SUBSET Nat
      BY <1>1 DEF HInv, IInv, TypeOK
    <3> DEFINE w == Table[f].last.version
    <3>4. w \in Nat /\ w < f /\ f \in Nat /\ (w = 0 \/ ~ (u < w) \/ f <= w)
      <4>1. w < f /\ f \in Nat /\ w \in deltapage_versions \cup {0}
        BY <1>1, <3>2
      <4> HIDE DEF w
      <4>2. w \in Nat
        BY <3>3, <4>1
      <4> QED
        BY <2>2, <4>1, <4>2
    <3> HIDE DEF w
    <3>5. w <= u
      BY <1>1, <3>4
    <3> QED
      BY <3>5 DEF w
  <2>6. Collected(u).from.version <= u
    <3>1. Collected(u).from.version <= Table[f].last.version
      BY <2>3, <2>4 DEF FrozenServesAt
    <3>2. Collected(u).from.version \in Nat /\ Table[f].last.version \in Nat
      BY <1>1, <2>2, CollectedBounded DEF Tables, Delta, Key
    <3> QED
      BY <1>1, <2>5, <3>1, <3>2
  <2>7. Correct(u, BuiltFrom(u, Table[f]))
    BY <2>2, <2>3, <2>4, <2>6 DEF FrozenServesAt
  <2>8. Correct(u, Built(Start(base, Collected(u).from), Collected(u).items))
    BY <1>1, <2>3, <2>7 DEF BuiltFrom
  <2> QED
    BY <2>8, AnswerRight
<1> QED
  BY <1>1, <1>2, <1>3

-----------------------------------------------------------------------------
(* The theorems *)

\* What the delta pages and the base pages serve holds throughout, for every
\* number of slots, both thresholds and commits of any size, when the first
\* commit is not of version 0.
THEOREM HistInvariance ==
    ASSUME FirstVersion > 0
    PROVE  Spec => []HInv
<1>1. HInv /\ [Next]_vars => HInv'
  BY NextHist
<1>2. Init => HInv
  BY InitHist
<1> QED
  BY <1>1, <1>2, PTL DEF Spec

\* Between commits no read of LoadPage misses its base page.
THEOREM ReadsNeverBreak ==
    ASSUME FirstVersion > 0
    PROVE  Spec => []NeverBroken
<1>1. HInv => NeverBroken
  <2> SUFFICES ASSUME HInv, pc = "idle", NEW u \in Version PROVE LoadPage(u) # Broken
    BY DEF NeverBroken
  <2> DEFINE g == Collected(u)
             p == Built(Start(base, g.from), g.items)
  <2>1. Start(base, g.from) \in Page /\ g.items \in Seq(Item)
    BY CollectedBounded
  <2>2. p \in Page
    BY <2>1, BuiltType
  <2>3. Start(base, g.from) # None /\ p # Broken /\ None # Broken
    BY <2>1, <2>2, NoneAssumption
  <2> QED
    BY <2>3 DEF LoadPage, Rebuilt
<1> QED
  BY <1>1, HistInvariance, PTL

\* A read replays fewer than Tb items, however old the version.
THEOREM ReplaysBounded ==
    ASSUME FirstVersion > 0
    PROVE  Spec => []ReplayBounded
<1>1. HInv => ReplayBounded
  BY CollectedBounded DEF ReplayBounded
<1> QED
  BY <1>1, HistInvariance, PTL

\* The versions from the last base page on are served, from the cache or
\* rebuilt, whatever the sizes of the commits.
THEOREM RecentVersionsServed ==
    ASSUME FirstVersion > 0
    PROVE  Spec => []RecentServed
<1>1. HInv => RecentServed
  BY RecentRight DEF RecentServed
<1> QED
  BY <1>1, HistInvariance, PTL

\* Every version before the last base page has a delta page stored after it
\* that leads back past it, while commits stay orderly.
THEOREM CoveredInvariance ==
    ASSUME FirstVersion > 0
    PROVE  Spec /\ [][Orderly]_vars => []Covered
<1>1. HInv /\ HInv' /\ Covered /\ [Next]_vars /\ [Orderly]_vars => Covered'
  <2> SUFFICES ASSUME HInv, HInv', Covered, [Next]_vars, [Orderly]_vars PROVE Covered'
    OBVIOUS
  <2>1. CASE Orderly
    BY <2>1, CoveredNext
  <2>2. CASE UNCHANGED vars
    <3>1. Orderly
      BY <2>2 DEF vars, Orderly
    <3> QED
      BY <3>1, CoveredNext
  <2> QED
    BY <2>1, <2>2
<1> QED
  BY <1>1, HistInvariance, CoveredInit, PTL DEF Spec

\* Every version is served for ever, as long as no commit bypasses the delta
\* pages while the active one is empty.
THEOREM OrderlyHistoryServed ==
    ASSUME FirstVersion > 0
    PROVE  Spec /\ [][Orderly]_vars => []HistoryServed
<1>1. HInv /\ Covered => HistoryServed
  BY CoveredServes
<1> QED
  BY <1>1, HistInvariance, CoveredInvariance, PTL

\* Every commit of a page with fewer than Td slots is orderly: a leaf page has
\* one.
THEOREM NarrowPagesOrderly ==
    ASSUME FirstVersion > 0, Cardinality(Slot) < Td
    PROVE  Spec => [][Orderly]_vars
<1>1. HInv /\ [Next]_vars => Orderly
  BY NarrowOrderly
<1> QED
  BY <1>1, HistInvariance, PTL DEF Spec

\* So every version of such a page is served for ever.
THEOREM NarrowHistoryServed ==
    ASSUME FirstVersion > 0, Cardinality(Slot) < Td
    PROVE  Spec => []HistoryServed
BY NarrowPagesOrderly, OrderlyHistoryServed, PTL

-----------------------------------------------------------------------------
(* The versioned page *)

\* What is answered is what was committed.
LEMMA ServedIsHistory ==
    ASSUME IInv, HistoryServed
    PROVE  Served = history
BY DEF Served, HistoryServed, IInv, TypeOK

\* Between commits the page is that of its last commit.
LEMMA LatestCommitted ==
    ASSUME FirstVersion > 0, HInv, HistoryServed, pc = "idle"
    PROVE  Abstract!Latest = latest /\ \A w \in Abstract!Committed : w < version
<1>1. /\ Served = history /\ page_version.current \in Version \cup {0}
      /\ page_version.current < version /\ version \in Nat
      /\ \A v \in Version : v \in Nat /\ v > 0
      /\ Live.slots = latest /\ latest \in Contents /\ Live.version = page_version.current
  BY ServedIsHistory, VersionAssumption
  DEF HInv, IInv, TypeOK, Links, Commits, Version, Live
<1>2. Abstract!Committed = {v \in Version : history[v] # None}
  BY <1>1 DEF Abstract!Committed
<1>3. \A v \in Abstract!Committed : v \in Version /\ v <= page_version.current
  BY <1>1, <1>2 DEF HInv, Commits
<1>4. \A w \in Abstract!Committed : w < version
  BY <1>1, <1>3
<1>5. CASE page_version.current = 0
  <2>1. Abstract!Committed = {}
    BY <1>1, <1>3, <1>5
  <2>2. latest = [s \in Slot |-> Never]
    BY <1>1, <1>5 DEF HInv, Commits, NewPage
  <2> QED
    BY <1>4, <2>1, <2>2 DEF Abstract!Latest
<1>6. CASE page_version.current # 0
  <2> DEFINE c == page_version.current
             C == Abstract!Committed
  <2>1. c \in Version /\ c > 0
    BY <1>1, <1>6
  <2>2. history[c] = latest /\ latest # None
    BY <1>1, <2>1, NoneAssumption DEF HInv, Commits
  <2>3. c \in C
    BY <1>2, <2>1, <2>2
  <2>4. \A v \in C : v \in Nat /\ v <= c
    BY <1>1, <1>3
  <2>5. Abstract!Latest = IF C = {} THEN [s \in Slot |-> Never]
                          ELSE history[CHOOSE v \in C : \A w \in C : w <= v]
    BY <1>1 DEF Abstract!Latest
  <2> HIDE DEF C
  <2>6. \A v \in C : (\A w \in C : w <= v) => v = c
    BY <1>1, <2>3, <2>4
  <2>7. (CHOOSE v \in C : \A w \in C : w <= v) = c
    BY <2>3, <2>4, <2>6
  <2> QED
    BY <1>4, <2>2, <2>3, <2>5, <2>7
<1> QED
  BY <1>5, <1>6

\* A commit of the page is a commit of the versioned page, and every other step
\* leaves what is answered as it was.
LEMMA StepMaps ==
    ASSUME FirstVersion > 0, HInv, HInv', HistoryServed, HistoryServed', [Next]_vars
    PROVE  [Abstract!Next]_Served
<1>1. Served = history /\ Served' = history'
  <2>1. Served = history
    BY ServedIsHistory DEF HInv
  <2>2. Served' = history'
    BY DEF Served, HistoryServed, HInv, IInv, TypeOK
  <2> QED
    BY <2>1, <2>2
<1>2. ASSUME NEW S \in (SUBSET Slot) \ {{}}, BeginCommit(S) PROVE Abstract!Next
  <2>1. /\ pc = "idle" /\ version \in Version
        /\ history \in [Version -> Contents \cup {None}]
        /\ latest' = [s \in Slot |-> IF s \in S THEN version ELSE latest[s]]
        /\ history' = [history EXCEPT ![version] = latest']
    BY <1>2, VersionAssumption DEF BeginCommit, HInv, IInv, TypeOK, Version
  <2>2. Abstract!Latest = latest /\ \A w \in Abstract!Committed : w < version
    BY <2>1, LatestCommitted
  <2>3. Abstract!Commit(S, version)
    BY <1>1, <2>1, <2>2 DEF Abstract!Commit
  <2>4. Served'[version] # Served[version]
    <3>1. history[version] = None
      <4>1. version > page_version.current
        BY <2>1, VersionAssumption DEF HInv, Links, IInv, TypeOK, Version
      <4> QED
        BY <2>1, <4>1 DEF HInv, Commits
    <3>2. history'[version] = latest' /\ latest' \in Contents
      BY <2>1 DEF HInv, IInv, TypeOK
    <3> QED
      BY <1>1, <3>1, <3>2, NoneAssumption
  <2> QED
    BY <2>1, <2>3, <2>4 DEF Abstract!Next
<1>3. ASSUME NEW n \in pending, UpdatePage(n) PROVE history' = history
  BY <1>3 DEF UpdatePage, ghostVars
<1>4. CASE EndCommit \/ CommitElsewhere \/ Evict \/ Fetch \/ UNCHANGED vars
  <2>1. history' = history
    BY <1>4 DEF EndCommit, CommitElsewhere, Evict, Fetch, vars, ghostVars
  <2> QED
    BY <1>1, <2>1
<1> QED
  BY <1>1, <1>2, <1>3, <1>4 DEF Next

\* GetPage implements the versioned page while commits stay orderly.
THEOREM OrderlyImplementsVersionedPage ==
    ASSUME FirstVersion > 0
    PROVE  Spec /\ [][Orderly]_vars => ImplementsVersionedPage
<1>1. Init /\ HistoryServed => Abstract!Init
  BY InitInv, ServedIsHistory DEF Init, Abstract!Init
<1>2. HInv /\ HInv' /\ HistoryServed /\ HistoryServed' /\ [Next]_vars => [Abstract!Next]_Served
  BY StepMaps
<1> QED
  BY <1>1, <1>2, HistInvariance, OrderlyHistoryServed, PTL
  DEF Spec, ImplementsVersionedPage, Abstract!Spec

\* And always does for a page with fewer than Td slots.
THEOREM NarrowImplementsVersionedPage ==
    ASSUME FirstVersion > 0, Cardinality(Slot) < Td
    PROVE  Spec => ImplementsVersionedPage
BY NarrowPagesOrderly, OrderlyImplementsVersionedPage, PTL
=============================================================================
