---------------------------- MODULE PageTableProofs ----------------------------
(***************************************************************************)
(* Proofs about PageTable: index files and memory table hold disjoint      *)
(* ranges of keys in order, however commits and files divide the pages,    *)
(* and every stored page is found, whatever the sizes of blocks and table. *)
(***************************************************************************)
EXTENDS PageTable, WellFoundedInduction, SequenceTheorems, TLAPS

\* The pages are in the order of their keys.
Ordered(pages) == \A i, j \in DOMAIN pages : i < j => Before(pages[i], pages[j])

\* Every page of the sequence is before the key.
AllBefore(pages, k) == \A i \in DOMAIN pages : Before(pages[i], k)

\* The pages of a commit come after all that was stored; none is of a later
\* version than the commit.
CommitIsLast ==
    /\ \A k \in page_cache :
          /\ k.version = version
          /\ AllBefore(buffer, k)
          /\ \A i \in DOMAIN index_files : Before(index_files[i].max, k)
    /\ \A i \in DOMAIN buffer : buffer[i].version <= version
    /\ \A i \in DOMAIN index_files : index_files[i].max.version <= version

\* The i-th index file holds these pages: those stored with a key in its range.
Filed(i, pages) ==
    /\ pages # <<>> /\ Ordered(pages)
    /\ index_files[i] = RangeOf(pages, i - 1)
    /\ disk[i - 1] = IndexFile(pages)
    /\ \A k \in Key : k \in Range(pages) <=> k \in stored /\ UpTo(pages[1], k) /\ UpTo(k, Last(pages))

PagesFiled == \A i \in DOMAIN index_files : \E pages \in Seq(Key) : Filed(i, pages)

\* What was stored is in the memory table or in the range of an index file.
StoredSomewhere ==
    /\ Range(buffer) \subseteq stored
    /\ \A k \in stored : k \in Range(buffer) \/ FilesWith(k) # {}

IInv ==
    /\ TypeOK
    /\ Ordered(buffer)
    /\ CommitIsLast
    /\ FilesInOrder
    /\ PagesFiled
    /\ StoredSomewhere

-----------------------------------------------------------------------------
(* The order of keys *)

\* A key has the components PageKey has.
LEMMA KeyParts ==
    ASSUME NEW k \in Key
    PROVE  k.version \in Nat /\ k.type \in Nat /\ k.pid \in Nat
<1>1. k.version \in 1..LastVersion /\ k.type \in 0..1 /\ k.pid \in Pid
  BY DEF Key
<1>2. Pid \subseteq Nat
  BY PidAssumption
<1>3. LastVersion \in Nat
  BY VersionAssumption
<1>4. k.version \in Nat
  BY <1>1, <1>3
<1>5. k.type \in Nat
  BY <1>1
<1>6. k.pid \in Nat
  BY <1>1, <1>2
<1> QED
  BY <1>4, <1>5, <1>6

\* Two keys with the same parts are the same.
LEMMA KeyEquality ==
    ASSUME NEW k \in Key, NEW l \in Key,
           k.version = l.version, k.type = l.type, k.pid = l.pid
    PROVE  k = l
BY DEF Key

\* operator< is a strict order, and total.
LEMMA BeforeOrder ==
    ASSUME NEW k \in Key, NEW l \in Key, NEW m \in Key
    PROVE  /\ ~Before(k, k)
           /\ Before(k, l) => ~Before(l, k)
           /\ Before(k, l) /\ Before(l, m) => Before(k, m)
           /\ k = l \/ Before(k, l) \/ Before(l, k)
BY KeyParts, KeyEquality DEF Before

\* UpTo follows from the order.
LEMMA UpToOrder ==
    ASSUME NEW k \in Key, NEW l \in Key, NEW m \in Key
    PROVE  /\ UpTo(k, l) /\ UpTo(l, m) => UpTo(k, m)
           /\ UpTo(k, l) /\ UpTo(l, k) => k = l
           /\ Before(k, l) <=> ~UpTo(l, k)
BY BeforeOrder DEF UpTo

-----------------------------------------------------------------------------
(* Numbers *)

\* A set of numbers with a bound has a greatest one.
LEMMA Greatest ==
    ASSUME NEW n \in Nat, NEW S \in SUBSET (0..n), S # {}
    PROVE  \E x \in S : \A y \in S : y <= x
<1> DEFINE T == {n - x : x \in S}
<1>1. T \subseteq Nat /\ T # {}
  OBVIOUS
<1>2. \E t \in T : \A u \in T : <<u, t>> \notin OpToRel(<, Nat)
  BY <1>1, WFMin, NatLessThanWellFounded, Zenon
<1>3. PICK t \in T : \A u \in T : <<u, t>> \notin OpToRel(<, Nat)
  BY <1>2
<1>4. \A u \in T : ~(u < t)
  BY <1>1, <1>3 DEF OpToRel
<1>5. PICK x \in S : t = n - x
  OBVIOUS
<1>6. \A y \in S : y <= x
  <2> TAKE y \in S
  <2>1. n - y \in T
    OBVIOUS
  <2>2. ~(n - y < n - x)
    BY <1>4, <1>5, <2>1
  <2> QED
    BY <2>2
<1> QED
  BY <1>6

\* The lesser of two numbers.
LEMMA LesserOfTwo ==
    ASSUME NEW a \in Nat, NEW b \in Nat
    PROVE  Min({a, b}) = IF a <= b THEN a ELSE b
<1> DEFINE m == IF a <= b THEN a ELSE b
<1>1. m \in {a, b} /\ \A y \in {a, b} : m =< y
  OBVIOUS
<1>2. \A x \in {a, b} : (\A y \in {a, b} : x =< y) => x = m
  OBVIOUS
<1> QED
  BY <1>1, <1>2 DEF Min

\* Where block b begins, and what a block has: division by the block length.
LEMMA Product ==
    ASSUME NEW a \in Int, NEW b \in Int, NEW c \in Nat, a <= b
    PROVE  a * c \in Int /\ b * c \in Int /\ a * c <= b * c
OBVIOUS

LEMMA Quotient ==
    ASSUME NEW n \in Nat, NEW c \in Nat \ {0}
    PROVE  /\ n \div c \in Nat
           /\ (n \div c) * c <= n
           /\ n < (n \div c) * c + c
OBVIOUS

\* The first page of a block, less one.
FirstOf(b) == (b - 1) * MappingsPerBlock

\* Every index block has a page.
LEMMA BlockBegins ==
    ASSUME NEW pages \in Seq(Key), pages # <<>>, NEW b \in 1..BlockCount(pages)
    PROVE  FirstOf(b) \in Nat /\ FirstOf(b) + 1 \in 1..Len(pages)
<1> DEFINE n == Len(pages) + MappingsPerBlock - 1
           q == BlockCount(pages)
<1>1. MappingsPerBlock \in Nat \ {0} /\ Len(pages) \in Nat \ {0} /\ n \in Nat
  BY BlockAssumption
<1>2. q = n \div MappingsPerBlock
  BY DEF BlockCount
<1>3. q \in Nat /\ q * MappingsPerBlock <= n
  BY <1>1, <1>2, Quotient
<1>4. b - 1 \in Nat /\ b - 1 <= q - 1 /\ q - 1 \in Int
  BY <1>3
<1>5. /\ (b - 1) * MappingsPerBlock \in Int
      /\ (b - 1) * MappingsPerBlock <= (q - 1) * MappingsPerBlock
  BY <1>1, <1>4, Product
<1>6. 0 * MappingsPerBlock <= (b - 1) * MappingsPerBlock
  BY <1>1, <1>4, Product
<1>7. (q - 1) * MappingsPerBlock = q * MappingsPerBlock - MappingsPerBlock
  BY <1>1, <1>3
<1> QED
  BY <1>1, <1>3, <1>5, <1>6, <1>7 DEF FirstOf

\* Every page is in an index block.
LEMMA BlockWithPage ==
    ASSUME NEW pages \in Seq(Key), NEW j \in 1..Len(pages)
    PROVE  \E b \in 1..BlockCount(pages) :
               FirstOf(b) < j /\ j <= FirstOf(b) + MappingsPerBlock
<1> DEFINE n == Len(pages) + MappingsPerBlock - 1
           q == BlockCount(pages)
           c == (j - 1) \div MappingsPerBlock
<1>1. MappingsPerBlock \in Nat \ {0} /\ Len(pages) \in Nat /\ n \in Nat /\ j - 1 \in Nat
  BY BlockAssumption
<1>2. q \in Nat /\ n < q * MappingsPerBlock + MappingsPerBlock
  BY <1>1, Quotient DEF BlockCount
<1>3. /\ c \in Nat
      /\ c * MappingsPerBlock <= j - 1
      /\ j - 1 < c * MappingsPerBlock + MappingsPerBlock
  BY <1>1, Quotient
<1> HIDE DEF c, q
<1>4. c < q
  <2> SUFFICES ASSUME q <= c PROVE FALSE
    BY <1>2, <1>3
  <2>1. q * MappingsPerBlock <= c * MappingsPerBlock /\ q * MappingsPerBlock \in Int
    BY <1>1, <1>2, <1>3, Product
  <2> QED
    BY <1>1, <1>2, <1>3, <2>1
<1>5. c + 1 \in 1..q /\ FirstOf(c + 1) = c * MappingsPerBlock
  BY <1>1, <1>2, <1>3, <1>4 DEF FirstOf
<1>6. c * MappingsPerBlock \in Int
  BY <1>1, <1>3
<1>7. FirstOf(c + 1) < j /\ j <= FirstOf(c + 1) + MappingsPerBlock
  BY <1>1, <1>3, <1>5, <1>6
<1> QED
  BY <1>5, <1>7 DEF q

\* A later block begins behind the pages of an earlier one.
LEMMA BlocksApart ==
    ASSUME NEW b \in Nat \ {0}, NEW c \in Nat \ {0}, b < c
    PROVE  FirstOf(b) + MappingsPerBlock <= FirstOf(c)
<1>1. MappingsPerBlock \in Nat
  BY BlockAssumption
<1>2. b * MappingsPerBlock <= (c - 1) * MappingsPerBlock
  BY <1>1, Product
<1>3. (b - 1) * MappingsPerBlock + MappingsPerBlock = b * MappingsPerBlock
  BY <1>1
<1> QED
  BY <1>2, <1>3 DEF FirstOf

-----------------------------------------------------------------------------
(* An index file *)

\* What is at which place of an index file.
LEMMA FileLayout ==
    ASSUME NEW pages \in Seq(Key), pages # <<>>
    PROVE  LET file == IndexFile(pages)
               n == Len(pages)
           IN  /\ BlockCount(pages) \in Nat
               /\ \A i \in 1..n : file[i] = PageUnit(pages[i])
               /\ \A b \in 1..BlockCount(pages) : file[n + b] = IndexBlock(pages, b)
               /\ Last(file) = LookupBlock(pages)
<1> DEFINE n == Len(pages)
           q == BlockCount(pages)
           front == [i \in 1..n |-> PageUnit(pages[i])]
           middle == [b \in 1..q |-> IndexBlock(pages, b)]
           end == <<LookupBlock(pages)>>
           U == {PageUnit(pages[i]) : i \in 1..n} \cup {IndexBlock(pages, b) : b \in 1..q}
                \cup {LookupBlock(pages)}
<1>1. n \in Nat /\ n + MappingsPerBlock - 1 \in Nat /\ MappingsPerBlock \in Nat \ {0}
  BY BlockAssumption
<1>2. q \in Nat
  BY <1>1, Quotient DEF BlockCount
<1> HIDE DEF q
<1>3. front \in Seq(U) /\ Len(front) = n /\ \A i \in 1..n : front[i] = PageUnit(pages[i])
  BY <1>1
<1>4. middle \in Seq(U) /\ Len(middle) = q /\ \A b \in 1..q : middle[b] = IndexBlock(pages, b)
  BY <1>2
<1>5. end \in Seq(U) /\ Len(end) = 1 /\ end[1] = LookupBlock(pages)
  OBVIOUS
<1>6. IndexFile(pages) = (front \o middle) \o end
  BY DEF IndexFile, q
<1> HIDE DEF front, middle, end, U, n
<1>7. /\ front \o middle \in Seq(U)
      /\ Len(front \o middle) = n + q
      /\ \A i \in 1..n : (front \o middle)[i] = front[i]
      /\ \A b \in 1..q : (front \o middle)[n + b] = middle[b]
  BY <1>1, <1>2, <1>3, <1>4
<1> DEFINE both == front \o middle
<1> HIDE DEF both
<1>8. both \in Seq(U) /\ Len(both) = n + q
  BY <1>7 DEF both
<1>9. /\ Len(both \o end) = n + q + 1
      /\ \A i \in 1..(n + q) : (both \o end)[i] = both[i]
      /\ (both \o end)[n + q + 1] = end[1]
  <2>1. /\ Len(both \o end) = Len(both) + Len(end)
        /\ \A i \in 1..(Len(both) + Len(end)) :
              (both \o end)[i] = IF i <= Len(both) THEN both[i] ELSE end[i - Len(both)]
    BY <1>5, <1>8, ConcatProperties
  <2> QED
    BY <1>1, <1>2, <1>5, <1>8, <2>1
<1>10. IndexFile(pages) = both \o end
  BY <1>6 DEF both
<1>11. Last(IndexFile(pages)) = LookupBlock(pages)
  BY <1>5, <1>9, <1>10 DEF Last
<1>12. \A i \in 1..n : IndexFile(pages)[i] = PageUnit(pages[i])
  <2> TAKE i \in 1..n
  <2>1. i \in 1..(n + q)
    BY <1>1, <1>2
  <2> QED
    BY <1>3, <1>7, <1>9, <1>10, <2>1 DEF both
<1>13. \A b \in 1..q : IndexFile(pages)[n + b] = IndexBlock(pages, b)
  <2> TAKE b \in 1..q
  <2>1. n + b \in 1..(n + q)
    BY <1>1, <1>2
  <2> QED
    BY <1>4, <1>7, <1>9, <1>10, <2>1 DEF both
<1> QED
  BY <1>2, <1>11, <1>12, <1>13 DEF n, q

\* The mappings of an index block.
LEMMA BlockContents ==
    ASSUME NEW pages \in Seq(Key), pages # <<>>, NEW b \in 1..BlockCount(pages)
    PROVE  /\ IsIndex(IndexBlock(pages, b))
           /\ \A i \in DOMAIN IndexBlock(pages, b).mappings :
                 /\ i \in Nat \ {0} /\ i <= MappingsPerBlock
                 /\ FirstOf(b) + i \in 1..Len(pages)
                 /\ IndexBlock(pages, b).mappings[i] = Mapping(pages, FirstOf(b) + i)
           /\ \A j \in 1..Len(pages) :
                 FirstOf(b) < j /\ j <= FirstOf(b) + MappingsPerBlock
                     => j - FirstOf(b) \in DOMAIN IndexBlock(pages, b).mappings
<1> DEFINE first == FirstOf(b)
           m == Min({MappingsPerBlock, Len(pages) - first})
<1>1. first \in Nat /\ first + 1 \in 1..Len(pages) /\ MappingsPerBlock \in Nat \ {0}
  BY BlockBegins, BlockAssumption
<1>2. m = IF MappingsPerBlock <= Len(pages) - first THEN MappingsPerBlock
          ELSE Len(pages) - first
  <2>1. MappingsPerBlock \in Nat /\ Len(pages) - first \in Nat
    BY <1>1
  <2> QED
    BY <2>1, LesserOfTwo
<1>3. IndexBlock(pages, b) =
        [kind |-> "index", mappings |-> [i \in 1..m |-> Mapping(pages, first + i)]]
  BY DEF IndexBlock, FirstOf
<1> HIDE DEF first, m
<1>4. \A i \in 1..m : /\ i \in Nat \ {0} /\ i <= MappingsPerBlock
                      /\ first + i \in 1..Len(pages)
  BY <1>1, <1>2
<1>5. \A j \in 1..Len(pages) :
        first < j /\ j <= first + MappingsPerBlock => j - first \in 1..m
  BY <1>1, <1>2
<1>6. IsIndex(IndexBlock(pages, b))
  BY <1>3 DEF IsIndex
<1>7. /\ DOMAIN IndexBlock(pages, b).mappings = 1..m
      /\ \A i \in 1..m : IndexBlock(pages, b).mappings[i] = Mapping(pages, first + i)
  BY <1>3
<1> QED
  BY <1>4, <1>5, <1>6, <1>7 DEF first

\* The entries of the lookup block.
LEMMA LookupContents ==
    ASSUME NEW pages \in Seq(Key), pages # <<>>
    PROVE  LET lookup == LookupBlock(pages)
           IN  /\ IsLookup(lookup)
               /\ Range(lookup.entries) =
                     {[key |-> pages[FirstOf(b) + 1], location |-> Len(pages) + b - 1] :
                         b \in 1..BlockCount(pages)}
<1> DEFINE q == BlockCount(pages)
           entry(b) == [key |-> pages[FirstOf(b) + 1], location |-> Len(pages) + b - 1]
<1>1. \A b \in 1..q : IndexBlock(pages, b).mappings[1].key = pages[FirstOf(b) + 1]
  <2> TAKE b \in 1..q
  <2>1. FirstOf(b) \in Nat /\ FirstOf(b) + 1 \in 1..Len(pages)
    BY BlockBegins
  <2>2. 1 \in DOMAIN IndexBlock(pages, b).mappings
    <3>1. FirstOf(b) < FirstOf(b) + 1 /\ FirstOf(b) + 1 <= FirstOf(b) + MappingsPerBlock
      BY <2>1, BlockAssumption
    <3>2. FirstOf(b) + 1 - FirstOf(b) \in DOMAIN IndexBlock(pages, b).mappings
      BY <2>1, <3>1, BlockContents
    <3>3. FirstOf(b) + 1 - FirstOf(b) = 1
      BY <2>1
    <3> QED
      BY <3>2, <3>3
  <2>3. IndexBlock(pages, b).mappings[1] = Mapping(pages, FirstOf(b) + 1)
    BY <2>2, BlockContents
  <2> QED
    BY <2>3 DEF Mapping
<1>2. LookupBlock(pages) = [kind |-> "lookup", entries |-> [b \in 1..q |-> entry(b)]]
  BY <1>1 DEF LookupBlock
<1>3. IsLookup(LookupBlock(pages))
  BY <1>2 DEF IsLookup
<1>4. Range(LookupBlock(pages).entries) = {entry(b) : b \in 1..q}
  BY <1>2 DEF Range
<1> QED
  BY <1>3, <1>4

\* In ordered pages the order of the keys is that of the places.
LEMMA OrderedPlaces ==
    ASSUME NEW pages \in Seq(Key), Ordered(pages),
           NEW i \in 1..Len(pages), NEW j \in 1..Len(pages)
    PROVE  /\ pages[i] \in Key
           /\ i <= j <=> UpTo(pages[i], pages[j])
           /\ pages[i] = pages[j] => i = j
<1>1. pages[i] \in Key /\ pages[j] \in Key /\ DOMAIN pages = 1..Len(pages)
  OBVIOUS
<1>2. i < j => Before(pages[i], pages[j])
  BY <1>1 DEF Ordered
<1>3. j < i => Before(pages[j], pages[i])
  BY <1>1 DEF Ordered
<1>4. i \in Int /\ j \in Int
  OBVIOUS
<1>5. i < j \/ i = j \/ j < i
  BY <1>4
<1>6. ~Before(pages[i], pages[i]) /\ (Before(pages[i], pages[j]) => ~Before(pages[j], pages[i]))
  BY <1>1, BeforeOrder
<1>7. CASE i < j
  BY <1>2, <1>4, <1>6, <1>7 DEF UpTo
<1>8. CASE i = j
  BY <1>4, <1>8, <1>1 DEF UpTo
<1>9. CASE j < i
  BY <1>3, <1>4, <1>6, <1>9, <1>1 DEF UpTo
<1> QED
  BY <1>5, <1>7, <1>8, <1>9

\* What FoundIn answers in the block that has the greatest page up to a key.
LEMMA FoundExact ==
    ASSUME NEW pages \in Seq(Key), pages # <<>>, Ordered(pages),
           NEW k \in Key, NEW b \in 1..BlockCount(pages), NEW j \in 1..Len(pages),
           FirstOf(b) < j, j <= FirstOf(b) + MappingsPerBlock,
           UpTo(pages[j], k),
           \A i \in 1..Len(pages) : UpTo(pages[i], k) => i <= j
    PROVE  FoundIn(IndexFile(pages), IndexBlock(pages, b).mappings, k)
             = IF k \in Range(pages) THEN k ELSE None
<1> DEFINE mappings == IndexBlock(pages, b).mappings
           found == {m \in Range(mappings) : m.key = k}
<1> HIDE DEF mappings
<1>1. /\ \A i \in DOMAIN mappings :
            /\ i \in Nat \ {0}
            /\ FirstOf(b) + i \in 1..Len(pages)
            /\ mappings[i] = Mapping(pages, FirstOf(b) + i)
      /\ j - FirstOf(b) \in DOMAIN mappings
  BY BlockContents DEF mappings
<1>2. FirstOf(b) \in Nat
  BY BlockBegins
<1>3. \A i \in 1..Len(pages) : pages[i] = k => i = j
  <2> SUFFICES ASSUME NEW i \in 1..Len(pages), pages[i] = k PROVE i = j
    OBVIOUS
  <2>1. i <= j
    BY DEF UpTo
  <2>2. UpTo(pages[j], pages[i])
    OBVIOUS
  <2>3. j <= i
    BY <2>2, OrderedPlaces
  <2> QED
    BY <2>1, <2>3
<1>4. \A m \in found : m = Mapping(pages, j) /\ pages[j] = k
  <2> TAKE m \in found
  <2>4. PICK i \in DOMAIN mappings : m = mappings[i] /\ mappings[i].key = k
    BY DEF Range
  <2>1. FirstOf(b) + i \in 1..Len(pages) /\ mappings[i] = Mapping(pages, FirstOf(b) + i)
    BY <1>1
  <2>2. pages[FirstOf(b) + i] = k
    BY <2>1, <2>4 DEF Mapping
  <2>3. FirstOf(b) + i = j
    BY <1>3, <2>1, <2>2
  <2> QED
    BY <2>1, <2>2, <2>3, <2>4
<1>5. CASE k \in Range(pages)
  <2>1. pages[j] = k
    BY <1>3, <1>5 DEF Range
  <2>2. mappings[j - FirstOf(b)] = Mapping(pages, j)
    <3>1. FirstOf(b) + (j - FirstOf(b)) = j
      BY <1>2
    <3> QED
      BY <1>1, <3>1
  <2>3. Mapping(pages, j).key = k /\ Mapping(pages, j).location = j - 1
    BY <2>1 DEF Mapping, PlaceOf
  <2>4. Mapping(pages, j) \in found
    BY <1>1, <2>2, <2>3 DEF Range
  <2>5. found = {Mapping(pages, j)}
    BY <1>4, <2>4
  <2> HIDE DEF found
  <2>6. (CHOOSE m \in found : \A n \in found : m.location <= n.location) = Mapping(pages, j)
    <3>1. \A n \in found : Mapping(pages, j).location <= n.location
      BY <2>3, <2>5
    <3> QED
      BY <2>5, <3>1, Zenon
  <2>7. PageAt(IndexFile(pages), j - 1) = k
    <3>1. UnitAt(IndexFile(pages), j - 1) = PageUnit(k)
      BY <2>1, FileLayout DEF UnitAt
    <3> QED
      BY <3>1 DEF PageAt, PageUnit
  <2>8. FoundIn(IndexFile(pages), mappings, k)
          = PageAt(IndexFile(pages),
                   (CHOOSE m \in found : \A n \in found : m.location <= n.location).location)
    BY <2>5, Zenon DEF FoundIn, found
  <2> QED
    BY <1>5, <2>3, <2>6, <2>7, <2>8 DEF mappings
<1>6. CASE k \notin Range(pages)
  <2>1. pages[j] # k
    BY <1>6 DEF Range
  <2>2. found = {}
    BY <1>4, <2>1
  <2> QED
    BY <1>6, <2>2 DEF FoundIn, mappings
<1> QED
  BY <1>5, <1>6

\* A page is read back from an index file exactly when it was written there.
LEMMA ReadExact ==
    ASSUME NEW pages \in Seq(Key), pages # <<>>, Ordered(pages),
           NEW k \in Key, UpTo(pages[1], k)
    PROVE  ReadPage(IndexFile(pages), k) = IF k \in Range(pages) THEN k ELSE None
<1> DEFINE n == Len(pages)
           entry(b) == [key |-> pages[FirstOf(b) + 1], location |-> n + b - 1]
           blocks == BlocksUpTo(LookupBlock(pages).entries, k)
           chosen == CHOOSE e \in blocks : \A f \in blocks : UpTo(f.key, e.key)
           J == {j \in 1..n : UpTo(pages[j], k)}
<1>1. n \in Nat \ {0} /\ 1 \in J
  OBVIOUS
<1>2. PICK j \in J : \A i \in J : i <= j
  <2>1. J \subseteq 0..n /\ J # {}
    BY <1>1
  <2> QED
    BY <1>1, <2>1, Greatest
<1>3. PICK b \in 1..BlockCount(pages) : FirstOf(b) < j /\ j <= FirstOf(b) + MappingsPerBlock
  BY BlockWithPage
<1>4. blocks = {entry(c) : c \in {d \in 1..BlockCount(pages) : UpTo(pages[FirstOf(d) + 1], k)}}
  BY LookupContents DEF BlocksUpTo
<1> HIDE DEF blocks, chosen
<1>5. \A c \in 1..BlockCount(pages) :
        /\ FirstOf(c) \in Nat /\ FirstOf(c) + 1 \in 1..n /\ pages[FirstOf(c) + 1] \in Key
        /\ UpTo(pages[FirstOf(c) + 1], k) => FirstOf(c) + 1 <= j
  BY <1>2, BlockBegins
<1>6. BlockCount(pages) \in Nat
  BY FileLayout
<1>7. \A c \in 1..BlockCount(pages) : UpTo(pages[FirstOf(c) + 1], k) => c <= b
  <2> SUFFICES ASSUME NEW c \in 1..BlockCount(pages), UpTo(pages[FirstOf(c) + 1], k), b < c
               PROVE  FALSE
    BY <1>6
  <2>1. FirstOf(b) + MappingsPerBlock <= FirstOf(c)
    BY <1>6, BlocksApart
  <2> QED
    BY <1>3, <1>5, <2>1, BlockAssumption
<1>8. entry(b) \in blocks
  <2>1. UpTo(pages[FirstOf(b) + 1], pages[j])
    <3>1. FirstOf(b) + 1 <= j
      BY <1>3, <1>5
    <3> QED
      BY <1>5, <3>1, OrderedPlaces
  <2>2. UpTo(pages[FirstOf(b) + 1], k)
    BY <1>5, <2>1, UpToOrder
  <2> QED
    BY <1>4, <2>2
<1>9. \A e \in blocks : UpTo(e.key, entry(b).key)
  <2> TAKE e \in blocks
  <2>1. PICK c \in 1..BlockCount(pages) : e = entry(c) /\ UpTo(pages[FirstOf(c) + 1], k)
    BY <1>4
  <2>2. c <= b
    BY <1>7, <2>1
  <2>3. FirstOf(c) + 1 <= FirstOf(b) + 1
    <3>1. CASE c = b
      BY <1>5, <3>1
    <3>2. CASE c < b
      BY <1>5, <1>6, <3>2, BlocksApart, BlockAssumption
    <3> QED
      BY <1>6, <2>2, <3>1, <3>2
  <2>4. UpTo(pages[FirstOf(c) + 1], pages[FirstOf(b) + 1])
    BY <1>5, <2>3, OrderedPlaces
  <2> QED
    BY <2>1, <2>4
<1>10. chosen \in blocks /\ \A f \in blocks : UpTo(f.key, chosen.key)
  BY <1>8, <1>9, Zenon DEF chosen
<1>11. chosen = entry(b)
  <2>1. PICK c \in 1..BlockCount(pages) : chosen = entry(c) /\ UpTo(pages[FirstOf(c) + 1], k)
    BY <1>4, <1>10
  <2>2. c <= b
    BY <1>7, <2>1
  <2>3. ~(c < b)
    <3> SUFFICES ASSUME c < b PROVE FALSE
      OBVIOUS
    <3>1. FirstOf(c) + MappingsPerBlock <= FirstOf(b)
      BY <1>6, BlocksApart
    <3>2. UpTo(pages[FirstOf(b) + 1], pages[FirstOf(c) + 1])
      BY <1>8, <1>10, <2>1
    <3>3. FirstOf(b) + 1 <= FirstOf(c) + 1
      BY <1>5, <3>2, OrderedPlaces
    <3> QED
      BY <1>5, <3>1, <3>3, BlockAssumption
  <2>4. c = b
    BY <1>6, <2>2, <2>3
  <2> QED
    BY <2>1, <2>4
<1>12. UnitAt(IndexFile(pages), chosen.location) = IndexBlock(pages, b)
  <2>1. chosen.location + 1 = n + b
    BY <1>1, <1>6, <1>11
  <2> QED
    BY <2>1, FileLayout DEF UnitAt
<1>13. Last(IndexFile(pages)) = LookupBlock(pages)
  BY FileLayout
<1>14. IsLookup(LookupBlock(pages)) /\ IsIndex(IndexBlock(pages, b))
  BY LookupContents, BlockContents
<1>15. FoundIn(IndexFile(pages), IndexBlock(pages, b).mappings, k)
         = IF k \in Range(pages) THEN k ELSE None
  BY <1>2, <1>3, FoundExact
<1>16. ReadPage(IndexFile(pages), k)
         = FoundIn(IndexFile(pages), IndexBlock(pages, b).mappings, k)
  BY <1>8, <1>12, <1>13, <1>14, Zenon DEF ReadPage, blocks, chosen
<1> QED
  BY <1>15, <1>16

-----------------------------------------------------------------------------
(* The invariant *)

\* The first and the last of some pages, and the pages between.
LEMMA Ends ==
    ASSUME NEW pages \in Seq(Key), pages # <<>>, Ordered(pages)
    PROVE  /\ Head(pages) = pages[1] /\ pages[1] \in Key
           /\ Last(pages) = pages[Len(pages)] /\ Last(pages) \in Key
           /\ Len(pages) \in DOMAIN pages /\ 1 \in DOMAIN pages
           /\ \A k \in Range(pages) : UpTo(pages[1], k) /\ UpTo(k, Last(pages))
<1>1. Len(pages) \in 1..Len(pages) /\ 1 \in 1..Len(pages) /\ DOMAIN pages = 1..Len(pages)
  OBVIOUS
<1>2. Last(pages) = pages[Len(pages)] /\ Head(pages) = pages[1]
  BY DEF Last
<1>3. \A i \in 1..Len(pages) : UpTo(pages[1], pages[i]) /\ UpTo(pages[i], pages[Len(pages)])
  BY <1>1, OrderedPlaces
<1> QED
  BY <1>1, <1>2, <1>3 DEF Range

\* A new store.
LEMMA InitInv == Init => IInv
<1> SUFFICES ASSUME Init PROVE IInv
  OBVIOUS
<1>1. TypeOK
  BY VersionAssumption DEF Init, TypeOK
<1>2. Ordered(buffer) /\ CommitIsLast /\ FilesInOrder /\ PagesFiled
  BY DEF Init, Ordered, CommitIsLast, FilesInOrder, PagesFiled
<1>3. StoredSomewhere
  BY DEF Init, StoredSomewhere, Range
<1> QED
  BY <1>1, <1>2, <1>3 DEF IInv

\* The range of an index file is given by keys.
LEMMA RangeKeys ==
    ASSUME TypeOK, NEW i \in DOMAIN index_files
    PROVE  index_files[i].min \in Key /\ index_files[i].max \in Key
<1> DEFINE R == [min : Key, max : Key, path : 0..LastFile]
<1>1. index_files \in Seq(R)
  BY DEF TypeOK
<1> HIDE DEF R
<1>2. index_files[i] \in R
  BY <1>1
<1> QED
  BY <1>2 DEF R

\* The pages of a new commit come after all others.
LEMMA BeginInv ==
    ASSUME IInv, NEW S \in SUBSET ((0..1) \X Pid), BeginCommit(S)
    PROVE  IInv'
<1>1. version \in Nat /\ version + 1 \in 1..LastVersion /\ version' = version + 1
  BY VersionAssumption DEF IInv, TypeOK, BeginCommit
<1>2. page_cache' \in SUBSET Key /\ \A k \in page_cache' : k.version = version + 1
  <2>1. \A s \in S : s[1] \in 0..1 /\ s[2] \in Pid
    OBVIOUS
  <2>2. \A s \in S : [version |-> version + 1, type |-> s[1], pid |-> s[2]] \in Key
    BY <1>1, <2>1 DEF Key
  <2> QED
    BY <2>2 DEF BeginCommit
<1>3. TypeOK'
  BY <1>1, <1>2, VersionAssumption DEF IInv, TypeOK, BeginCommit
<1>4. CommitIsLast'
  <2>1. \A i \in DOMAIN buffer : buffer[i] \in Key /\ buffer[i].version <= version
    BY DEF IInv, TypeOK, CommitIsLast
  <2>2. \A i \in DOMAIN index_files :
          index_files[i].max \in Key /\ index_files[i].max.version <= version
    BY RangeKeys DEF IInv, CommitIsLast
  <2>3. \A l \in Key, k \in page_cache' : l.version <= version => Before(l, k)
    BY <1>1, <1>2, KeyParts DEF Before
  <2>4. \A l \in Key : l.version <= version => l.version <= version + 1
    BY <1>1, KeyParts
  <2> QED
    BY <1>1, <1>2, <2>1, <2>2, <2>3, <2>4 DEF CommitIsLast, AllBefore, BeginCommit
<1>5. Ordered(buffer)' /\ FilesInOrder' /\ StoredSomewhere' /\ PagesFiled'
  BY DEF IInv, BeginCommit, Ordered, FilesInOrder, StoredSomewhere, FilesWith, PagesFiled, Filed
<1> QED
  BY <1>3, <1>4, <1>5 DEF IInv

\* A page put into the memory table.
LEMMA BufferInv ==
    ASSUME IInv, NEW k \in page_cache, IsNext(k),
           buffer' = Append(buffer, k), page_cache' = page_cache \ {k},
           stored' = stored \cup {k}, UNCHANGED <<version, index_files, disk>>
    PROVE  IInv'
<1>1. /\ k \in Key /\ buffer \in Seq(Key) /\ k.version = version
      /\ AllBefore(buffer, k)
      /\ \A i \in DOMAIN index_files :
            index_files[i].max \in Key /\ Before(index_files[i].max, k)
  <2>1. k \in Key /\ buffer \in Seq(Key)
    BY DEF IInv, TypeOK
  <2>2. \A i \in DOMAIN index_files : index_files[i].max \in Key
    BY RangeKeys DEF IInv
  <2> QED
    BY <2>1, <2>2 DEF IInv, CommitIsLast
<1>2. /\ buffer' \in Seq(Key) /\ DOMAIN buffer' = 1..(Len(buffer) + 1)
      /\ \A i \in 1..Len(buffer) : buffer'[i] = buffer[i]
      /\ buffer'[Len(buffer) + 1] = k
      /\ DOMAIN buffer = 1..Len(buffer) /\ Len(buffer) \in Nat
  BY <1>1
<1>3. Range(buffer') = Range(buffer) \cup {k}
  BY <1>2 DEF Range
<1>4. TypeOK'
  BY <1>1, <1>2 DEF IInv, TypeOK
<1>5. Ordered(buffer)'
  <2> SUFFICES ASSUME NEW i \in DOMAIN buffer', NEW j \in DOMAIN buffer', i < j
               PROVE  Before(buffer'[i], buffer'[j])
    BY DEF Ordered
  <2>1. i \in 1..Len(buffer)
    BY <1>2
  <2>2. CASE j \in 1..Len(buffer)
    BY <1>2, <2>1, <2>2 DEF IInv, Ordered
  <2>3. CASE j = Len(buffer) + 1
    BY <1>1, <1>2, <2>1, <2>3 DEF AllBefore
  <2> QED
    BY <1>2, <2>2, <2>3
<1>6. \A l \in page_cache' : Before(k, l) /\ l \in page_cache /\ l \in Key
  BY DEF IsNext, UpTo, IInv, TypeOK
<1>7. CommitIsLast'
  <2>1. \A l \in page_cache' : AllBefore(buffer', l)
    BY <1>2, <1>6 DEF IInv, CommitIsLast, AllBefore
  <2>2. \A i \in DOMAIN buffer' : buffer'[i].version <= version
    <3>1. version \in Nat
      BY VersionAssumption DEF IInv, TypeOK
    <3> QED
      BY <1>1, <1>2, <3>1 DEF IInv, CommitIsLast
  <2> QED
    BY <1>6, <2>1, <2>2 DEF IInv, CommitIsLast
<1>8. FilesInOrder'
  BY <1>1, <1>3 DEF IInv, FilesInOrder
<1>9. PagesFiled'
  <2> SUFFICES ASSUME NEW i \in DOMAIN index_files
               PROVE  \E pages \in Seq(Key) : Filed(i, pages)'
    BY DEF PagesFiled
  <2>1. PICK pages \in Seq(Key) : Filed(i, pages)
    BY DEF IInv, PagesFiled
  <2>2. index_files[i].max = Last(pages)
    BY <2>1 DEF Filed, RangeOf
  <2>3. ~UpTo(k, Last(pages))
    BY <1>1, <2>2, UpToOrder
  <2>4. k \notin Range(pages)
    BY <2>1, <2>3, Ends DEF Filed
  <2> QED
    BY <2>1, <2>3, <2>4 DEF Filed
<1>10. StoredSomewhere'
  BY <1>3 DEF IInv, StoredSomewhere, FilesWith
<1> QED
  BY <1>4, <1>5, <1>7, <1>8, <1>9, <1>10 DEF IInv

\* Pages written to a new index file: the memory table and possibly the page
\* just handed over.
LEMMA WrittenInv ==
    ASSUME IInv, NEW pages \in Seq(Key), pages # <<>>, Ordered(pages),
           \A i \in DOMAIN index_files, j \in DOMAIN pages :
               Before(index_files[i].max, pages[j]),
           \A j \in DOMAIN pages : pages[j].version <= version,
           \A k \in page_cache' : AllBefore(pages, k),
           Range(buffer) \subseteq Range(pages),
           FlushTable(pages),
           page_cache' \subseteq page_cache,
           stored' = stored \cup Range(pages), version' = version
    PROVE  IInv'
<1> DEFINE n == Len(index_files)
           new == RangeOf(pages, n)
           R == [min : Key, max : Key, path : 0..LastFile]
<1>1. /\ n \in Nat /\ n \in DOMAIN disk
      /\ disk' = [disk EXCEPT ![n] = IndexFile(pages)]
      /\ index_files' = Append(index_files, new)
      /\ buffer' = <<>>
  BY DEF FlushTable, IInv, TypeOK
<1>2. /\ new.min = pages[1] /\ new.max = Last(pages) /\ new.path = n
      /\ pages[1] \in Key /\ Last(pages) \in Key /\ Last(pages) = pages[Len(pages)]
      /\ Len(pages) \in DOMAIN pages /\ 1 \in DOMAIN pages
  BY Ends DEF RangeOf
<1>3. new \in R /\ index_files \in Seq(R)
  BY <1>1, <1>2 DEF RangeOf, IInv, TypeOK
<1> HIDE DEF new, R
<1>4. /\ index_files' \in Seq(R) /\ DOMAIN index_files' = 1..(n + 1)
      /\ DOMAIN index_files = 1..n
      /\ \A i \in 1..n : index_files'[i] = index_files[i]
      /\ index_files'[n + 1] = new
  BY <1>1, <1>3
<1>5. Range(pages) \subseteq Key /\ Range(buffer') = {}
  BY <1>1 DEF Range
<1>6. TypeOK'
  BY <1>1, <1>4, <1>5 DEF IInv, TypeOK, R
<1>7. \A i \in 1..n : index_files[i].max \in Key /\ index_files[i].min \in Key
  BY <1>4, RangeKeys DEF IInv
<1>8. Ordered(buffer)'
  BY <1>1 DEF Ordered
<1>9. CommitIsLast'
  <2>1. \A k \in page_cache' : k.version = version /\ AllBefore(buffer', k)
    BY <1>1 DEF AllBefore, IInv, CommitIsLast
  <2>2. \A i \in 1..(n + 1), k \in page_cache' : Before(index_files'[i].max, k)
    <3> TAKE i \in 1..(n + 1), k \in page_cache'
    <3>1. CASE i \in 1..n
      BY <1>4, <3>1 DEF IInv, CommitIsLast
    <3>2. CASE i = n + 1
      BY <1>2, <1>4, <3>2 DEF AllBefore
    <3> QED
      BY <1>1, <3>1, <3>2
  <2>3. \A i \in 1..(n + 1) : index_files'[i].max.version <= version
    <3> TAKE i \in 1..(n + 1)
    <3>1. CASE i \in 1..n
      BY <1>4, <3>1 DEF IInv, CommitIsLast
    <3>2. CASE i = n + 1
      BY <1>2, <1>4, <3>2
    <3> QED
      BY <1>1, <3>1, <3>2
  <2>4. \A i \in DOMAIN buffer' : buffer'[i].version <= version
    BY <1>1
  <2> QED
    BY <1>4, <2>1, <2>2, <2>3, <2>4 DEF CommitIsLast
<1>10. FilesInOrder'
  <2>1. \A i, j \in 1..(n + 1) : i < j => Before(index_files'[i].max, index_files'[j].min)
    <3> SUFFICES ASSUME NEW i \in 1..(n + 1), NEW j \in 1..(n + 1), i < j
                 PROVE  Before(index_files'[i].max, index_files'[j].min)
      OBVIOUS
    <3>1. i \in 1..n
      BY <1>1
    <3>2. CASE j \in 1..n
      BY <1>4, <3>1, <3>2 DEF IInv, FilesInOrder
    <3>3. CASE j = n + 1
      BY <1>2, <1>4, <3>1, <3>3
    <3> QED
      BY <1>1, <3>2, <3>3
  <2> QED
    BY <1>4, <1>5, <2>1 DEF FilesInOrder
<1>11. \A i \in 1..n, k \in Range(pages) : ~UpTo(k, index_files[i].max)
  BY <1>4, <1>5, <1>7, UpToOrder DEF Range
<1>12. PagesFiled'
  <2> SUFFICES ASSUME NEW i \in 1..(n + 1) PROVE \E p \in Seq(Key) : Filed(i, p)'
    BY <1>4 DEF PagesFiled
  <2>1. CASE i \in 1..n
    <3>1. PICK p \in Seq(Key) : Filed(i, p)
      BY <1>4, <2>1 DEF IInv, PagesFiled
    <3>2. index_files[i].max = Last(p)
      BY <3>1 DEF Filed, RangeOf
    <3>3. index_files'[i] = index_files[i] /\ disk'[i - 1] = disk[i - 1]
      BY <1>1, <1>4, <2>1
    <3>4. \A k \in Range(pages) : ~UpTo(k, Last(p)) /\ k \notin Range(p)
      BY <1>11, <2>1, <3>1, <3>2, Ends DEF Filed
    <3> QED
      BY <3>1, <3>3, <3>4 DEF Filed
  <2>2. CASE i = n + 1
    <3>1. index_files'[i] = RangeOf(pages, i - 1) /\ disk'[i - 1] = IndexFile(pages)
      BY <1>1, <1>4, <2>2 DEF new
    <3>2. \A k \in stored : UpTo(pages[1], k) => k \in Range(pages)
      <4> SUFFICES ASSUME NEW k \in stored, k \notin Range(pages), UpTo(pages[1], k)
                   PROVE  FALSE
        OBVIOUS
      <4>1. PICK f \in DOMAIN index_files : UpTo(k, index_files[f].max)
        BY DEF IInv, StoredSomewhere, FilesWith
      <4>2. k \in Key
        BY DEF IInv, TypeOK
      <4>3. Before(index_files[f].max, pages[1])
        BY <1>2
      <4>4. UpTo(pages[1], index_files[f].max)
        BY <1>2, <1>4, <1>7, <4>1, <4>2, UpToOrder
      <4> QED
        BY <1>2, <1>4, <1>7, <4>3, <4>4, UpToOrder
    <3>3. \A k \in Key : k \in Range(pages) <=>
            k \in stored' /\ UpTo(pages[1], k) /\ UpTo(k, Last(pages))
      BY <3>2, Ends
    <3> QED
      BY <3>1, <3>3 DEF Filed
  <2> QED
    BY <1>1, <2>1, <2>2
<1>13. StoredSomewhere'
  <2> SUFFICES ASSUME NEW k \in stored' PROVE FilesWith(k)' # {}
    BY <1>5 DEF StoredSomewhere
  <2>1. CASE k \in Range(pages)
    <3>1. UpTo(index_files'[n + 1].min, k) /\ UpTo(k, index_files'[n + 1].max)
      BY <1>2, <1>4, <2>1, Ends
    <3> QED
      BY <1>1, <1>4, <3>1 DEF FilesWith
  <2>2. CASE k \notin Range(pages)
    <3>1. PICK i \in 1..n : UpTo(index_files[i].min, k) /\ UpTo(k, index_files[i].max)
      BY <1>4, <2>2 DEF IInv, StoredSomewhere, FilesWith
    <3> QED
      BY <1>1, <1>4, <3>1 DEF FilesWith
  <2> QED
    BY <2>1, <2>2
<1> QED
  BY <1>6, <1>8, <1>9, <1>10, <1>12, <1>13 DEF IInv

\* The memory table is in order, behind the files and before the commit's pages.
LEMMA BufferFacts ==
    ASSUME IInv
    PROVE  /\ buffer \in Seq(Key) /\ DOMAIN buffer = 1..Len(buffer) /\ Len(buffer) \in Nat
           /\ \A i \in DOMAIN index_files, j \in DOMAIN buffer :
                  Before(index_files[i].max, buffer[j])
           /\ \A j \in DOMAIN buffer : buffer[j].version <= version
<1>1. buffer \in Seq(Key) /\ DOMAIN buffer = 1..Len(buffer) /\ Len(buffer) \in Nat
  BY DEF IInv, TypeOK
<1>2. \A j \in DOMAIN buffer : buffer[j] \in Range(buffer)
  BY DEF Range
<1> QED
  BY <1>1, <1>2 DEF IInv, FilesInOrder, CommitIsLast

\* The next page of a commit is handed over.
LEMMA StoreInv == \A k \in page_cache : IInv /\ StorePage(k) => IInv'
<1> SUFFICES ASSUME IInv, NEW k \in page_cache, StorePage(k) PROVE IInv'
  OBVIOUS
<1> DEFINE pages == Append(buffer, k)
<1>1. /\ IsNext(k) /\ page_cache' = page_cache \ {k} /\ stored' = stored \cup {k}
      /\ version' = version
  BY DEF StorePage
<1>2. CASE ~IsFull(pages)
  BY <1>1, <1>2, BufferInv DEF StorePage
<1>3. CASE IsFull(pages)
  <2>1. FlushTable(pages)
    BY <1>3 DEF StorePage
  <2>2. /\ k \in Key /\ k.version = version /\ AllBefore(buffer, k)
        /\ \A i \in DOMAIN index_files : Before(index_files[i].max, k)
    BY DEF IInv, TypeOK, CommitIsLast
  <2>3. /\ pages \in Seq(Key) /\ pages # <<>> /\ DOMAIN pages = 1..(Len(buffer) + 1)
        /\ \A i \in 1..Len(buffer) : pages[i] = buffer[i]
        /\ pages[Len(buffer) + 1] = k
    <3>1. buffer \in Seq(Key) /\ k \in Key
      BY <2>2, BufferFacts
    <3> QED
      BY <3>1
  <2> HIDE DEF pages
  <2>4. Range(pages) = Range(buffer) \cup {k}
    BY <2>3, BufferFacts DEF Range
  <2>5. Ordered(pages)
    <3> SUFFICES ASSUME NEW i \in DOMAIN pages, NEW j \in DOMAIN pages, i < j
                 PROVE  Before(pages[i], pages[j])
      BY DEF Ordered
    <3>1. i \in 1..Len(buffer)
      BY <2>3, BufferFacts
    <3>2. CASE j \in 1..Len(buffer)
      BY <2>3, <3>1, <3>2, BufferFacts DEF IInv, Ordered
    <3>3. CASE j = Len(buffer) + 1
      BY <2>2, <2>3, <3>1, <3>3, BufferFacts DEF AllBefore
    <3> QED
      BY <2>3, <3>2, <3>3, BufferFacts
  <2>6. \A i \in DOMAIN index_files, j \in DOMAIN pages : Before(index_files[i].max, pages[j])
    BY <2>2, <2>3, BufferFacts
  <2>7. \A j \in DOMAIN pages : pages[j].version <= version
    <3>1. version \in Nat
      BY VersionAssumption DEF IInv, TypeOK
    <3> QED
      BY <2>2, <2>3, <3>1, BufferFacts
  <2>8. \A l \in page_cache' : AllBefore(pages, l)
    <3>1. \A l \in page_cache' : Before(k, l) /\ AllBefore(buffer, l)
      BY <1>1 DEF IsNext, UpTo, IInv, CommitIsLast
    <3> QED
      BY <2>3, <3>1, BufferFacts DEF AllBefore
  <2>9. stored' = stored \cup Range(pages)
    BY <1>1, <2>4 DEF IInv, StoredSomewhere
  <2> QED
    BY <1>1, <2>1, <2>3, <2>4, <2>5, <2>6, <2>7, <2>8, <2>9, WrittenInv
<1> QED
  BY <1>2, <1>3

\* The memory table is written out between two commits.
LEMMA FlushInv == IInv /\ Flush => IInv'
<1> SUFFICES ASSUME IInv, Flush PROVE IInv'
  OBVIOUS
<1>1. /\ page_cache = {} /\ page_cache' = {} /\ buffer # <<>> /\ FlushTable(buffer)
      /\ stored' = stored /\ version' = version
  BY DEF Flush
<1>2. Ordered(buffer) /\ stored' = stored \cup Range(buffer)
  BY <1>1 DEF IInv, StoredSomewhere
<1> QED
  BY <1>1, <1>2, BufferFacts, WrittenInv

\* Every step keeps the invariant.
LEMMA StepInv == IInv /\ [Next]_vars => IInv'
<1> SUFFICES ASSUME IInv, [Next]_vars PROVE IInv'
  OBVIOUS
<1>1. ASSUME NEW S \in SUBSET ((0..1) \X Pid), BeginCommit(S) PROVE IInv'
  BY <1>1, BeginInv
<1>2. ASSUME NEW k \in page_cache, StorePage(k) PROVE IInv'
  BY <1>2, StoreInv
<1>3. CASE Flush
  BY <1>3, FlushInv
<1>4. CASE UNCHANGED vars
  BY <1>4
  DEF vars, IInv, TypeOK, Ordered, CommitIsLast, AllBefore, FilesInOrder, PagesFiled, Filed,
      StoredSomewhere, FilesWith
<1> QED
  BY <1>1, <1>2, <1>3, <1>4 DEF Next

\* The invariant holds always.
LEMMA InvAlways == Spec => []IInv
BY InitInv, StepInv, PTL DEF Spec

-----------------------------------------------------------------------------
(* What follows *)

\* A key is in the range of one index file at most.
LEMMA OneFile ==
    ASSUME IInv, NEW k \in Key, NEW i \in FilesWith(k)
    PROVE  FilesWith(k) = {i} /\ Min(FilesWith(k)) = i
<1>1. /\ DOMAIN index_files = 1..Len(index_files)
      /\ \A j \in DOMAIN index_files : index_files[j].max \in Key /\ index_files[j].min \in Key
  BY RangeKeys DEF IInv, TypeOK
<1>2. \A j, l \in FilesWith(k) : ~(j < l)
  <2> SUFFICES ASSUME NEW j \in FilesWith(k), NEW l \in FilesWith(k), j < l PROVE FALSE
    OBVIOUS
  <2>1. Before(index_files[j].max, index_files[l].min)
    BY DEF IInv, FilesInOrder, FilesWith
  <2>2. UpTo(index_files[l].min, index_files[j].max)
    BY <1>1, UpToOrder DEF FilesWith
  <2> QED
    BY <1>1, <2>1, <2>2, UpToOrder DEF FilesWith
<1>3. FilesWith(k) \subseteq Nat
  BY <1>1 DEF FilesWith
<1>4. FilesWith(k) = {i}
  BY <1>2, <1>3
<1>5. Min({i}) = i
  BY <1>3, <1>4 DEF Min
<1> QED
  BY <1>4, <1>5

\* The invariant answers every lookup.
LEMMA InvFound == IInv => StoredFound
<1> SUFFICES ASSUME IInv, NEW k \in Key
             PROVE  PageLookup(k) = IF k \in stored THEN k ELSE None
  BY DEF StoredFound
<1>1. CASE k \in Range(buffer)
  BY <1>1 DEF PageLookup, IInv, StoredSomewhere
<1>2. CASE k \notin Range(buffer) /\ FilesWith(k) = {}
  BY <1>2 DEF PageLookup, IInv, StoredSomewhere
<1>3. CASE k \notin Range(buffer) /\ FilesWith(k) # {}
  <2>1. PICK i \in FilesWith(k) : TRUE
    BY <1>3
  <2>2. i \in DOMAIN index_files /\ UpTo(index_files[i].min, k) /\ UpTo(k, index_files[i].max)
    BY DEF FilesWith
  <2>3. PICK pages \in Seq(Key) : Filed(i, pages)
    BY <2>2 DEF IInv, PagesFiled
  <2>4. /\ index_files[i].min = pages[1] /\ index_files[i].max = Last(pages)
        /\ disk[index_files[i].path] = IndexFile(pages)
    BY <2>3, Ends DEF Filed, RangeOf
  <2>5. PageLookup(k) = ReadPage(IndexFile(pages), k)
    BY <1>3, <2>4, OneFile DEF PageLookup
  <2>6. PageLookup(k) = IF k \in Range(pages) THEN k ELSE None
    BY <2>2, <2>3, <2>4, <2>5, ReadExact DEF Filed
  <2>7. k \in Range(pages) <=> k \in stored
    BY <2>2, <2>3, <2>4 DEF Filed
  <2> QED
    BY <2>6, <2>7
<1> QED
  BY <1>1, <1>2, <1>3

\* Table, files and the ranges of the files are well typed.
THEOREM TypeCorrect == Spec => []TypeOK
<1>1. IInv => TypeOK
  BY DEF IInv
<1> QED
  BY <1>1, InvAlways, PTL

\* However many pages a commit has, an index block takes or the table takes,
\* the ranges of the index files and the memory table do not meet.
THEOREM RangesDisjoint == Spec => []FilesInOrder
<1>1. IInv => FilesInOrder
  BY DEF IInv
<1> QED
  BY <1>1, InvAlways, PTL

\* pageLookup finds every page that was handed over and answers no other key,
\* whatever the sizes of table and index block: writing an index file and
\* finding a page in it fit together at every boundary.
THEOREM EveryPageFound == Spec => []StoredFound
BY InvFound, InvAlways, PTL
=============================================================================
