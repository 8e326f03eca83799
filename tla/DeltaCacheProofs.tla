---------------------------- MODULE DeltaCacheProofs ----------------------------
(***************************************************************************)
(* Proofs about DeltaCache: whatever is evicted, read back, flushed or     *)
(* opened again, no pool entry is lost and none is given out twice; and    *)
(* while an index block is no longer than a page, no page of the file is   *)
(* written over another and every page is read back as it was stored last. *)
(***************************************************************************)
EXTENDS DeltaCache, FiniteSetTheorems, SequenceTheorems, WellFoundedInduction, TLAPS

\* What PoolPartitioned says, of any state m of memory over a set of entries.
Once(m, entries) ==
    /\ m.free \in Seq(entries)
    /\ m.cache = [p \in DOMAIN m.cache |-> m.cache[p]]
    /\ IsInjective(m.cache) /\ IsInjective(m.free)
    /\ Range(m.cache) \cap Range(m.free) = {}
    /\ Range(m.cache) \cup Range(m.free) = entries

IInv == max_size \in Nat \ {0} /\ Once(Memory, 1..max_size)

\* A page dropped from the pool frees its entry.
LEMMA EvictedOnce ==
    ASSUME NEW entries, NEW m, Once(m, entries), NEW q \in DOMAIN m.cache
    PROVE  /\ Once(Evicted(m, q), entries)
           /\ Evicted(m, q).free # <<>>
           /\ DOMAIN Evicted(m, q).cache = DOMAIN m.cache \ {q}
<1> DEFINE free == m.free
           cache0 == m.cache
           e == cache0[q]
           free1 == Append(free, e)
           cache1 == [p \in DOMAIN cache0 \ {q} |-> cache0[p]]
<1>1. /\ free \in Seq(entries) /\ IsInjective(cache0) /\ IsInjective(free)
      /\ Range(cache0) \cap Range(free) = {}
      /\ Range(cache0) \cup Range(free) = entries
  BY DEF Once
<1>2. Evicted(m, q).free = free1 /\ Evicted(m, q).cache = cache1
  BY DEF Evicted, Restrict
<1>3. e \in Range(cache0) /\ e \in entries /\ e \notin Range(free)
  BY <1>1 DEF Range
<1>4. /\ Range(cache1) = Range(cache0) \ {e}
      /\ IsInjective(cache1)
  BY <1>1 DEF Range, IsInjective
<1>5. DOMAIN cache1 = DOMAIN cache0 \ {q} /\ cache1 = [p \in DOMAIN cache1 |-> cache1[p]]
  OBVIOUS
<1> HIDE DEF e, free, cache1
<1>6. /\ free1 \in Seq(entries) /\ Len(free1) = Len(free) + 1 /\ Len(free) \in Nat
      /\ DOMAIN free1 = 1..(Len(free) + 1) /\ DOMAIN free = 1..Len(free)
      /\ \A i \in 1..Len(free) : free1[i] = free[i]
      /\ free1[Len(free) + 1] = e
  BY <1>1, <1>3
<1> HIDE DEF free1
<1>7. Range(free1) = Range(free) \cup {e}
  <2>1. ASSUME NEW x \in Range(free1) PROVE x \in Range(free) \cup {e}
    <3>1. PICK i \in 1..(Len(free) + 1) : x = free1[i]
      BY <1>6 DEF Range
    <3>2. i \in 1..Len(free) \/ i = Len(free) + 1
      BY <1>6
    <3> QED
      BY <3>1, <3>2, <1>6 DEF Range
  <2>2. ASSUME NEW x \in Range(free) PROVE x \in Range(free1)
    <3>1. PICK i \in 1..Len(free) : x = free[i]
      BY <1>6 DEF Range
    <3>2. i \in 1..(Len(free) + 1)
      BY <1>6
    <3> QED
      BY <3>1, <3>2, <1>6 DEF Range
  <2>3. e \in Range(free1)
    <3>1. Len(free) + 1 \in 1..(Len(free) + 1)
      BY <1>6
    <3> QED
      BY <3>1, <1>6 DEF Range
  <2> QED
    BY <2>1, <2>2, <2>3
<1>8. IsInjective(free1)
  <2> SUFFICES ASSUME NEW i \in 1..(Len(free) + 1), NEW j \in 1..(Len(free) + 1),
                      free1[i] = free1[j]
               PROVE  i = j
    BY <1>6 DEF IsInjective
  <2>1. CASE i \in 1..Len(free) /\ j \in 1..Len(free)
    BY <2>1, <1>1, <1>6 DEF IsInjective
  <2>2. \A k \in 1..Len(free) : free1[k] # e
    BY <1>3, <1>6 DEF Range
  <2> QED
    BY <2>1, <2>2, <1>6
<1>9. free1 # <<>>
  BY <1>6
<1>10. /\ Range(cache1) \cap Range(free1) = {}
       /\ Range(cache1) \cup Range(free1) = entries
  BY <1>1, <1>3, <1>4, <1>7
<1> QED
  BY <1>2, <1>4, <1>5, <1>6, <1>8, <1>9, <1>10 DEF Once

\* The first free entry is given to a page that has none.
LEMMA FetchedOnce ==
    ASSUME NEW entries, NEW m, Once(m, entries), m.free # <<>>,
           NEW p, p \notin DOMAIN m.cache
    PROVE  /\ Once(Fetched(m, p), entries)
           /\ DOMAIN Fetched(m, p).cache = DOMAIN m.cache \cup {p}
<1> DEFINE free == m.free
           cache0 == m.cache
           e == Head(free)
           free1 == Tail(free)
           cache1 == [r \in DOMAIN cache0 \cup {p} |-> IF r = p THEN e ELSE cache0[r]]
<1>1. /\ free \in Seq(entries) /\ IsInjective(cache0) /\ IsInjective(free)
      /\ Range(cache0) \cap Range(free) = {}
      /\ Range(cache0) \cup Range(free) = entries
      /\ free # <<>>
  BY DEF Once
<1>2. Fetched(m, p).free = free1 /\ Fetched(m, p).cache = cache1
  BY DEF Fetched
<1> HIDE DEF free
<1>3. /\ free1 \in Seq(entries) /\ Len(free) \in Nat \ {0}
      /\ DOMAIN free1 = 1..(Len(free) - 1) /\ DOMAIN free = 1..Len(free)
      /\ \A i \in 1..(Len(free) - 1) : free1[i] = free[i + 1]
      /\ e = free[1]
  BY <1>1
<1> HIDE DEF e, free1
<1>4. e \in Range(free)
  <2>1. 1 \in DOMAIN free
    BY <1>3
  <2> QED
    BY <2>1, <1>3 DEF Range
<1>5. \A x \in Range(free) : x = e \/ x \in Range(free1)
  <2> SUFFICES ASSUME NEW i \in 1..Len(free), free[i] # e
               PROVE  free[i] \in Range(free1)
    BY <1>3 DEF Range
  <2>1. (i - 1) \in 1..(Len(free) - 1) /\ (i - 1) + 1 = i
    BY <1>3
  <2>2. free1[i - 1] = free[i]
    BY <2>1, <1>3
  <2> QED
    BY <2>1, <2>2, <1>3 DEF Range
<1>6. \A i \in 1..(Len(free) - 1) : i + 1 \in DOMAIN free /\ i + 1 # 1
  BY <1>3
<1>7. Range(free1) \subseteq Range(free) /\ e \notin Range(free1)
  <2> SUFFICES ASSUME NEW i \in 1..(Len(free) - 1)
               PROVE  free1[i] \in Range(free) /\ free1[i] # e
    BY <1>3 DEF Range
  <2>1. i + 1 \in DOMAIN free /\ i + 1 # 1 /\ 1 \in DOMAIN free /\ free1[i] = free[i + 1]
    BY <1>3, <1>6
  <2>2. free[i + 1] # free[1]
    BY <2>1, <1>1 DEF IsInjective
  <2> QED
    BY <2>1, <2>2, <1>3 DEF Range
<1>8. IsInjective(free1)
  <2> SUFFICES ASSUME NEW i \in 1..(Len(free) - 1), NEW j \in 1..(Len(free) - 1),
                      free1[i] = free1[j]
               PROVE  i = j
    BY <1>3 DEF IsInjective
  <2>1. free[i + 1] = free[j + 1]
    BY <1>3
  <2>2. i + 1 = j + 1
    BY <2>1, <1>1, <1>6 DEF IsInjective
  <2> QED
    BY <2>2, <1>3
<1>9. e \notin Range(cache0)
  BY <1>1, <1>4
<1>10. IsInjective(cache1)
  <2> SUFFICES ASSUME NEW a \in DOMAIN cache0 \cup {p}, NEW b \in DOMAIN cache0 \cup {p},
                      cache1[a] = cache1[b]
               PROVE  a = b
    BY DEF IsInjective
  <2>1. \A r \in DOMAIN cache0 : cache0[r] # e
    BY <1>9 DEF Range
  <2> QED
    BY <2>1, <1>1 DEF IsInjective
<1>11. Range(cache1) = Range(cache0) \cup {e}
  <2>1. ASSUME NEW r \in DOMAIN cache0 PROVE cache0[r] \in Range(cache1)
    <3>1. r \in DOMAIN cache1 /\ cache1[r] = cache0[r]
      OBVIOUS
    <3> QED
      BY <3>1 DEF Range
  <2>2. e \in Range(cache1)
    <3>1. p \in DOMAIN cache1 /\ cache1[p] = e
      OBVIOUS
    <3> QED
      BY <3>1 DEF Range
  <2> QED
    BY <2>1, <2>2 DEF Range
<1>12. DOMAIN cache1 = DOMAIN cache0 \cup {p} /\ cache1 = [r \in DOMAIN cache1 |-> cache1[r]]
  OBVIOUS
<1> HIDE DEF cache1
<1>13. /\ Range(cache1) \cap Range(free1) = {}
       /\ Range(cache1) \cup Range(free1) = entries
  BY <1>1, <1>4, <1>5, <1>7, <1>9, <1>11
<1> QED
  BY <1>2, <1>3, <1>8, <1>10, <1>12, <1>13 DEF Once

\* An entry is free as long as the pool has fewer pages than entries.
LEMMA FreeLeft ==
    ASSUME NEW n \in Nat, NEW m, Once(m, 1..n), Cardinality(DOMAIN m.cache) < n,
           IsFiniteSet(DOMAIN m.cache)
    PROVE  m.free # <<>>
<1> SUFFICES ASSUME m.free = <<>> PROVE FALSE
  OBVIOUS
<1> DEFINE D == DOMAIN m.cache
           f == m.cache
<1>1. Range(f) = 1..n /\ f = [p \in D |-> f[p]]
  <2>1. Range(m.free) = {}
    BY DEF Range
  <2> QED
    BY <2>1 DEF Once
<1>2. f \in Surjection(D, 1..n)
  BY <1>1 DEF Surjection, Range
<1>3. IsFiniteSet(1..n) /\ Cardinality(1..n) = n
  BY FS_Interval
<1>4. Cardinality(1..n) <= Cardinality(D)
  BY <1>2, FS_Surjection
<1>5. Cardinality(D) \in Nat
  BY FS_CardinalityType
<1> QED
  BY <1>3, <1>4, <1>5

\* Get hands out entries as Once has it, and gives page p one.
LEMMA GetOnce ==
    ASSUME IInv, NEW p, NEW m \in AfterGet(p)
    PROVE  Once(m, 1..max_size) /\ p \in DOMAIN m.cache
<1> DEFINE entries == 1..max_size
           mem == Memory
<1>1. max_size \in Nat /\ Once(mem, entries) /\ mem.cache = cache
  BY DEF IInv, Memory
<1>2. IsFiniteSet(DOMAIN mem.cache)
  <2>1. mem.cache \in Injection(DOMAIN mem.cache, entries)
    BY <1>1 DEF Once, Injection, IsInjective, Range
  <2> QED
    BY <2>1, <1>1, FS_Interval, FS_Injection
<1> HIDE DEF mem, entries
<1>3. CASE p \in DOMAIN cache
  <2>1. m = mem
    BY <1>3 DEF AfterGet, mem
  <2> QED
    BY <2>1, <1>1, <1>3 DEF entries
<1>4. CASE p \notin DOMAIN cache /\ Cardinality(DOMAIN cache) < max_size
               /\ m = Fetched(mem, p)
  <2>1. mem.free # <<>>
    BY <1>1, <1>2, <1>4, FreeLeft DEF entries
  <2> QED
    BY <1>1, <1>4, <2>1, FetchedOnce DEF entries
<1>5. CASE p \notin DOMAIN cache /\ \E q \in DOMAIN cache : m = Fetched(Evicted(mem, q), p)
  <2>1. PICK q \in DOMAIN mem.cache : m = Fetched(Evicted(mem, q), p)
    BY <1>5, <1>1
  <2> DEFINE out == Evicted(mem, q)
  <2>2. /\ Once(out, entries) /\ out.free # <<>>
        /\ DOMAIN out.cache = DOMAIN mem.cache \ {q}
    BY <1>1, EvictedOnce
  <2>3. p \notin DOMAIN out.cache
    BY <2>2, <1>1, <1>5
  <2> HIDE DEF out
  <2>4. Once(Fetched(out, p), entries) /\ p \in DOMAIN Fetched(out, p).cache
    BY <2>2, <2>3, FetchedOnce
  <2> QED
    BY <2>1, <2>4 DEF out, entries
<1>6. \/ p \in DOMAIN cache
      \/ p \notin DOMAIN cache /\ Cardinality(DOMAIN cache) < max_size
            /\ m = Fetched(mem, p)
      \/ p \notin DOMAIN cache /\ \E q \in DOMAIN cache : m = Fetched(Evicted(mem, q), p)
  BY DEF AfterGet, mem
<1> QED
  BY <1>3, <1>4, <1>5, <1>6

\* A pool nobody has used.
LEMMA FreshOnce ==
    ASSUME NEW n \in Nat, NEW m, m.free = [i \in 1..n |-> i], m.cache = Nothing
    PROVE  Once(m, 1..n)
<1> DEFINE free == [i \in 1..n |-> i]
<1>1. free \in Seq(1..n)
  OBVIOUS
<1>2. IsInjective(free) /\ Range(free) = 1..n
  BY DEF IsInjective, Range
<1>3. DOMAIN Nothing = {} /\ Nothing = [p \in {} |-> Nothing[p]]
  BY DEF Nothing
<1>4. IsInjective(Nothing) /\ Range(Nothing) = {}
  BY <1>3 DEF IsInjective, Range
<1> QED
  BY <1>1, <1>2, <1>3, <1>4 DEF Once

LEMMA InitOnce == Init => IInv
<1> SUFFICES ASSUME Init PROVE IInv
  OBVIOUS
<1>1. max_size \in Nat \ {0}
  BY PoolAssumption DEF Init
<1>2. Memory.free = [i \in 1..max_size |-> i] /\ Memory.cache = Nothing
  BY DEF Init, Memory
<1> QED
  BY <1>1, <1>2, FreshOnce DEF IInv

LEMMA NextOnce == IInv /\ [Next \/ FlushToDisk]_vars => IInv'
<1> SUFFICES ASSUME IInv, [Next \/ FlushToDisk]_vars PROVE IInv'
  OBVIOUS
<1>1. ASSUME NEW p \in Pid, Load(p) PROVE IInv'
  <2>1. PICK m \in AfterGet(p) : free_pages' = m.free /\ cache' = m.cache
    BY <1>1 DEF Load
  <2>2. Once(m, 1..max_size) /\ max_size' = max_size
    BY <1>1, GetOnce DEF Load
  <2> QED
    BY <2>1, <2>2 DEF IInv, Memory, Once
<1>2. ASSUME NEW p \in Pid, Commit(p) PROVE IInv'
  <2>1. PICK m \in AfterGet(p) : /\ free_pages' = m.free /\ cache' = m.cache
                                 /\ max_size' = max_size
    BY <1>2 DEF Commit
  <2>2. Once(m, 1..max_size)
    BY GetOnce
  <2> QED
    BY <2>1, <2>2 DEF IInv, Memory, Once
<1>3. CASE Reopen
  <2>1. Memory'.free = [i \in 1..max_size' |-> i] /\ Memory'.cache = Nothing
    BY <1>3 DEF Reopen, Memory
  <2>2. max_size' \in Nat \ {0}
    BY <1>3 DEF Reopen, IInv
  <2> QED
    BY <2>1, <2>2, FreshOnce DEF IInv
<1>4. CASE FlushToDisk
  BY <1>4 DEF FlushToDisk, memory, IInv, Memory, Once
<1>5. CASE UNCHANGED vars
  BY <1>5 DEF vars, IInv, Memory, Once
<1> QED
  BY <1>1, <1>2, <1>3, <1>4, <1>5 DEF Next

LEMMA OncePartitions == IInv => PoolPartitioned
BY DEF IInv, Once, Memory, PoolPartitioned

\* Whatever the size of the pool and however often pages are evicted, read
\* back, stored and opened again, every entry is free once or holds one page:
\* Get always finds a free one after evictDeltaPage, and never one in use.
THEOREM EntriesPartitioned == Spec => []PoolPartitioned
<1>1. IInv /\ [Next]_vars => IInv'
  BY NextOnce
<1> QED
  BY <1>1, InitOnce, OncePartitions, PTL DEF Spec

\* So too when Flush writes the pool out in between.
THEOREM EntriesPartitionedByFlush == SpecFlush => []PoolPartitioned
<1> QED
  BY NextOnce, InitOnce, OncePartitions, PTL DEF SpecFlush

-----------------------------------------------------------------------------
(* Induction over the natural numbers *)

\* Every set of natural numbers has a least element.
LEMMA LeastElement ==
    ASSUME NEW T \in SUBSET Nat, T # {}
    PROVE  \E x \in T : \A y \in T : x <= y
<1> DEFINE R == OpToRel(<, Nat)
<1>1. IsWellFoundedOn(R, Nat)
  BY NatLessThanWellFounded
<1>2. \A x, y \in Nat : y < x => <<y, x>> \in R
  BY DEF OpToRel
<1> HIDE DEF R
<1>3. PICK x \in T : \A y \in T : ~ (<<y, x>> \in R)
  BY <1>1, WFMin
<1>4. \A y \in T : ~ (y < x)
  BY <1>2, <1>3
<1> QED
  BY <1>4

\* A set of natural numbers with a bound has a greatest element.
LEMMA GreatestElement ==
    ASSUME NEW n \in Nat, NEW T \in SUBSET (0..n), T # {}
    PROVE  \E x \in T : \A y \in T : y <= x
<1> DEFINE U == {k \in Nat : n - k \in T}
<1>1. U # {}
  <2>1. PICK x \in T : TRUE
    OBVIOUS
  <2>2. x \in 0..n
    BY <2>1
  <2>3. n - x \in Nat /\ n - (n - x) = x
    BY <2>2
  <2>4. n - x \in U
    BY <2>1, <2>3
  <2> QED
    BY <2>4
<1>2. PICK k \in U : \A j \in U : k <= j
  BY <1>1, LeastElement
<1>3. n - k \in T /\ k \in Nat
  BY <1>2
<1>4. ASSUME NEW y \in T PROVE y <= n - k
  <2>1. y \in 0..n
    OBVIOUS
  <2>2. n - y \in Nat /\ n - (n - y) = y
    BY <2>1
  <2>3. n - y \in U
    BY <2>2
  <2>4. k <= n - y
    BY <1>2, <2>3
  <2> QED
    BY <1>3, <2>1, <2>2, <2>4
<1> QED
  BY <1>3, <1>4

\* A set that holds 0 and with every number up to n the next one.
LEMMA CountUp ==
    ASSUME NEW n \in Nat, NEW S, 0 \in S, \A i \in 0..n : i \in S /\ i < n => i + 1 \in S
    PROVE  n \in S
<1> SUFFICES ASSUME n \notin S PROVE FALSE
  OBVIOUS
<1> DEFINE T == {i \in 0..n : i \notin S}
<1>1. T \in SUBSET Nat /\ T # {}
  OBVIOUS
<1>2. PICK k \in T : \A j \in T : k <= j
  BY <1>1, LeastElement
<1>3. k # 0 /\ k \in 0..n /\ k \notin S
  BY <1>2
<1>4. k - 1 \in 0..n /\ k - 1 \notin T /\ (k - 1) + 1 = k /\ k - 1 < n
  BY <1>2, <1>3
<1> QED
  BY <1>3, <1>4

-----------------------------------------------------------------------------
(* Pages in the file *)

Contents(p) == [pid |-> p, updates |-> stored[p]]

\* The units at an offset that tell a page.
Holds(f, offset, pg) ==
    \A i \in 1..(PageUnits - 1) : f[offset + i] = [kind |-> "page", page |-> pg, unit |-> i]

LEMMA MaxOfTwo ==
    ASSUME NEW a \in Nat, NEW b \in Nat
    PROVE  Max({a, b}) = IF a >= b THEN a ELSE b
<1>1. CASE a >= b
  BY <1>1 DEF Max
<1>2. CASE ~ (a >= b)
  BY <1>2 DEF Max
<1> QED
  BY <1>1, <1>2

LEMMA ImageUnits ==
    ASSUME NEW pg \in Page
    PROVE  /\ \A i \in 1..PageUnits : Image(pg)[i] \in Unit
           /\ \A i \in 1..(PageUnits - 1) : Image(pg)[i] = [kind |-> "page", page |-> pg, unit |-> i]
           /\ Image(pg)[PageUnits] = Zero
<1>1. \A i \in 1..(PageUnits - 1) : i \in 1..PageUnits /\ i # PageUnits
  BY PageAssumption
<1>2. PageUnits \in 1..PageUnits
  BY PageAssumption
<1>3. \A i \in 1..(PageUnits - 1) : Image(pg)[i] = [kind |-> "page", page |-> pg, unit |-> i]
  BY <1>1 DEF Image
<1>4. Image(pg)[PageUnits] = Zero
  BY <1>2 DEF Image
<1>5. Zero \in Unit
  BY DEF Zero, Unit
<1>6. \A i \in 1..(PageUnits - 1) : [kind |-> "page", page |-> pg, unit |-> i] \in Unit
  BY DEF Unit
<1>7. \A i \in 1..PageUnits : i = PageUnits \/ i \in 1..(PageUnits - 1)
  BY PageAssumption
<1> QED
  BY <1>3, <1>4, <1>5, <1>6, <1>7

\* Writing a page that leaves no hole.
LEMMA PageWritten ==
    ASSUME NEW f \in Seq(Unit), NEW offset \in 0..Len(f), NEW pg \in Page
    PROVE  LET g == WrittenAt(f, offset, pg) IN
           /\ g \in Seq(Unit)
           /\ Len(g) = IF Len(f) >= offset + PageUnits THEN Len(f) ELSE offset + PageUnits
           /\ Holds(g, offset, pg)
           /\ g[offset + PageUnits] = Zero
           /\ \A i \in 1..Len(f) : i <= offset \/ i > offset + PageUnits => g[i] = f[i]
<1> DEFINE g == WrittenAt(f, offset, pg)
           n == IF Len(f) >= offset + PageUnits THEN Len(f) ELSE offset + PageUnits
           unit(i) == IF i - offset \in 1..PageUnits THEN Image(pg)[i - offset]
                      ELSE IF i <= Len(f) THEN f[i] ELSE Zero
<1>1. Len(f) \in Nat /\ offset \in Nat /\ offset <= Len(f) /\ PageUnits \in Nat /\ PageUnits >= 2
  BY PageAssumption, LenProperties
<1>2. n \in Nat /\ Max({Len(f), offset + PageUnits}) = n
  BY <1>1, MaxOfTwo
<1>3. g = [i \in 1..n |-> unit(i)]
  BY <1>2 DEF WrittenAt
<1>4. \A i \in 1..n : unit(i) \in Unit
  <2>1. \A i \in 1..Len(f) : f[i] \in Unit
    BY ElementOfSeq
  <2>2. Zero \in Unit
    BY DEF Zero, Unit
  <2> TAKE i \in 1..n
  <2>3. CASE i - offset \in 1..PageUnits
    <3>1. Image(pg)[i - offset] \in Unit
      BY <2>3, ImageUnits
    <3> QED
      BY <2>3, <3>1
  <2>4. CASE ~ (i - offset \in 1..PageUnits)
    BY <1>1, <2>1, <2>2, <2>4
  <2> QED
    BY <2>3, <2>4
<1> HIDE DEF n, g
<1>5. Len(g) = n /\ \A i \in 1..n : g[i] = unit(i)
  BY <1>2, <1>3
<1>6. g \in Seq(Unit)
  BY <1>2, <1>3, <1>4
<1>7. \A i \in 1..PageUnits : g[offset + i] = Image(pg)[i]
  <2> TAKE i \in 1..PageUnits
  <2>1. offset + i \in 1..n /\ (offset + i) - offset = i
    BY <1>1 DEF n
  <2> QED
    BY <1>5, <2>1
<1>8. \A i \in 1..(PageUnits - 1) : i \in 1..PageUnits
  BY <1>1
<1>9. Holds(g, offset, pg)
  BY <1>7, <1>8, ImageUnits DEF Holds
<1>10. g[offset + PageUnits] = Zero
  BY <1>1, <1>7, ImageUnits
<1>11. \A i \in 1..Len(f) : i <= offset \/ i > offset + PageUnits => g[i] = f[i]
  <2> SUFFICES ASSUME NEW i \in 1..Len(f), i <= offset \/ i > offset + PageUnits
               PROVE  g[i] = f[i]
    OBVIOUS
  <2>1. i \in 1..n /\ ~ (i - offset \in 1..PageUnits) /\ i <= Len(f)
    BY <1>1 DEF n
  <2> QED
    BY <1>5, <2>1
<1> QED
  BY <1>5, <1>6, <1>9, <1>10, <1>11 DEF g, n

\* A page stays in the file when the units that hold it do.
LEMMA HoldsOn ==
    ASSUME NEW f, NEW g, NEW offset \in Nat, NEW pg, Holds(f, offset, pg),
           \A i \in (offset + 1)..(offset + PageUnits - 1) : g[i] = f[i]
    PROVE  Holds(g, offset, pg)
<1> SUFFICES ASSUME NEW i \in 1..(PageUnits - 1)
             PROVE  g[offset + i] = [kind |-> "page", page |-> pg, unit |-> i]
  BY DEF Holds
<1>1. offset + i \in (offset + 1)..(offset + PageUnits - 1)
  BY PageAssumption
<1>2. f[offset + i] = [kind |-> "page", page |-> pg, unit |-> i]
  BY DEF Holds
<1> QED
  BY <1>1, <1>2

\* A page in the file is read back.
LEMMA PageRead ==
    ASSUME file \in Seq(Unit), NEW offset \in Nat, NEW pg \in Page,
           offset + PageUnits <= Len(file), Holds(file, offset, pg)
    PROVE  PageAt(offset) = pg
<1> DEFINE units == SubSeq(file, offset + 1, offset + PageUnits - 1)
           found == {x \in Page : units = Front(Image(x))}
<1>1. Len(file) \in Nat /\ PageUnits \in Nat /\ PageUnits >= 2
  BY PageAssumption, LenProperties
<1>2. \A i \in (offset + 1)..(offset + PageUnits - 1) : file[i] \in Unit
  <2> TAKE i \in (offset + 1)..(offset + PageUnits - 1)
  <2>1. i \in 1..Len(file)
    BY <1>1
  <2> QED
    BY <2>1, ElementOfSeq
<1>3. /\ units \in Seq(Unit) /\ Len(units) = PageUnits - 1
      /\ \A i \in 1..(PageUnits - 1) : units[i] = file[offset + i]
  <2> DEFINE a == offset + 1
             b == offset + PageUnits - 1
  <2>1. a \in Int /\ b \in Int /\ a <= b /\ b - a + 1 = PageUnits - 1
        /\ \A i \in 1..(PageUnits - 1) : a + i - 1 = offset + i
    BY <1>1
  <2>2. \A i \in a..b : file[i] \in Unit
    BY <1>2
  <2> HIDE DEF a, b
  <2>3. /\ SubSeq(file, a, b) \in Seq(Unit) /\ Len(SubSeq(file, a, b)) = b - a + 1
        /\ \A i \in 1..(b - a + 1) : SubSeq(file, a, b)[i] = file[a + i - 1]
    BY <2>1, <2>2, SubSeqProperties
  <2> QED
    BY <2>1, <2>3 DEF a, b
<1> HIDE DEF units
<1>4. \A x \in Page : /\ Front(Image(x)) \in Seq(Unit)
                      /\ Len(Front(Image(x))) = PageUnits - 1
                      /\ \A i \in 1..(PageUnits - 1) : Front(Image(x))[i] = Image(x)[i]
  <2> TAKE x \in Page
  <2> DEFINE image == Image(x)
             n == PageUnits - 1
  <2>1. n \in Int /\ n >= 1 /\ 1 \in Int /\ n - 1 + 1 = n /\ \A i \in 1..n : 1 + i - 1 = i
    BY <1>1
  <2>2. Len(image) = PageUnits
    BY <1>1 DEF Image
  <2>3. \A i \in 1..n : image[i] \in Unit
    BY <1>1, ImageUnits
  <2> HIDE DEF image, n
  <2>4. /\ SubSeq(image, 1, n) \in Seq(Unit) /\ Len(SubSeq(image, 1, n)) = n - 1 + 1
        /\ \A i \in 1..(n - 1 + 1) : SubSeq(image, 1, n)[i] = image[1 + i - 1]
    BY <2>1, <2>3, SubSeqProperties
  <2>5. Front(image) = SubSeq(image, 1, n)
    BY <2>2 DEF Front, n
  <2>6. /\ Front(image) \in Seq(Unit) /\ Len(Front(image)) = n
        /\ \A i \in 1..n : Front(image)[i] = image[i]
    BY <2>1, <2>4, <2>5
  <2> QED
    BY <2>6 DEF image, n
<1>5. pg \in found
  <2>1. ASSUME NEW i \in 1..(PageUnits - 1) PROVE units[i] = Front(Image(pg))[i]
    <3>1. units[i] = [kind |-> "page", page |-> pg, unit |-> i]
      BY <1>3 DEF Holds
    <3>2. Front(Image(pg))[i] = Image(pg)[i]
      BY <1>4
    <3>3. Image(pg)[i] = [kind |-> "page", page |-> pg, unit |-> i]
      BY ImageUnits
    <3> QED
      BY <3>1, <3>2, <3>3
  <2> DEFINE front == Front(Image(pg))
  <2>2. front \in Seq(Unit) /\ Len(front) = Len(units) /\ Len(units) = PageUnits - 1
        /\ \A i \in 1..(PageUnits - 1) : units[i] = front[i]
    BY <1>3, <1>4, <2>1
  <2> HIDE DEF front
  <2>3. units = front
    BY <1>3, <2>2, SeqEqual
  <2> QED
    BY <2>3 DEF front
<1>6. ASSUME NEW x \in found PROVE x = pg
  <2>1. 1 \in 1..(PageUnits - 1)
    BY <1>1
  <2>2. Image(x)[1] = Image(pg)[1]
    <3>1. Front(Image(x)) = Front(Image(pg))
      BY <1>5
    <3>2. Front(Image(x))[1] = Image(x)[1] /\ Front(Image(pg))[1] = Image(pg)[1]
      BY <1>4, <2>1
    <3> QED
      BY <3>1, <3>2
  <2>3. [kind |-> "page", page |-> x, unit |-> 1] = [kind |-> "page", page |-> pg, unit |-> 1]
    BY <2>1, <2>2, ImageUnits
  <2>4. [kind |-> "page", page |-> x, unit |-> 1].page
          = [kind |-> "page", page |-> pg, unit |-> 1].page
    BY <2>3
  <2> QED
    BY <2>4
<1>7. (CHOOSE x \in found : TRUE) = pg
  BY <1>5, <1>6
<1>8. PageAt(offset) = CHOOSE x \in found : TRUE
  <2>1. found # {}
    BY <1>5
  <2> QED
    BY <1>1, <2>1 DEF PageAt, units
<1> QED
  BY <1>7, <1>8

-----------------------------------------------------------------------------
(* What holds of the pool and the file between two calls *)

\* An index block takes no more units than a page: a page written over it
\* leaves none of it.
IndexFits == IsFiniteSet(Pid) /\ Cardinality(Pid) <= PageUnits

Typed ==
    /\ max_size \in PoolSizes
    /\ page_pool \in [1..max_size -> Page \cup {NoPage}]
    /\ DOMAIN cache \subseteq Pid
    /\ DOMAIN pid_to_offset \subseteq Pid
    /\ pid_to_offset \in [DOMAIN pid_to_offset -> Nat]
    /\ file \in Seq(Unit)
    /\ stored \in [Pid -> 0..MaxUpdates]

\* Where an index block starts, or the file ends.
FileEnd(f) == IF f = <<>> THEN 0 ELSE Len(f) - IndexLength(f)

PoolHolds == \A p \in DOMAIN cache : page_pool[cache[p]] = Contents(p)

FileHolds ==
    \A p \in DOMAIN pid_to_offset :
        /\ pid_to_offset[p] + PageUnits <= FileEnd(file)
        /\ Holds(file, pid_to_offset[p], Contents(p))

Unstored == \A p \in Pid \ DOMAIN pid_to_offset : stored[p] = 0

LengthUnit(n) == [kind |-> "length", units |-> n]

\* An index block at the end of the file is as long as there are offsets.
IndexLast ==
    file # <<>> => \/ Last(file) = Zero
                   \/ Last(file) = LengthUnit(Cardinality(DOMAIN pid_to_offset))

\* The next batch starts where the pages end, so that it covers the index.
BatchBehind == FileEnd(file) <= IF pid_to_offset = Nothing THEN 1 ELSE BatchStart

CInv == /\ IInv /\ Typed /\ PoolHolds /\ FileHolds /\ OffsetsApart /\ Unstored
        /\ IndexLast /\ BatchBehind

LEMMA ContentsType ==
    ASSUME Typed, NEW p \in Pid
    PROVE  Contents(p) \in Page
BY DEF Typed, Contents, Page

LEMMA LastUnit ==
    ASSUME NEW f, f # <<>>, NEW n, Last(f) = Zero \/ Last(f) = LengthUnit(n)
    PROVE  IndexLength(f) = IF Last(f) = Zero THEN 0 ELSE n
<1>1. Zero.kind = "zero" /\ LengthUnit(n).kind = "length" /\ LengthUnit(n).units = n
  BY DEF Zero, LengthUnit
<1>2. CASE Last(f) = Zero
  BY <1>1, <1>2 DEF IndexLength
<1>3. CASE Last(f) = LengthUnit(n)
  BY <1>1, <1>3 DEF IndexLength
<1> QED
  BY <1>2, <1>3

LEMMA OffsetsFinite ==
    ASSUME IndexFits, NEW D \in SUBSET Pid
    PROVE  IsFiniteSet(D) /\ Cardinality(D) \in 0..PageUnits /\ Cardinality(D) \in 0..Cardinality(Pid)
<1>1. IsFiniteSet(D) /\ Cardinality(D) <= Cardinality(Pid)
  BY FS_Subset DEF IndexFits
<1>2. Cardinality(D) \in Nat /\ Cardinality(Pid) \in Nat
  BY <1>1, FS_CardinalityType DEF IndexFits
<1> QED
  BY <1>1, <1>2, PageAssumption DEF IndexFits

\* Where the pages of the file end.
LEMMA FileEnds ==
    ASSUME IndexFits, Typed, IndexLast
    PROVE  /\ FileEnd(file) \in Int /\ Len(file) \in Nat
           /\ FileEnd(file) <= Len(file)
           /\ Len(file) <= FileEnd(file) + Cardinality(DOMAIN pid_to_offset)
           /\ Cardinality(DOMAIN pid_to_offset) \in 0..PageUnits
<1>1. Len(file) \in Nat /\ (file = <<>> => Len(file) = 0)
  BY DEF Typed
<1>2. Cardinality(DOMAIN pid_to_offset) \in 0..PageUnits
  BY OffsetsFinite DEF Typed
<1>3. CASE file = <<>>
  BY <1>1, <1>2, <1>3, PageAssumption DEF FileEnd
<1>4. CASE file # <<>>
  <2>1. IndexLength(file) \in {0, Cardinality(DOMAIN pid_to_offset)}
    BY <1>4, LastUnit DEF IndexLast
  <2>2. FileEnd(file) = Len(file) - IndexLength(file)
    BY <1>4 DEF FileEnd
  <2> QED
    BY <1>1, <1>2, <2>1, <2>2, PageAssumption
<1> QED
  BY <1>3, <1>4

\* What the file holds is what readFromDisk returns.
LEMMA ReadBack ==
    ASSUME IndexFits, CInv, NEW p \in Pid
    PROVE  FromDisk(p) = Contents(p)
<1>1. CASE p \in DOMAIN pid_to_offset
  <2>1. /\ pid_to_offset[p] \in Nat /\ Holds(file, pid_to_offset[p], Contents(p))
        /\ pid_to_offset[p] + PageUnits <= FileEnd(file)
    BY <1>1 DEF CInv, FileHolds, Typed
  <2>2. FileEnd(file) \in Int /\ Len(file) \in Nat /\ FileEnd(file) <= Len(file)
    BY FileEnds DEF CInv
  <2>3. pid_to_offset[p] + PageUnits <= Len(file)
    BY <2>1, <2>2, PageAssumption
  <2>4. file \in Seq(Unit) /\ Contents(p) \in Page
    BY ContentsType DEF CInv, Typed
  <2> DEFINE offset == pid_to_offset[p]
             pg == Contents(p)
  <2>5. /\ offset \in Nat /\ pg \in Page /\ offset + PageUnits <= Len(file)
        /\ Holds(file, offset, pg)
    BY <2>1, <2>3, <2>4
  <2> HIDE DEF offset, pg
  <2>6. PageAt(offset) = pg
    BY <2>4, <2>5, PageRead
  <2> QED
    BY <1>1, <2>6 DEF FromDisk, offset, pg
<1>2. CASE p \notin DOMAIN pid_to_offset
  BY <1>2 DEF CInv, Unstored, FromDisk, NewPage, Contents
<1> QED
  BY <1>1, <1>2

-----------------------------------------------------------------------------
(* Getting a page *)

\* PoolHolds of any state m of memory.
MemHolds(m) ==
    /\ m.pool \in [1..max_size -> Page \cup {NoPage}]
    /\ DOMAIN m.cache \subseteq Pid
    /\ \A q \in DOMAIN m.cache : m.pool[m.cache[q]] = Contents(q)

LEMMA EvictedHolds ==
    ASSUME Typed, NEW m, Once(m, 1..max_size), MemHolds(m), NEW q \in DOMAIN m.cache
    PROVE  MemHolds(Evicted(m, q))
<1> DEFINE pool == m.pool
           c == m.cache
           pool1 == [pool EXCEPT ![c[q]].updates = 0]
           c1 == [p \in DOMAIN c \ {q} |-> c[p]]
<1>1. Evicted(m, q).pool = pool1 /\ Evicted(m, q).cache = c1
  BY DEF Evicted, Restrict
<1>2. pool \in [1..max_size -> Page \cup {NoPage}] /\ DOMAIN c \subseteq Pid /\ q \in Pid
      /\ \A p \in DOMAIN c : pool[c[p]] = Contents(p)
  BY DEF MemHolds
<1>3. IsInjective(c) /\ Range(c) \subseteq 1..max_size
  BY DEF Once
<1>4. \A p \in DOMAIN c : c[p] \in 1..max_size /\ (p # q => c[p] # c[q])
  BY <1>3 DEF IsInjective, Range
<1>5. pool[c[q]] \in Page
  BY <1>2, ContentsType
<1> HIDE DEF pool, c
<1>6. pool1 = [pool EXCEPT ![c[q]] = [pool[c[q]] EXCEPT !.updates = 0]]
  OBVIOUS
<1>7. [pool[c[q]] EXCEPT !.updates = 0] \in Page
  BY <1>5, UpdatesAssumption DEF Page
<1>8. pool1 \in [1..max_size -> Page \cup {NoPage}]
  BY <1>2, <1>6, <1>7
<1>9. \A p \in DOMAIN c \ {q} : pool1[c[p]] = pool[c[p]]
  BY <1>2, <1>4, <1>6
<1>10. \A p \in DOMAIN c1 : pool1[c1[p]] = Contents(p)
  BY <1>2, <1>9
<1>11. DOMAIN c1 \subseteq Pid
  BY <1>2
<1> HIDE DEF pool1, c1
<1> QED
  BY <1>1, <1>8, <1>10, <1>11 DEF MemHolds

LEMMA FetchedHolds ==
    ASSUME Typed, NEW m, Once(m, 1..max_size), MemHolds(m), m.free # <<>>,
           NEW p \in Pid, p \notin DOMAIN m.cache, FromDisk(p) = Contents(p)
    PROVE  MemHolds(Fetched(m, p))
<1> DEFINE pool == m.pool
           c == m.cache
           e == Head(m.free)
           pool1 == [pool EXCEPT ![e] = FromDisk(p)]
           c1 == [q \in DOMAIN c \cup {p} |-> IF q = p THEN e ELSE c[q]]
<1>1. Fetched(m, p).pool = pool1 /\ Fetched(m, p).cache = c1
  BY DEF Fetched
<1>2. pool \in [1..max_size -> Page \cup {NoPage}] /\ DOMAIN c \subseteq Pid
      /\ \A q \in DOMAIN c : pool[c[q]] = Contents(q)
  BY DEF MemHolds
<1>3. e \in 1..max_size /\ e \in Range(m.free)
  <2>1. m.free \in Seq(1..max_size) /\ m.free # <<>>
    BY DEF Once
  <2>2. 1 \in DOMAIN m.free /\ e = m.free[1]
    BY <2>1
  <2>3. e \in Range(m.free)
    BY <2>2 DEF Range
  <2>4. Range(m.free) \subseteq 1..max_size
    BY DEF Once
  <2> QED
    BY <2>3, <2>4
<1>4. \A q \in DOMAIN c : c[q] \in 1..max_size /\ c[q] # e
  BY <1>3 DEF Once, Range
<1>5. FromDisk(p) \in Page
  BY ContentsType
<1> HIDE DEF pool, c, e
<1>6. pool1 \in [1..max_size -> Page \cup {NoPage}]
  BY <1>2, <1>5
<1>7. pool1[e] = Contents(p) /\ \A q \in DOMAIN c : pool1[c[q]] = pool[c[q]]
  BY <1>2, <1>3, <1>4
<1>8. DOMAIN c1 \subseteq Pid
  BY <1>2
<1> HIDE DEF pool1
<1>9. \A q \in DOMAIN c1 : pool1[c1[q]] = Contents(q)
  BY <1>2, <1>7
<1> HIDE DEF c1
<1> QED
  BY <1>1, <1>6, <1>8, <1>9 DEF MemHolds

\* Get returns the page as it was stored last, whatever it evicts for it.
LEMMA GetHolds ==
    ASSUME IndexFits, CInv, NEW p \in Pid, NEW m \in AfterGet(p)
    PROVE  MemHolds(m) /\ p \in DOMAIN m.cache
<1> DEFINE mem == Memory
<1>1. /\ IInv /\ Typed /\ Once(mem, 1..max_size) /\ MemHolds(mem) /\ mem.cache = cache
      /\ max_size \in Nat /\ FromDisk(p) = Contents(p)
  BY ReadBack DEF CInv, IInv, Typed, PoolHolds, MemHolds, Memory
<1>2. p \in DOMAIN m.cache
  BY <1>1, GetOnce
<1>3. IsFiniteSet(DOMAIN mem.cache)
  BY <1>1, OffsetsFinite DEF Typed
<1> HIDE DEF mem
<1>4. CASE m = mem
  BY <1>1, <1>2, <1>4
<1>5. CASE p \notin DOMAIN cache /\ Cardinality(DOMAIN cache) < max_size
               /\ m = Fetched(mem, p)
  <2>1. mem.free # <<>>
    BY <1>1, <1>3, <1>5, FreeLeft
  <2> QED
    BY <1>1, <1>2, <1>5, <2>1, FetchedHolds
<1>6. CASE p \notin DOMAIN cache /\ \E q \in DOMAIN cache : m = Fetched(Evicted(mem, q), p)
  <2>1. PICK q \in DOMAIN mem.cache : m = Fetched(Evicted(mem, q), p)
    BY <1>6, <1>1
  <2> DEFINE out == Evicted(mem, q)
  <2>2. /\ Once(out, 1..max_size) /\ out.free # <<>> /\ MemHolds(out)
        /\ p \notin DOMAIN out.cache
    BY <1>1, <1>6, EvictedOnce, EvictedHolds
  <2> HIDE DEF out
  <2>3. MemHolds(Fetched(out, p))
    BY <1>1, <2>2, FetchedHolds
  <2> QED
    BY <1>2, <2>1, <2>3 DEF out
<1>7. \/ m = mem
      \/ p \notin DOMAIN cache /\ Cardinality(DOMAIN cache) < max_size
            /\ m = Fetched(mem, p)
      \/ p \notin DOMAIN cache /\ \E q \in DOMAIN cache : m = Fetched(Evicted(mem, q), p)
  BY DEF AfterGet, mem
<1> QED
  BY <1>4, <1>5, <1>6, <1>7

-----------------------------------------------------------------------------
(* Storing a page *)

StartOf(offsets) == IF offsets = Nothing THEN 0 ELSE Max(Range(offsets)) + PageUnits

\* A batch starts behind every page that has an offset, and right behind one.
LEMMA StartFacts ==
    ASSUME NEW o, o \in [DOMAIN o -> Nat], NEW n \in Nat, \A p \in DOMAIN o : o[p] <= n
    PROVE  /\ StartOf(o) \in Nat
           /\ \A p \in DOMAIN o : o[p] + PageUnits <= StartOf(o)
           /\ o # Nothing => \E p \in DOMAIN o : StartOf(o) = o[p] + PageUnits
           /\ o = Nothing <=> DOMAIN o = {}
<1>1. o = Nothing <=> DOMAIN o = {}
  BY DEF Nothing
<1>2. CASE o = Nothing
  BY <1>1, <1>2 DEF StartOf
<1>3. CASE o # Nothing
  <2> DEFINE T == Range(o)
  <2>1. T \in SUBSET (0..n) /\ T # {}
    <3>1. PICK p \in DOMAIN o : TRUE
      BY <1>1, <1>3
    <3>2. o[p] \in T
      BY DEF Range
    <3>3. ASSUME NEW x \in T PROVE x \in 0..n
      <4>1. PICK q \in DOMAIN o : x = o[q]
        BY DEF Range
      <4>2. o[q] \in Nat /\ o[q] <= n
        OBVIOUS
      <4> QED
        BY <4>1, <4>2
    <3> QED
      BY <3>2, <3>3
  <2> HIDE DEF T
  <2>2. PICK x \in T : \A y \in T : y <= x
    BY <2>1, GreatestElement
  <2>3. \A y \in T : y \in Nat
    BY <2>1
  <2>4. Max(T) \in T /\ \A y \in T : y <= Max(T)
    <3>1. \E z \in T : \A y \in T : z >= y
      BY <2>2, <2>3
    <3>2. Max(T) \in T /\ \A y \in T : Max(T) >= y
      BY <3>1 DEF Max
    <3> QED
      BY <2>3, <3>2
  <2>5. StartOf(o) = Max(T) + PageUnits
    BY <1>3 DEF StartOf, T
  <2>6. PICK p \in DOMAIN o : Max(T) = o[p]
    BY <2>4 DEF T, Range
  <2>7. \A q \in DOMAIN o : o[q] <= Max(T)
    BY <2>4 DEF T, Range
  <2>8. Max(T) \in Nat
    BY <2>3, <2>4
  <2> HIDE DEF StartOf
  <2>9. \A q \in DOMAIN o : o[q] + PageUnits <= StartOf(o)
    BY <2>5, <2>7, <2>8, PageAssumption
  <2>10. StartOf(o) \in Nat /\ StartOf(o) = o[p] + PageUnits
    BY <2>5, <2>6, <2>8, PageAssumption
  <2> QED
    BY <1>1, <1>3, <2>6, <2>9, <2>10
<1> QED
  BY <1>2, <1>3

\* Every page known to be in the file ends before the file does.
LEMMA OffsetsBounded ==
    ASSUME IndexFits, CInv
    PROVE  /\ \A p \in DOMAIN pid_to_offset :
                 /\ pid_to_offset[p] \in Nat
                 /\ pid_to_offset[p] + PageUnits <= FileEnd(file)
                 /\ pid_to_offset[p] + PageUnits <= Len(file)
                 /\ pid_to_offset[p] <= Len(file)
<1> SUFFICES ASSUME NEW p \in DOMAIN pid_to_offset
             PROVE  /\ pid_to_offset[p] \in Nat
                    /\ pid_to_offset[p] + PageUnits <= FileEnd(file)
                    /\ pid_to_offset[p] + PageUnits <= Len(file)
                    /\ pid_to_offset[p] <= Len(file)
  OBVIOUS
<1>1. FileEnd(file) \in Int /\ Len(file) \in Nat /\ FileEnd(file) <= Len(file)
  BY FileEnds DEF CInv
<1>2. pid_to_offset[p] \in Nat /\ pid_to_offset[p] + PageUnits <= FileEnd(file)
  BY DEF CInv, Typed, FileHolds
<1> QED
  BY <1>1, <1>2, PageAssumption

LEMMA OffsetType ==
    ASSUME IndexFits, CInv, NEW p \in Pid
    PROVE  OffsetOf(p) \in 0..Len(file)
<1>1. Len(file) \in Nat
  BY DEF CInv, Typed
<1> QED
  BY <1>1, OffsetsBounded DEF OffsetOf

\* Commit, seen from the file: page p gets new contents at its offset.
LEMMA CommitFile ==
    ASSUME IndexFits, CInv, NEW p \in Pid, Contents(p)' \in Page,
           \A q \in Pid : q # p => Contents(q)' = Contents(q),
           pid_to_offset' = [q \in DOMAIN pid_to_offset \cup {p} |-> OffsetOf(q)],
           file' = WrittenAt(file, OffsetOf(p), Contents(p)')
    PROVE  /\ file' \in Seq(Unit)
           /\ DOMAIN pid_to_offset' \subseteq Pid
           /\ pid_to_offset' \in [DOMAIN pid_to_offset' -> Nat]
           /\ (FileHolds /\ OffsetsApart /\ IndexLast /\ BatchBehind)'
<1> DEFINE at == OffsetOf(p)
           pg == Contents(p)'
           o == pid_to_offset
           o1 == pid_to_offset'
           f == file
           g == file'
<1>1. /\ at \in 0..Len(f) /\ Len(f) \in Nat /\ PageUnits \in Nat /\ PageUnits >= 2
      /\ f \in Seq(Unit) /\ pg \in Page /\ g = WrittenAt(f, at, pg)
  BY OffsetType, PageAssumption DEF CInv, Typed
<1>2. /\ DOMAIN o1 = DOMAIN o \cup {p} /\ o1[p] = at
      /\ \A q \in DOMAIN o : o1[q] = o[q] /\ o[q] \in Nat
                              /\ o[q] + PageUnits <= FileEnd(f) /\ o[q] + PageUnits <= Len(f)
  BY OffsetsBounded DEF OffsetOf
<1>3. DOMAIN o \subseteq Pid /\ o \in [DOMAIN o -> Nat]
  BY DEF CInv, Typed
<1>4. /\ FileEnd(f) \in Int /\ FileEnd(f) <= Len(f)
      /\ Len(f) <= FileEnd(f) + Cardinality(DOMAIN o)
      /\ Cardinality(DOMAIN o) \in 0..PageUnits
  BY FileEnds DEF CInv
<1>5. o1 \in [DOMAIN o1 -> Nat] /\ DOMAIN o1 \subseteq Pid
  <2>1. o1 = [q \in DOMAIN o1 |-> o1[q]]
    OBVIOUS
  <2>2. \A q \in DOMAIN o1 : o1[q] \in Nat
    BY <1>1, <1>2
  <2> QED
    BY <1>2, <1>3, <2>1, <2>2
<1>6. p \in DOMAIN o \/ at = Len(f)
  BY DEF OffsetOf
<1>7. p \in DOMAIN o => at = o[p]
  BY DEF OffsetOf
<1>8. \A q \in DOMAIN o : q # p => o[q] + PageUnits <= at \/ at + PageUnits <= o[q]
  <2> SUFFICES ASSUME NEW q \in DOMAIN o, q # p
               PROVE  o[q] + PageUnits <= at \/ at + PageUnits <= o[q]
    OBVIOUS
  <2>1. CASE p \in DOMAIN o
    BY <1>7, <2>1 DEF CInv, OffsetsApart
  <2>2. CASE at = Len(f)
    BY <1>2, <2>2
  <2> QED
    BY <1>6, <2>1, <2>2
<1>9. \A q \in Pid : q # p => Contents(q)' = Contents(q)
  OBVIOUS
<1>10. \A q \in DOMAIN o : Holds(f, o[q], Contents(q))
  BY DEF CInv, FileHolds
<1>11. IndexLast /\ BatchBehind
  BY DEF CInv
<1>12. BatchStart = StartOf(o) /\ BatchStart' = StartOf(o1)
  BY DEF BatchStart, StartOf
<1> HIDE DEF at, pg, f, o, o1, g
<1>13. /\ g \in Seq(Unit)
       /\ Len(g) = IF Len(f) >= at + PageUnits THEN Len(f) ELSE at + PageUnits
       /\ Holds(g, at, pg)
       /\ g[at + PageUnits] = Zero
       /\ \A i \in 1..Len(f) : i <= at \/ i > at + PageUnits => g[i] = f[i]
  BY <1>1, PageWritten
<1>14. Len(g) \in Nat /\ g # <<>>
  <2>1. Len(g) \in Nat /\ Len(g) > 0
    BY <1>1, <1>13
  <2> QED
    BY <2>1
<1>15. \A q \in DOMAIN o : q # p => Holds(g, o1[q], Contents(q)')
  <2> SUFFICES ASSUME NEW q \in DOMAIN o, q # p PROVE Holds(g, o[q], Contents(q))
    BY <1>2, <1>3, <1>9
  <2> DEFINE b == o[q]
             x == Contents(q)
  <2>1. b \in Nat /\ b + PageUnits <= Len(f) /\ (b + PageUnits <= at \/ at + PageUnits <= b)
        /\ Holds(f, b, x)
    BY <1>2, <1>8, <1>10
  <2> HIDE DEF b, x
  <2>2. \A i \in (b + 1)..(b + PageUnits - 1) : g[i] = f[i]
    <3> TAKE i \in (b + 1)..(b + PageUnits - 1)
    <3>1. i \in 1..Len(f) /\ (i <= at \/ i > at + PageUnits)
      BY <1>1, <2>1
    <3> QED
      BY <1>13, <3>1
  <2>3. Holds(g, b, x)
    BY <2>1, <2>2, HoldsOn
  <2> QED
    BY <2>3 DEF b, x
<1>16. \/ /\ FileEnd(g) = FileEnd(f) /\ p \in DOMAIN o /\ Last(g) = Last(f) /\ f # <<>>
       \/ FileEnd(g) = at + PageUnits /\ Last(g) = Zero /\ FileEnd(f) <= at + PageUnits
  <2>1. CASE at + PageUnits < Len(f)
    <3>1. Len(g) = Len(f) /\ Len(f) \in 1..Len(f) /\ Len(f) > at + PageUnits
      BY <1>1, <1>13, <2>1
    <3>2. Last(g) = Last(f)
      BY <1>13, <3>1 DEF Last
    <3>3. f # <<>>
      BY <1>1, <3>1
    <3>4. FileEnd(g) = FileEnd(f)
      BY <1>14, <3>1, <3>2, <3>3 DEF FileEnd, IndexLength
    <3>5. p \in DOMAIN o
      BY <1>1, <1>6, <2>1
    <3> QED
      BY <3>2, <3>3, <3>4, <3>5
  <2>2. CASE ~ (at + PageUnits < Len(f))
    <3>1. Len(g) = at + PageUnits /\ Len(f) <= at + PageUnits
      BY <1>1, <1>13, <2>2
    <3>2. Last(g) = Zero
      BY <1>13, <3>1 DEF Last
    <3>3. IndexLength(g) = 0
      BY <3>2 DEF IndexLength, Zero
    <3>4. FileEnd(g) = at + PageUnits
      BY <1>1, <1>14, <3>1, <3>3 DEF FileEnd
    <3> QED
      BY <1>1, <1>4, <3>1, <3>2, <3>4
  <2> QED
    BY <2>1, <2>2
<1>17. FileEnd(g) \in Int /\ FileEnd(f) <= FileEnd(g) /\ at + PageUnits <= FileEnd(g)
       /\ FileEnd(g) <= Len(g)
  BY <1>1, <1>2, <1>4, <1>7, <1>13, <1>16
<1>18. \A q \in DOMAIN o1 : o1[q] + PageUnits <= FileEnd(g) /\ Holds(g, o1[q], Contents(q)')
  <2> TAKE q \in DOMAIN o1
  <2>1. CASE q = p
    BY <1>2, <1>13, <1>17, <2>1 DEF pg
  <2>2. CASE q # p
    <3>1. q \in DOMAIN o /\ o1[q] = o[q]
      BY <1>2, <2>2
    <3>2. o[q] + PageUnits <= FileEnd(g)
      BY <1>1, <1>2, <1>4, <1>17, <3>1
    <3> QED
      BY <1>15, <2>2, <3>1, <3>2
  <2> QED
    BY <2>1, <2>2
<1>19. FileHolds'
  BY <1>18 DEF FileHolds, o1, g
<1>20. OffsetsApart'
  <2>1. ASSUME NEW q \in DOMAIN o1, NEW r \in DOMAIN o1, q # r
        PROVE  o1[q] + PageUnits <= o1[r] \/ o1[r] + PageUnits <= o1[q]
    <3>1. CASE q = p
      BY <1>2, <1>8, <2>1, <3>1
    <3>2. CASE r = p
      BY <1>2, <1>8, <2>1, <3>2
    <3>3. CASE q # p /\ r # p
      BY <1>2, <2>1, <3>3 DEF CInv, OffsetsApart, o
    <3> QED
      BY <3>1, <3>2, <3>3
  <2> QED
    BY <2>1 DEF OffsetsApart, o1
<1>21. IndexLast'
  <2>1. p \in DOMAIN o => DOMAIN o1 = DOMAIN o
    BY <1>2
  <2>2. Last(g) = Zero \/ Last(g) = LengthUnit(Cardinality(DOMAIN o1))
    BY <1>11, <1>16, <2>1 DEF IndexLast, o, f
  <2> QED
    BY <2>2 DEF IndexLast, o1, g
<1>22. BatchBehind'
  <2>1. \A q \in DOMAIN o1 : o1[q] <= Len(g)
    <3> TAKE q \in DOMAIN o1
    <3>1. o1[q] \in Nat /\ o1[q] + PageUnits <= FileEnd(g)
      BY <1>5, <1>18
    <3> QED
      BY <1>1, <1>14, <1>17, <3>1
  <2>2. at + PageUnits <= StartOf(o1) /\ o1 # Nothing
    BY <1>2, <1>5, <1>14, <2>1, StartFacts
  <2>3. CASE FileEnd(g) = at + PageUnits
    BY <1>12, <2>2, <2>3 DEF BatchBehind, o1, g
  <2>4. CASE FileEnd(g) = FileEnd(f) /\ p \in DOMAIN o
    <3>1. o1 = o
      BY <1>2, <1>3, <1>5, <2>4
    <3> QED
      BY <1>11, <1>12, <2>2, <2>4, <3>1 DEF BatchBehind, o, o1, f, g
  <2> QED
    BY <1>16, <2>3, <2>4
<1> QED
  BY <1>5, <1>13, <1>19, <1>20, <1>21, <1>22 DEF o1, g

LEMMA LoadKeeps ==
    ASSUME IndexFits, CInv, NEW p \in Pid, Load(p)
    PROVE  CInv'
<1>1. PICK m \in AfterGet(p) : page_pool' = m.pool /\ free_pages' = m.free /\ cache' = m.cache
  BY DEF Load
<1>2. MemHolds(m)
  BY GetHolds
<1>3. UNCHANGED <<max_size, pid_to_offset, file, stored>>
  BY DEF Load
<1>4. Typed'
  BY <1>1, <1>2, <1>3 DEF CInv, Typed, MemHolds
<1>5. PoolHolds'
  BY <1>1, <1>2, <1>3 DEF PoolHolds, MemHolds, Contents
<1>6. (FileHolds /\ OffsetsApart /\ Unstored /\ IndexLast /\ BatchBehind)'
  BY <1>3
  DEF CInv, FileHolds, OffsetsApart, Unstored, IndexLast, BatchBehind, BatchStart, Contents
<1>7. IInv'
  BY NextOnce DEF CInv, Next
<1> QED
  BY <1>4, <1>5, <1>6, <1>7 DEF CInv

LEMMA CommitKeeps ==
    ASSUME IndexFits, CInv, NEW p \in Pid, Commit(p)
    PROVE  CInv'
<1> DEFINE pg(m) == [m.pool[m.cache[p]] EXCEPT !.updates = @ + 1]
<1>1. PICK m \in AfterGet(p) :
        /\ pg(m).updates <= MaxUpdates
        /\ page_pool' = [m.pool EXCEPT ![m.cache[p]] = pg(m)]
        /\ free_pages' = m.free
        /\ cache' = m.cache
        /\ file' = FileWith(pg(m))
        /\ pid_to_offset' = [q \in DOMAIN pid_to_offset \cup {p} |-> OffsetOf(q)]
        /\ stored' = [stored EXCEPT ![p] = pg(m).updates]
        /\ max_size' = max_size
  BY DEF Commit
<1>2. MemHolds(m) /\ p \in DOMAIN m.cache /\ Once(m, 1..max_size)
  BY GetHolds, GetOnce DEF CInv
<1>3. stored \in [Pid -> 0..MaxUpdates] /\ MaxUpdates \in Nat
  BY UpdatesAssumption DEF CInv, Typed
<1>4. m.pool[m.cache[p]] = [pid |-> p, updates |-> stored[p]]
  BY <1>2 DEF MemHolds, Contents
<1>5. pg(m) = [pid |-> p, updates |-> stored[p] + 1]
  BY <1>4
<1>6. stored[p] + 1 \in 0..MaxUpdates
  BY <1>1, <1>3, <1>5
<1> HIDE DEF pg
<1>7. stored' = [stored EXCEPT ![p] = stored[p] + 1]
  BY <1>1, <1>5
<1>8. stored' \in [Pid -> 0..MaxUpdates]
  BY <1>3, <1>6, <1>7
<1>9. Contents(p)' = pg(m)
  BY <1>3, <1>5, <1>7 DEF Contents
<1>10. Contents(p)' \in Page
  BY <1>5, <1>6, <1>9 DEF Page
<1>11. \A q \in Pid : q # p => Contents(q)' = Contents(q)
  BY <1>3, <1>7 DEF Contents
<1>12. file' = WrittenAt(file, OffsetOf(p), Contents(p)')
  BY <1>1, <1>5, <1>9 DEF FileWith
<1>13. /\ file' \in Seq(Unit)
       /\ DOMAIN pid_to_offset' \subseteq Pid
       /\ pid_to_offset' \in [DOMAIN pid_to_offset' -> Nat]
       /\ (FileHolds /\ OffsetsApart /\ IndexLast /\ BatchBehind)'
  BY <1>1, <1>10, <1>11, <1>12, CommitFile
<1> DEFINE pool == m.pool
           c == m.cache
<1>14. /\ pool \in [1..max_size -> Page \cup {NoPage}] /\ DOMAIN c \subseteq Pid
       /\ \A q \in DOMAIN c : pool[c[q]] = Contents(q)
       /\ \A q \in DOMAIN c : c[q] \in 1..max_size /\ (q # p => c[q] # c[p])
       /\ p \in DOMAIN c
  BY <1>2 DEF MemHolds, Once, IsInjective, Range
<1>15. page_pool' = [pool EXCEPT ![c[p]] = Contents(p)'] /\ cache' = c
  BY <1>1, <1>9
<1> HIDE DEF pool, c
<1>16. page_pool' \in [1..max_size -> Page \cup {NoPage}]
  BY <1>10, <1>14, <1>15
<1>17. PoolHolds'
  <2> SUFFICES ASSUME NEW q \in DOMAIN c PROVE page_pool'[c[q]] = Contents(q)'
    BY <1>15 DEF PoolHolds
  <2>1. CASE q = p
    BY <1>14, <1>15, <2>1
  <2>2. CASE q # p
    BY <1>11, <1>14, <1>15, <2>2
  <2> QED
    BY <2>1, <2>2
<1>18. Typed'
  BY <1>1, <1>8, <1>13, <1>14, <1>15, <1>16 DEF CInv, Typed
<1>19. Unstored'
  BY <1>1, <1>3, <1>7 DEF CInv, Unstored
<1>20. IInv'
  BY NextOnce DEF CInv, Next
<1> QED
  BY <1>13, <1>17, <1>18, <1>19, <1>20 DEF CInv

LEMMA InitHolds == Init => CInv
<1> SUFFICES ASSUME Init PROVE CInv
  OBVIOUS
<1>1. IInv
  BY InitOnce
<1>2. DOMAIN cache = {} /\ DOMAIN pid_to_offset = {} /\ pid_to_offset = Nothing /\ file = <<>>
  BY DEF Init, Nothing
<1>3. Typed
  <2>1. page_pool \in [1..max_size -> Page \cup {NoPage}]
    BY DEF Init
  <2>2. stored \in [Pid -> 0..MaxUpdates]
    BY UpdatesAssumption DEF Init
  <2>3. pid_to_offset \in [DOMAIN pid_to_offset -> Nat]
    BY <1>2 DEF Nothing
  <2> QED
    BY <1>2, <2>1, <2>2, <2>3 DEF Init, Typed
<1>4. PoolHolds /\ FileHolds /\ OffsetsApart
  BY <1>2 DEF PoolHolds, FileHolds, OffsetsApart
<1>5. Unstored
  BY DEF Init, Unstored
<1>6. IndexLast /\ BatchBehind
  BY <1>2 DEF IndexLast, BatchBehind, FileEnd
<1> QED
  BY <1>1, <1>3, <1>4, <1>5, <1>6 DEF CInv

-----------------------------------------------------------------------------
(* The index block *)

\* Some order of a finite set has each of its members once.
LEMMA SequenceOfSet ==
    ASSUME NEW S, IsFiniteSet(S), NEW s \in [1..Cardinality(S) -> S], IsInjective(s)
    PROVE  /\ s \in Seq(S) /\ Len(s) = Cardinality(S)
           /\ \A x \in S : \E i \in 1..Cardinality(S) : s[i] = x
<1>1. Cardinality(S) \in Nat
  BY FS_CardinalityType
<1>2. IsFiniteSet(1..Cardinality(S)) /\ Cardinality(1..Cardinality(S)) = Cardinality(S)
  BY <1>1, FS_Interval
<1>3. s \in Injection(1..Cardinality(S), S)
  BY DEF Injection
<1>4. s \in Surjection(1..Cardinality(S), S)
  BY <1>2, <1>3, FS_Injection
<1>5. \A x \in S : \E i \in 1..Cardinality(S) : s[i] = x
  BY <1>4 DEF Surjection
<1>6. s \in Seq(S) /\ Len(s) = Cardinality(S)
  BY <1>1
<1> QED
  BY <1>5, <1>6

LEMMA SetToSeqType ==
    ASSUME NEW S, IsFiniteSet(S)
    PROVE  SetToSeq(S) \in [1..Cardinality(S) -> S] /\ IsInjective(SetToSeq(S))
<1>1. ExistsBijection(1..Cardinality(S), S)
  BY FS_CardinalityType
<1>2. \E f \in [1..Cardinality(S) -> S] : IsInjective(f)
  BY <1>1 DEF ExistsBijection, Bijection, Injection
<1> QED
  BY <1>2 DEF SetToSeq

LEMMA Joined ==
    ASSUME NEW s \in Seq(Unit), NEW t \in Seq(Unit)
    PROVE  /\ s \o t \in Seq(Unit)
           /\ Len(s \o t) = Len(s) + Len(t)
           /\ \A i \in 1..Len(s) : (s \o t)[i] = s[i]
           /\ \A j \in 1..Len(t) : (s \o t)[Len(s) + j] = t[j]
<1> DEFINE m == Len(s)
           n == Len(t)
           u == s \o t
<1>1. m \in Nat /\ n \in Nat
  BY LenProperties
<1>2. /\ u \in Seq(Unit) /\ Len(u) = m + n
      /\ \A i \in 1..(m + n) : u[i] = IF i <= m THEN s[i] ELSE t[i - m]
  BY ConcatProperties
<1> HIDE DEF m, n, u
<1>3. \A i \in 1..m : i \in 1..(m + n) /\ i <= m
  BY <1>1
<1>4. \A j \in 1..n : m + j \in 1..(m + n) /\ ~ (m + j <= m) /\ (m + j) - m = j
  BY <1>1
<1>5. \A i \in 1..m : u[i] = s[i]
  BY <1>2, <1>3
<1>6. \A j \in 1..n : u[m + j] = t[j]
  BY <1>2, <1>4
<1> QED
  BY <1>2, <1>5, <1>6 DEF m, n, u

EntryUnit(p, offset) == [kind |-> "entry", pid |-> p, offset |-> offset]

\* readIndexBlock finds in the file what writeIndexBlock put there.
LEMMA IndexRead ==
    ASSUME NEW o, o \in [DOMAIN o -> Nat], DOMAIN o \subseteq Pid, IsFiniteSet(DOMAIN o),
           Cardinality(DOMAIN o) \in 0..Cardinality(Pid), NEW cut \in Seq(Unit)
    PROVE  LET f == cut \o IndexBlock(o) IN
           /\ f \in Seq(Unit) /\ f # <<>>
           /\ Len(f) = Len(cut) + Cardinality(DOMAIN o) + 1
           /\ \A i \in 1..Len(cut) : f[i] = cut[i]
           /\ Last(f) = LengthUnit(Cardinality(DOMAIN o))
           /\ ReadIndex(f) = o
<1> DEFINE D == DOMAIN o
           k == Cardinality(D)
           pids == SetToSeq(D)
           entries == Entries(o)
           last == LengthOf(o)
           f == cut \o IndexBlock(o)
           l == Len(cut)
<1>1. /\ k \in Nat /\ l \in Nat
      /\ pids \in Seq(D) /\ Len(pids) = k /\ DOMAIN pids = 1..k
      /\ \A p \in D : \E i \in 1..k : pids[i] = p
  <2>1. pids \in [1..k -> D] /\ IsInjective(pids)
    BY SetToSeqType
  <2>2. k \in Nat /\ l \in Nat
    BY FS_CardinalityType, LenProperties
  <2> QED
    BY <2>1, <2>2, SequenceOfSet
<1>2. \A i \in 1..k : pids[i] \in D
  BY <1>1, ElementOfSeq
<1>3. entries = [i \in 1..k |-> EntryUnit(pids[i], o[pids[i]])]
  BY <1>1 DEF Entries, EntryUnit
<1>4. \A p \in D : EntryUnit(p, o[p]) \in Unit
  BY DEF EntryUnit, Unit
<1>5. LengthUnit(k) \in Unit /\ last = <<LengthUnit(k)>>
  BY DEF LengthUnit, Unit, LengthOf
<1> HIDE DEF pids, entries, l
<1>6. entries \in Seq(Unit) /\ Len(entries) = k
      /\ \A i \in 1..k : entries[i] = EntryUnit(pids[i], o[pids[i]])
  <2> DEFINE unit(i) == EntryUnit(pids[i], o[pids[i]])
  <2>1. \A i \in 1..k : unit(i) \in Unit
    BY <1>2, <1>4
  <2>2. entries = [i \in 1..k |-> unit(i)]
    BY <1>3
  <2> HIDE DEF unit
  <2>3. entries \in [1..k -> Unit] /\ \A i \in 1..k : entries[i] = unit(i)
    BY <2>1, <2>2
  <2>4. k \in Nat
    BY <1>1
  <2> HIDE DEF k
  <2>5. entries \in Seq(Unit) /\ Len(entries) = k
    BY <2>3, <2>4
  <2> QED
    BY <2>3, <2>5 DEF unit
<1>7. last \in Seq(Unit) /\ Len(last) = 1 /\ last[1] = LengthUnit(k)
  BY <1>5
<1> HIDE DEF k, D, last
<1> DEFINE block == entries \o last
<1>8. /\ block \in Seq(Unit) /\ Len(block) = k + 1
      /\ \A i \in 1..k : block[i] = entries[i]
      /\ block[k + 1] = LengthUnit(k)
  <2>1. entries \in Seq(Unit) /\ last \in Seq(Unit) /\ Len(entries) = k /\ Len(last) = 1
    BY <1>6, <1>7
  <2>2. /\ block \in Seq(Unit)
        /\ Len(block) = Len(entries) + Len(last)
        /\ \A i \in 1..Len(entries) : block[i] = entries[i]
        /\ \A j \in 1..Len(last) : block[Len(entries) + j] = last[j]
    BY <2>1, Joined, Zenon
  <2> HIDE DEF block
  <2>3. 1 \in 1..1
    OBVIOUS
  <2>4. block[k + 1] = last[1]
    BY <2>1, <2>2, <2>3
  <2> QED
    BY <1>7, <2>1, <2>2, <2>4
<1>9. f = cut \o block
  BY DEF IndexBlock, entries, last
<1> HIDE DEF block, f
<1>10. /\ f \in Seq(Unit) /\ Len(f) = l + (k + 1)
       /\ \A i \in 1..l : f[i] = cut[i]
       /\ \A j \in 1..(k + 1) : f[l + j] = block[j]
  <2>1. block \in Seq(Unit) /\ Len(block) = k + 1
    BY <1>8
  <2>2. /\ f \in Seq(Unit)
        /\ Len(f) = Len(cut) + Len(block)
        /\ \A i \in 1..Len(cut) : f[i] = cut[i]
        /\ \A j \in 1..Len(block) : f[Len(cut) + j] = block[j]
    BY <1>9, <2>1, Joined, Zenon
  <2> QED
    BY <2>1, <2>2, Zenon DEF l
<1>11. \A i \in 1..l : f[i] = cut[i]
  BY <1>10
<1>12. \A j \in 1..(k + 1) : f[l + j] = block[j]
  BY <1>10
<1>13. Last(f) = LengthUnit(k)
  <2>1. k + 1 \in 1..(k + 1) /\ Len(f) = l + (k + 1)
    BY <1>1, <1>10
  <2> QED
    BY <1>8, <1>12, <2>1 DEF Last
<1>14. IndexLength(f) = k
  BY <1>13 DEF IndexLength, LengthUnit
<1>15. f # <<>>
  <2>1. Len(f) # 0
    BY <1>1, <1>10
  <2> QED
    BY <2>1
<1> DEFINE read == {f[i] : i \in (Len(f) - IndexLength(f))..(Len(f) - 1)}
<1>16. read = {EntryUnit(p, o[p]) : p \in D}
  <2>1. (Len(f) - IndexLength(f))..(Len(f) - 1) = (l + 1)..(l + k)
    BY <1>1, <1>10, <1>14
  <2>2. ASSUME NEW u \in read PROVE u \in {EntryUnit(p, o[p]) : p \in D}
    <3>1. PICK i \in (l + 1)..(l + k) : u = f[i]
      BY <2>1
    <3>2. i - l \in 1..k /\ i - l \in 1..(k + 1) /\ l + (i - l) = i
      BY <1>1
    <3>3. u = EntryUnit(pids[i - l], o[pids[i - l]])
      BY <1>6, <1>8, <1>12, <3>1, <3>2
    <3> QED
      BY <1>2, <3>2, <3>3
  <2>3. ASSUME NEW p \in D PROVE EntryUnit(p, o[p]) \in read
    <3>1. PICK j \in 1..k : pids[j] = p
      BY <1>1
    <3>2. j \in 1..(k + 1) /\ l + j \in (l + 1)..(l + k)
      BY <1>1
    <3>3. f[l + j] = EntryUnit(p, o[p])
      BY <1>6, <1>8, <1>12, <3>1, <3>2
    <3> QED
      BY <2>1, <3>2, <3>3
  <2> QED
    BY <2>2, <2>3
<1> HIDE DEF read
<1>17. ReadIndex(f) = [p \in {e.pid : e \in read} |-> (CHOOSE e \in read : e.pid = p).offset]
  BY DEF ReadIndex, read
<1>18. \A p \in D : EntryUnit(p, o[p]).pid = p /\ EntryUnit(p, o[p]).offset = o[p]
  BY DEF EntryUnit
<1>19. {e.pid : e \in read} = D
  BY <1>16, <1>18
<1>20. ASSUME NEW p \in D PROVE (CHOOSE e \in read : e.pid = p).offset = o[p]
  <2>1. EntryUnit(p, o[p]) \in read /\ EntryUnit(p, o[p]).pid = p
    BY <1>16, <1>18
  <2>2. \A e \in read : e.pid = p => e = EntryUnit(p, o[p])
    BY <1>16, <1>18
  <2>3. (CHOOSE e \in read : e.pid = p) = EntryUnit(p, o[p])
    BY <2>1, <2>2
  <2> QED
    BY <1>18, <2>3
<1>21. ReadIndex(f) = o
  <2>1. o = [p \in D |-> o[p]]
    BY DEF D
  <2> QED
    BY <1>17, <1>19, <1>20, <2>1
<1>22. Len(f) = l + k + 1
  BY <1>1, <1>10
<1> QED
  BY <1>10, <1>11, <1>13, <1>15, <1>21, <1>22 DEF f, k, l, D

-----------------------------------------------------------------------------
(* A batch *)

\* Where the i-th page of a batch goes.
At(i) == BatchStart + PageUnits * (i - 1)

LEMMA AtApart ==
    ASSUME BatchStart \in Nat
    PROVE  /\ At(1) = BatchStart
           /\ \A i \in Nat \ {0} : At(i) \in Nat /\ At(i + 1) = At(i) + PageUnits
           /\ \A i, j \in Nat \ {0} : i < j => At(i) + PageUnits <= At(j)
<1>1. PageUnits \in Nat
  BY PageAssumption
<1>2. \A i \in Nat : PageUnits * i \in Nat
  BY <1>1
<1>3. At(1) = BatchStart
  BY <1>1 DEF At
<1>4. ASSUME NEW i \in Nat \ {0} PROVE At(i) \in Nat /\ At(i + 1) = At(i) + PageUnits
  <2>1. i - 1 \in Nat /\ (i + 1) - 1 = (i - 1) + 1
    OBVIOUS
  <2>2. PageUnits * ((i - 1) + 1) = PageUnits * (i - 1) + PageUnits
    BY <1>1, <2>1
  <2>3. PageUnits * (i - 1) \in Nat
    BY <1>2, <2>1
  <2> QED
    BY <1>1, <2>1, <2>2, <2>3 DEF At
<1>5. ASSUME NEW i \in Nat \ {0}, NEW j \in Nat \ {0}, i < j
      PROVE  At(i) + PageUnits <= At(j)
  <2> DEFINE d == (j - i) - 1
  <2>1. d \in Nat /\ i - 1 \in Nat /\ j - 1 = (i - 1) + 1 + d
    BY <1>5
  <2>2. PageUnits * ((i - 1) + 1 + d) = PageUnits * (i - 1) + PageUnits + PageUnits * d
    BY <1>1, <2>1
  <2>3. PageUnits * d \in Nat /\ PageUnits * (i - 1) \in Nat
    BY <1>2, <2>1
  <2> HIDE DEF d
  <2>4. At(j) = BatchStart + (PageUnits * (i - 1) + PageUnits + PageUnits * d)
    BY <2>1, <2>2 DEF At
  <2>5. At(i) = BatchStart + PageUnits * (i - 1)
    BY DEF At
  <2> QED
    BY <1>1, <2>3, <2>4, <2>5
<1> QED
  BY <1>3, <1>4, <1>5

\* Orders of the pool hold every page of it once.
LEMMA OrderFacts ==
    ASSUME IndexFits, CInv, NEW order \in Orders
    PROVE  /\ order \in Seq(DOMAIN cache) /\ Len(order) \in Nat /\ DOMAIN order = 1..Len(order)
           /\ \A i \in 1..Len(order) : order[i] \in DOMAIN cache
           /\ \A i, j \in 1..Len(order) : order[i] = order[j] => i = j
           /\ \A p \in DOMAIN cache : \E i \in 1..Len(order) : order[i] = p
<1> DEFINE D == DOMAIN cache
           n == Cardinality(D)
<1>1. IsFiniteSet(D) /\ n \in Nat
  BY OffsetsFinite, FS_CardinalityType DEF CInv, Typed
<1>2. order \in [1..n -> D] /\ \A i, j \in 1..n : i # j => order[i] # order[j]
  BY DEF Orders, SetToSeqs
<1> HIDE DEF D
<1>3. IsInjective(order)
  BY <1>2 DEF IsInjective
<1>4. order \in Seq(D) /\ Len(order) = n /\ \A x \in D : \E i \in 1..n : order[i] = x
  BY <1>1, <1>2, <1>3, SequenceOfSet
<1> HIDE DEF n
<1> QED
  BY <1>1, <1>2, <1>4 DEF D

LEMMA StartFits ==
    ASSUME IndexFits, CInv
    PROVE  /\ BatchStart \in Nat /\ BatchStart <= Len(file)
           /\ \A p \in DOMAIN pid_to_offset : pid_to_offset[p] + PageUnits <= BatchStart
           /\ Len(file) <= BatchStart + PageUnits
           /\ pid_to_offset = Nothing <=> DOMAIN pid_to_offset = {}
           /\ pid_to_offset = Nothing => BatchStart = 0
<1> DEFINE o == pid_to_offset
           s == BatchStart
           e == FileEnd(file)
<1>1. o \in [DOMAIN o -> Nat] /\ s = StartOf(o)
  BY DEF CInv, Typed, BatchStart, StartOf
<1>2. Len(file) \in Nat /\ \A p \in DOMAIN o : o[p] <= Len(file) /\ o[p] + PageUnits <= Len(file)
  BY OffsetsBounded, FileEnds DEF CInv
<1>3. /\ s \in Nat
      /\ \A p \in DOMAIN o : o[p] + PageUnits <= s
      /\ o # Nothing => \E p \in DOMAIN o : s = o[p] + PageUnits
      /\ o = Nothing <=> DOMAIN o = {}
  <2> HIDE DEF o, s
  <2> QED
    BY <1>1, <1>2, StartFacts
<1>4. /\ e \in Int /\ Len(file) <= e + Cardinality(DOMAIN o)
      /\ Cardinality(DOMAIN o) \in 0..PageUnits
  BY FileEnds DEF CInv
<1>5. e <= IF o = Nothing THEN 1 ELSE s
  BY DEF CInv, BatchBehind
<1>6. o = Nothing => s = 0
  BY <1>1 DEF StartOf
<1> HIDE DEF o, s, e
<1>7. s <= Len(file)
  BY <1>2, <1>3, <1>6
<1>8. Len(file) <= s + PageUnits
  <2>1. CASE o = Nothing
    <3>1. Cardinality(DOMAIN o) = 0
      BY <1>3, <2>1, FS_EmptySet
    <3> QED
      BY <1>2, <1>3, <1>4, <1>5, <2>1, <3>1, PageAssumption
  <2>2. CASE o # Nothing
    BY <1>2, <1>3, <1>4, <1>5, <2>2, PageAssumption
  <2> QED
    BY <2>1, <2>2
<1> QED
  BY <1>3, <1>6, <1>7, <1>8 DEF o, s

LEMMA PreparedFacts ==
    ASSUME IndexFits, CInv, NEW order \in Orders
    PROVE  LET o == Prepared(order) IN
           /\ DOMAIN o = DOMAIN cache \cup DOMAIN pid_to_offset
           /\ o \in [DOMAIN o -> Nat]
           /\ \A i \in 1..Len(order) : o[order[i]] = At(i)
           /\ \A p \in DOMAIN pid_to_offset \ DOMAIN cache : o[p] = pid_to_offset[p]
<1> DEFINE o == Prepared(order)
           index(p) == CHOOSE i \in DOMAIN order : order[i] = p
<1>1. /\ Len(order) \in Nat /\ DOMAIN order = 1..Len(order)
      /\ \A i \in 1..Len(order) : order[i] \in DOMAIN cache
      /\ \A i, j \in 1..Len(order) : order[i] = order[j] => i = j
      /\ \A p \in DOMAIN cache : \E i \in 1..Len(order) : order[i] = p
  BY OrderFacts
<1>2. Range(order) = DOMAIN cache
  <2>1. ASSUME NEW p \in Range(order) PROVE p \in DOMAIN cache
    <3>1. PICK i \in 1..Len(order) : p = order[i]
      BY <1>1 DEF Range
    <3> QED
      BY <1>1, <3>1
  <2>2. ASSUME NEW p \in DOMAIN cache PROVE p \in Range(order)
    <3>1. PICK i \in 1..Len(order) : p = order[i]
      BY <1>1
    <3> QED
      BY <1>1, <3>1 DEF Range
  <2> QED
    BY <2>1, <2>2
<1>3. BatchStart \in Nat /\ pid_to_offset \in [DOMAIN pid_to_offset -> Nat]
  BY StartFits DEF CInv, Typed
<1>4. \A i \in 1..Len(order) : index(order[i]) = i
  BY <1>1
<1> HIDE DEF index
<1>5. o = [p \in DOMAIN cache \cup DOMAIN pid_to_offset |->
             IF p \in DOMAIN cache THEN At(index(p)) ELSE pid_to_offset[p]]
  BY <1>2 DEF Prepared, At, index
<1> HIDE DEF o
<1>6. \A i \in 1..Len(order) : o[order[i]] = At(i)
  BY <1>1, <1>4, <1>5
<1>7. \A i \in 1..Len(order) : At(i) \in Nat
  BY <1>1, <1>3, AtApart
<1>8. \A p \in DOMAIN o : o[p] \in Nat
  <2> TAKE p \in DOMAIN o
  <2>1. CASE p \in DOMAIN cache
    BY <1>1, <1>6, <1>7, <2>1
  <2>2. CASE p \notin DOMAIN cache
    BY <1>3, <1>5, <2>2
  <2> QED
    BY <2>1, <2>2
<1>9. o = [p \in DOMAIN o |-> o[p]]
  BY <1>5
<1>10. o \in [DOMAIN o -> Nat]
  BY <1>8, <1>9
<1> QED
  BY <1>5, <1>6, <1>10 DEF o

\* One step of the loop of FlushToDisk.
Step(order, w, n) ==
    IF n = 0 THEN file
    ELSE WrittenAt(w[n - 1], Prepared(order)[order[n]], page_pool[cache[order[n]]])

\* The loop comes to its end.
LEMMA LoopExists ==
    ASSUME NEW order, Len(order) \in Nat
    PROVE  \E w : w = [n \in 0..Len(order) |-> Step(order, w, n)]
<1> DEFINE N == Len(order)
           Solves(w, n) ==
               /\ w = [i \in 0..N |-> w[i]]
               /\ \A i \in 0..N : i <= n => w[i] = Step(order, w, i)
           S == {n \in Nat : \E w : Solves(w, n)}
<1>1. N \in Nat
  OBVIOUS
<1> HIDE DEF N
<1>2. 0 \in S
  <2> DEFINE w == [i \in 0..N |-> file]
  <2>1. w = [i \in 0..N |-> w[i]]
    OBVIOUS
  <2>2. \A i \in 0..N : i <= 0 => w[i] = Step(order, w, i)
    BY <1>1 DEF Step
  <2> HIDE DEF w
  <2>3. Solves(w, 0)
    BY <2>1, <2>2
  <2> QED
    BY <2>3
<1>3. ASSUME NEW n \in 0..N, n \in S, n < N PROVE n + 1 \in S
  <2>1. PICK w : Solves(w, n)
    BY <1>3
  <2> DEFINE x == [i \in 0..N |-> Step(order, w, i)]
  <2>2. x = [i \in 0..N |-> x[i]]
    OBVIOUS
  <2>3. \A i \in 0..N : i <= n => x[i] = w[i]
    BY <2>1
  <2>4. ASSUME NEW i \in 0..N, i <= n + 1 PROVE x[i] = Step(order, x, i)
    <3>1. CASE i = 0
      BY <3>1 DEF Step
    <3>2. CASE i # 0
      <4>1. i - 1 \in 0..N /\ i - 1 <= n
        BY <1>1, <2>4, <3>2
      <4>2. x[i - 1] = w[i - 1]
        BY <2>3, <4>1
      <4>3. x[i] = Step(order, w, i)
        OBVIOUS
      <4> HIDE DEF x
      <4>4. Step(order, x, i) = Step(order, w, i)
        BY <3>2, <4>2 DEF Step
      <4> QED
        BY <4>3, <4>4
    <3> QED
      BY <3>1, <3>2
  <2> HIDE DEF x
  <2>5. Solves(x, n + 1)
    BY <2>2, <2>4
  <2>6. n + 1 \in Nat
    BY <1>1
  <2> QED
    BY <2>5, <2>6
<1> HIDE DEF S
<1>4. N \in S
  BY <1>1, <1>2, <1>3, CountUp
<1>5. PICK w : Solves(w, N)
  BY <1>4 DEF S
<1>6. \A i \in 0..N : w[i] = Step(order, w, i)
  BY <1>1, <1>5
<1>7. w = [i \in 0..N |-> Step(order, w, i)]
  BY <1>5, <1>6
<1> QED
  BY <1>7 DEF N

LEMMA BatchSteps ==
    ASSUME NEW order, Len(order) \in Nat
    PROVE  \E w : /\ Batch(order) = w[Len(order)]
                  /\ w[0] = file
                  /\ \A n \in 1..Len(order) :
                        w[n] = WrittenAt(w[n - 1], Prepared(order)[order[n]],
                                         page_pool[cache[order[n]]])
<1> DEFINE w == CHOOSE w : w = [n \in 0..Len(order) |-> Step(order, w, n)]
<1>1. Batch(order) = w[Len(order)]
  BY DEF Batch, Step
<1>2. w = [n \in 0..Len(order) |-> Step(order, w, n)]
  BY LoopExists
<1> HIDE DEF w
<1>3. \A n \in 0..Len(order) : w[n] = Step(order, w, n)
  BY <1>2
<1>4. w[0] = file
  <2>1. 0 \in 0..Len(order)
    OBVIOUS
  <2> QED
    BY <1>3, <2>1 DEF Step
<1>5. ASSUME NEW n \in 1..Len(order)
      PROVE  w[n] = WrittenAt(w[n - 1], Prepared(order)[order[n]], page_pool[cache[order[n]]])
  <2>1. n \in 0..Len(order) /\ n # 0
    OBVIOUS
  <2> QED
    BY <1>3, <2>1 DEF Step
<1> QED
  BY <1>1, <1>4, <1>5

\* The file after the first n pages of a batch.
LEMMA BatchFile ==
    ASSUME IndexFits, CInv, NEW order \in Orders
    PROVE  LET b == Batch(order)
               n == Len(order)
           IN  /\ b \in Seq(Unit)
               /\ n = 0 => b = file
               /\ n # 0 => Len(b) = At(n) + PageUnits /\ b[At(n) + PageUnits] = Zero
               /\ \A i \in 1..BatchStart : b[i] = file[i]
               /\ \A i \in 1..n : Holds(b, At(i), Contents(order[i]))
<1> DEFINE N == Len(order)
           s == BatchStart
           f == file
           pg(i) == Contents(order[i])
           Good(b, n) ==
               /\ b \in Seq(Unit)
               /\ n = 0 => b = f
               /\ n # 0 => Len(b) = At(n) + PageUnits /\ b[At(n) + PageUnits] = Zero
               /\ \A i \in 1..s : b[i] = f[i]
               /\ \A i \in 1..n : Holds(b, At(i), pg(i))
<1>1. /\ N \in Nat
      /\ \A i \in 1..N : order[i] \in DOMAIN cache
  BY OrderFacts
<1>2. PICK w : /\ Batch(order) = w[N]
               /\ w[0] = f
               /\ \A n \in 1..N : w[n] = WrittenAt(w[n - 1], Prepared(order)[order[n]],
                                                   page_pool[cache[order[n]]])
  BY <1>1, BatchSteps
<1>3. \A i \in 1..N : pg(i) \in Page /\ page_pool[cache[order[i]]] = pg(i)
  BY <1>1, ContentsType DEF CInv, Typed, PoolHolds
<1>4. \A i \in 1..N : Prepared(order)[order[i]] = At(i)
  BY PreparedFacts
<1>5. \A n \in 1..N : w[n] = WrittenAt(w[n - 1], At(n), pg(n))
  BY <1>2, <1>3, <1>4
<1>6. f \in Seq(Unit) /\ Len(f) \in Nat
  BY DEF CInv, Typed
<1>7. s \in Nat /\ s <= Len(f) /\ Len(f) <= s + PageUnits /\ PageUnits \in Nat /\ PageUnits >= 2
  BY StartFits, PageAssumption
<1>8. /\ At(1) = s
      /\ \A i \in Nat \ {0} : At(i) \in Nat /\ At(i + 1) = At(i) + PageUnits
      /\ \A i, j \in Nat \ {0} : i < j => At(i) + PageUnits <= At(j)
  BY <1>7, AtApart
<1> HIDE DEF N, s, f, pg
<1> DEFINE S == {n \in Nat : n <= N => Good(w[n], n)}
<1>9. 0 \in S
  BY <1>2, <1>6
<1>10. ASSUME NEW n \in 0..N, n \in S, n < N PROVE n + 1 \in S
  <2> DEFINE k == n + 1
             a == At(k)
             v == w[n]
             b == w[k]
  <2>1. Good(v, n) /\ k \in 1..N /\ k \in Nat /\ k # 0 /\ k - 1 = n /\ n \in Nat
    BY <1>1, <1>10
  <2>2. b = WrittenAt(v, a, pg(k)) /\ pg(k) \in Page
    BY <1>3, <1>5, <2>1
  <2>3. a \in Nat /\ s <= a /\ v \in Seq(Unit) /\ Len(v) \in Nat
        /\ a <= Len(v) /\ Len(v) <= a + PageUnits
    <3>1. CASE n = 0
      <4>1. v = f /\ k = 1 /\ a = s
        BY <1>8, <2>1, <3>1
      <4> QED
        BY <1>6, <1>7, <4>1
    <3>2. CASE n # 0
      <4>1. Len(v) = At(n) + PageUnits /\ a = At(n) + PageUnits /\ a \in Nat
        BY <1>8, <2>1, <3>2
      <4>2. s <= At(n) /\ At(n) \in Nat
        <5>1. CASE n = 1
          BY <1>7, <1>8, <5>1
        <5>2. CASE n # 1
          <6>1. At(1) + PageUnits <= At(n)
            BY <1>8, <2>1, <3>2, <5>2
          <6>2. At(n) \in Nat
            BY <1>8, <2>1, <3>2
          <6> QED
            BY <1>7, <1>8, <6>1, <6>2
        <5> QED
          BY <5>1, <5>2
      <4> QED
        BY <1>7, <2>1, <4>1, <4>2
    <3> QED
      BY <3>1, <3>2
  <2>4. \A i \in 1..n : At(i) \in Nat /\ At(i) + PageUnits <= a
    <3> TAKE i \in 1..n
    <3>1. i \in Nat \ {0} /\ k \in Nat \ {0} /\ i < k
      BY <2>1
    <3> HIDE DEF k
    <3> QED
      BY <1>8, <3>1
  <2>5. \A i \in 1..k : i = k \/ i \in 1..n
    BY <2>1
  <2> DEFINE x == pg(k)
  <2> HIDE DEF a, v, b, k, x
  <2>6. v \in Seq(Unit) /\ a \in 0..Len(v) /\ x \in Page /\ b = WrittenAt(v, a, x)
    BY <2>2, <2>3 DEF x
  <2>7. /\ b \in Seq(Unit)
        /\ Len(b) = IF Len(v) >= a + PageUnits THEN Len(v) ELSE a + PageUnits
        /\ Holds(b, a, x)
        /\ b[a + PageUnits] = Zero
        /\ \A i \in 1..Len(v) : i <= a \/ i > a + PageUnits => b[i] = v[i]
    BY <2>6, PageWritten
  <2>8. Len(b) = a + PageUnits
    BY <1>7, <2>3, <2>7
  <2>9. \A i \in 1..s : b[i] = f[i]
    <3> TAKE i \in 1..s
    <3>1. i \in 1..Len(v) /\ i <= a
      BY <1>7, <2>3
    <3>2. v[i] = f[i]
      BY <2>1
    <3> QED
      BY <2>7, <3>1, <3>2
  <2>10. ASSUME NEW i \in 1..n PROVE Holds(b, At(i), pg(i))
    <3> DEFINE c == At(i)
               y == pg(i)
    <3>1. c \in Nat /\ c + PageUnits <= a /\ Holds(v, c, y)
      BY <2>1, <2>4
    <3> HIDE DEF c, y
    <3>2. \A j \in (c + 1)..(c + PageUnits - 1) : b[j] = v[j]
      <4> TAKE j \in (c + 1)..(c + PageUnits - 1)
      <4>1. j \in 1..Len(v) /\ j <= a
        BY <1>7, <2>3, <3>1
      <4> QED
        BY <2>7, <4>1
    <3>3. Holds(b, c, y)
      BY <3>1, <3>2, HoldsOn
    <3> QED
      BY <3>3 DEF c, y
  <2>11. \A i \in 1..k : Holds(b, At(i), pg(i))
    BY <2>5, <2>7, <2>10 DEF a, x
  <2>12. Good(b, k)
    BY <2>1, <2>7, <2>8, <2>9, <2>11 DEF a
  <2> QED
    BY <2>1, <2>12 DEF b, k
<1> HIDE DEF Good, S
<1>11. N \in S
  BY <1>1, <1>9, <1>10, CountUp
<1>12. Good(Batch(order), N)
  BY <1>1, <1>2, <1>11 DEF S
<1> QED
  BY <1>12 DEF Good, N, f, s, pg

\* The file without its index block: every page that has an offset is there.
LEMMA CutFile ==
    ASSUME IndexFits, CInv, NEW order \in Orders
    PROVE  LET cut == WithoutIndex(Batch(order))
               o == Prepared(order)
           IN  /\ cut \in Seq(Unit)
               /\ \A p \in DOMAIN o : /\ o[p] + PageUnits <= Len(cut) + 1
                                      /\ Holds(cut, o[p], Contents(p))
               /\ Len(cut) + 1 <= IF o = Nothing THEN 1 ELSE StartOf(o)
<1> DEFINE N == Len(order)
           D == DOMAIN cache
           b == Batch(order)
           cut == WithoutIndex(b)
           o == Prepared(order)
           old == pid_to_offset
           s == BatchStart
           f == file
<1>1. /\ N \in Nat /\ \A i \in 1..N : order[i] \in D
      /\ \A p \in D : \E i \in 1..N : order[i] = p
  BY OrderFacts
<1>2. /\ DOMAIN o = D \cup DOMAIN old /\ o \in [DOMAIN o -> Nat]
      /\ \A i \in 1..N : o[order[i]] = At(i)
      /\ \A p \in DOMAIN old \ D : o[p] = old[p]
  BY PreparedFacts
<1>3. /\ b \in Seq(Unit)
      /\ N = 0 => b = f
      /\ N # 0 => Len(b) = At(N) + PageUnits /\ b[At(N) + PageUnits] = Zero
      /\ \A i \in 1..s : b[i] = f[i]
      /\ \A i \in 1..N : Holds(b, At(i), Contents(order[i]))
  BY BatchFile
<1>4. /\ s \in Nat /\ s <= Len(f) /\ PageUnits \in Nat /\ PageUnits >= 2
      /\ \A p \in DOMAIN old : old[p] + PageUnits <= s
      /\ old = Nothing <=> DOMAIN old = {}
  BY StartFits, PageAssumption
<1>5. \A p \in DOMAIN old : /\ old[p] \in Nat /\ old[p] + PageUnits <= FileEnd(f)
                            /\ Holds(f, old[p], Contents(p))
  BY OffsetsBounded DEF CInv, FileHolds
<1>6. /\ FileEnd(f) \in Int /\ Len(f) \in Nat /\ FileEnd(f) <= Len(f)
      /\ Len(f) <= FileEnd(f) + Cardinality(DOMAIN old)
  BY FileEnds DEF CInv
<1>7. /\ f \in Seq(Unit) /\ old \in [DOMAIN old -> Nat]
      /\ FileEnd(f) <= IF old = Nothing THEN 1 ELSE s
      /\ s = StartOf(old)
  BY DEF CInv, Typed, BatchBehind, BatchStart, StartOf
<1>8. /\ At(1) = s
      /\ \A i \in Nat \ {0} : At(i) \in Nat
      /\ \A i, j \in Nat \ {0} : i < j => At(i) + PageUnits <= At(j)
  BY <1>4, AtApart
<1>9. ASSUME b # <<>>, Len(b) - IndexLength(b) - 1 \in Nat, Len(b) - IndexLength(b) - 1 <= Len(b)
      PROVE  /\ cut \in Seq(Unit) /\ Len(cut) = Len(b) - IndexLength(b) - 1
             /\ \A i \in 1..Len(cut) : cut[i] = b[i]
  <2> DEFINE n == Len(b) - IndexLength(b) - 1
  <2>1. cut = SubSeq(b, 1, n)
    BY <1>9 DEF WithoutIndex
  <2>2. n \in Nat /\ n <= Len(b) /\ Len(b) \in Nat
    BY <1>3, <1>9, LenProperties
  <2> HIDE DEF n, cut, b
  <2>3. \A i \in 1..n : b[i] \in Unit
    <3> TAKE i \in 1..n
    <3>1. i \in 1..Len(b)
      BY <2>2
    <3> QED
      BY <1>3, <3>1, ElementOfSeq
  <2>4. /\ SubSeq(b, 1, n) \in Seq(Unit)
        /\ Len(SubSeq(b, 1, n)) = IF 1 <= n THEN n - 1 + 1 ELSE 0
        /\ \A i \in 1..(n - 1 + 1) : SubSeq(b, 1, n)[i] = b[1 + i - 1]
    BY <2>2, <2>3, SubSeqProperties
  <2>5. Len(cut) = n /\ n - 1 + 1 = n /\ \A i \in 1..n : 1 + i - 1 = i
    BY <2>1, <2>2, <2>4
  <2> QED
    BY <2>1, <2>4, <2>5 DEF n
<1> HIDE DEF N, D, b, cut, o, old, s, f
<1>10. CASE N # 0
  <2> DEFINE a == At(N)
  <2>1. a \in Nat /\ Len(b) = a + PageUnits /\ b[a + PageUnits] = Zero
        /\ \A i \in 1..N : At(i) \in Nat /\ At(i) <= a
    <3>1. a \in Nat
      BY <1>1, <1>8, <1>10
    <3>2. \A i \in 1..N : At(i) \in Nat /\ At(i) <= a
      <4> TAKE i \in 1..N
      <4>1. i \in Nat \ {0} /\ N \in Nat \ {0} /\ (i = N \/ i < N)
        BY <1>1, <1>10
      <4>2. At(i) \in Nat
        BY <1>8, <4>1
      <4>3. i = N \/ At(i) + PageUnits <= At(N)
        BY <1>8, <4>1
      <4> QED
        BY <1>4, <3>1, <4>2, <4>3
    <3> QED
      BY <1>3, <1>10, <3>1, <3>2
  <2>2. s <= a
    <3>1. 1 \in 1..N
      BY <1>1, <1>10
    <3> QED
      BY <1>8, <2>1, <3>1
  <2> HIDE DEF a
  <2>3. b # <<>> /\ IndexLength(b) = 0
    <3>1. Len(b) # 0
      BY <1>4, <2>1
    <3>2. Last(b) = Zero
      BY <2>1 DEF Last
    <3>3. IndexLength(b) = 0
      BY <3>2 DEF IndexLength, Zero
    <3> QED
      BY <3>1, <3>3
  <2>4. Len(b) - IndexLength(b) - 1 = a + PageUnits - 1 /\ a + PageUnits - 1 \in Nat
        /\ a + PageUnits - 1 <= Len(b)
    BY <1>4, <2>1, <2>3
  <2>5. cut \in Seq(Unit) /\ Len(cut) = a + PageUnits - 1
        /\ \A i \in 1..(a + PageUnits - 1) : cut[i] = b[i]
    BY <1>9, <2>3, <2>4
  <2>6. ASSUME NEW p \in DOMAIN o
        PROVE  o[p] + PageUnits <= Len(cut) + 1 /\ Holds(cut, o[p], Contents(p))
    <3> DEFINE c == o[p]
               pg == Contents(p)
    <3>1. c \in Nat
      BY <1>2, <2>6
    <3>2. c + PageUnits <= a + PageUnits /\ Holds(b, c, pg)
      <4>1. CASE p \in D
        <5>1. PICK i \in 1..N : order[i] = p
          BY <1>1, <4>1
        <5>2. c = At(i)
          BY <1>2, <5>1
        <5> QED
          BY <1>3, <1>4, <2>1, <5>1, <5>2
      <4>2. CASE p \notin D
        <5>1. p \in DOMAIN old /\ c = old[p]
          BY <1>2, <2>6, <4>2
        <5>2. c + PageUnits <= s /\ Holds(f, c, pg)
          BY <1>4, <1>5, <5>1
        <5> HIDE DEF c, pg
        <5>3. \A i \in (c + 1)..(c + PageUnits - 1) : b[i] = f[i]
          <6> TAKE i \in (c + 1)..(c + PageUnits - 1)
          <6>1. i \in 1..s
            BY <1>4, <3>1, <5>2
          <6> QED
            BY <1>3, <6>1
        <5>4. Holds(b, c, pg)
          BY <3>1, <5>2, <5>3, HoldsOn
        <5> QED
          BY <1>4, <2>1, <2>2, <3>1, <5>2, <5>4
      <4> QED
        BY <4>1, <4>2
    <3> HIDE DEF c, pg
    <3>3. \A i \in (c + 1)..(c + PageUnits - 1) : cut[i] = b[i]
      <4> TAKE i \in (c + 1)..(c + PageUnits - 1)
      <4>1. i \in 1..(a + PageUnits - 1)
        BY <1>4, <2>1, <3>1, <3>2
      <4> QED
        BY <2>5, <4>1
    <3>4. Holds(cut, c, pg)
      BY <3>1, <3>2, <3>3, HoldsOn
    <3>5. c + PageUnits <= Len(cut) + 1
      BY <1>4, <2>1, <2>5, <3>1, <3>2
    <3> QED
      BY <3>4, <3>5 DEF c, pg
  <2>7. o # Nothing /\ Len(cut) + 1 <= StartOf(o)
    <3>1. N \in 1..N
      BY <1>1, <1>10
    <3>2. order[N] \in DOMAIN o /\ o[order[N]] = a
      BY <1>1, <1>2, <3>1 DEF a
    <3>3. Len(cut) \in Nat /\ \A p \in DOMAIN o : o[p] <= Len(cut)
      <4>1. Len(cut) \in Nat
        BY <2>5, LenProperties
      <4>2. ASSUME NEW p \in DOMAIN o PROVE o[p] <= Len(cut)
        <5>1. o[p] \in Nat /\ o[p] + PageUnits <= Len(cut) + 1
          BY <1>2, <2>6
        <5> QED
          BY <1>4, <4>1, <5>1
      <4> QED
        BY <4>1, <4>2
    <3>4. /\ o = Nothing <=> DOMAIN o = {}
          /\ \A p \in DOMAIN o : o[p] + PageUnits <= StartOf(o)
          /\ StartOf(o) \in Nat
      BY <1>2, <3>3, StartFacts
    <3>5. a + PageUnits <= StartOf(o)
      BY <3>2, <3>4
    <3> QED
      BY <1>4, <2>1, <2>5, <3>2, <3>4, <3>5
  <2> QED
    BY <2>5, <2>6, <2>7 DEF N, b, cut, o
<1>11. CASE N = 0
  <2>1. b = f /\ D = {}
    BY <1>1, <1>3, <1>11
  <2>2. o = old
    <3>1. DOMAIN o = DOMAIN old /\ \A p \in DOMAIN old : o[p] = old[p]
      BY <1>2, <2>1
    <3> QED
      BY <1>2, <1>7, <3>1
  <2>3. CASE f = <<>>
    <3>1. cut = <<>>
      BY <2>1, <2>3 DEF cut, WithoutIndex
    <3>2. FileEnd(f) = 0
      BY <2>3 DEF FileEnd
    <3>3. DOMAIN old = {}
      <4> SUFFICES ASSUME NEW p \in DOMAIN old PROVE FALSE
        OBVIOUS
      <4>1. old[p] \in Nat /\ old[p] + PageUnits <= 0
        BY <1>5, <3>2
      <4> QED
        BY <1>4, <4>1
    <3>4. cut \in Seq(Unit) /\ Len(cut) = 0
      BY <3>1
    <3> QED
      BY <1>4, <2>2, <3>3, <3>4 DEF N, b, cut, o
  <2>4. CASE f # <<>>
    <3> DEFINE e == FileEnd(f)
    <3>1. e = Len(f) - IndexLength(f) /\ Len(f) # 0
      BY <1>7, <2>4 DEF FileEnd
    <3>2. e >= 1
      <4>1. CASE DOMAIN old = {}
        <5>1. Cardinality(DOMAIN old) = 0
          BY <4>1, FS_EmptySet
        <5> QED
          BY <1>6, <3>1, <5>1
      <4>2. CASE DOMAIN old # {}
        <5>1. PICK p \in DOMAIN old : TRUE
          BY <4>2
        <5> QED
          BY <1>4, <1>5, <1>6, <5>1
      <4> QED
        BY <4>1, <4>2
    <3>3. Len(b) - IndexLength(b) - 1 = e - 1 /\ e - 1 \in Nat /\ e - 1 <= Len(b) /\ b # <<>>
      BY <1>6, <2>1, <2>4, <3>1, <3>2
    <3>4. cut \in Seq(Unit) /\ Len(cut) = e - 1 /\ \A i \in 1..(e - 1) : cut[i] = f[i]
      BY <1>9, <2>1, <3>3
    <3>5. e \in Int /\ Len(cut) + 1 = e
      BY <1>6, <3>4
    <3> HIDE DEF e
    <3>6. ASSUME NEW p \in DOMAIN o
          PROVE  o[p] + PageUnits <= Len(cut) + 1 /\ Holds(cut, o[p], Contents(p))
      <4> DEFINE c == o[p]
                 pg == Contents(p)
      <4>1. c \in Nat /\ c + PageUnits <= e /\ Holds(f, c, pg)
        BY <1>5, <2>2, <3>6 DEF e
      <4> HIDE DEF c, pg
      <4>2. \A i \in (c + 1)..(c + PageUnits - 1) : cut[i] = f[i]
        <5> TAKE i \in (c + 1)..(c + PageUnits - 1)
        <5>1. i \in 1..(e - 1)
          BY <1>4, <3>5, <4>1
        <5> QED
          BY <3>4, <5>1
      <4>3. Holds(cut, c, pg)
        BY <4>1, <4>2, HoldsOn
      <4> QED
        BY <3>5, <4>1, <4>3 DEF c, pg
    <3>7. Len(cut) + 1 <= IF o = Nothing THEN 1 ELSE StartOf(o)
      BY <1>7, <2>2, <3>5 DEF e
    <3> QED
      BY <3>4, <3>6, <3>7 DEF N, b, cut, o
  <2> QED
    BY <2>3, <2>4
<1> QED
  BY <1>10, <1>11

\* The destructor and the next constructor lose no page.
LEMMA ReopenKeeps ==
    ASSUME IndexFits, CInv, Reopen
    PROVE  CInv'
<1>1. PICK order \in Orders : file' = Flushed(order)
  BY DEF Reopen
<1> DEFINE o == Prepared(order)
           cut == WithoutIndex(Batch(order))
           f == cut \o IndexBlock(o)
           old == pid_to_offset
           D == DOMAIN cache
           k == Cardinality(DOMAIN o)
<1>2. file' = f /\ pid_to_offset' = ReadIndex(f) /\ cache' = Nothing
      /\ page_pool' = [i \in 1..max_size |-> NoPage] /\ max_size' = max_size /\ stored' = stored
  BY <1>1 DEF Reopen, Flushed
<1>3. /\ cut \in Seq(Unit)
      /\ \A p \in DOMAIN o : o[p] + PageUnits <= Len(cut) + 1 /\ Holds(cut, o[p], Contents(p))
      /\ Len(cut) + 1 <= IF o = Nothing THEN 1 ELSE StartOf(o)
  BY CutFile
<1>4. /\ DOMAIN o = D \cup DOMAIN old /\ o \in [DOMAIN o -> Nat]
      /\ \A i \in 1..Len(order) : o[order[i]] = At(i)
      /\ \A p \in DOMAIN old \ D : o[p] = old[p]
  BY PreparedFacts
<1>5. DOMAIN o \subseteq Pid /\ IsFiniteSet(DOMAIN o) /\ k \in 0..Cardinality(Pid) /\ k \in Nat
  <2>1. DOMAIN o \subseteq Pid
    BY <1>4 DEF CInv, Typed
  <2> HIDE DEF o
  <2> QED
    BY <2>1, OffsetsFinite, PageAssumption
<1>6. /\ Len(order) \in Nat
      /\ \A i \in 1..Len(order) : order[i] \in D
      /\ \A p \in D : \E i \in 1..Len(order) : order[i] = p
  BY OrderFacts
<1>7. /\ BatchStart \in Nat
      /\ \A p \in DOMAIN old : old[p] + PageUnits <= BatchStart
      /\ PageUnits \in Nat /\ PageUnits >= 2
  BY StartFits, PageAssumption
<1>8. \A p, q \in DOMAIN old : p # q => old[p] + PageUnits <= old[q] \/ old[q] + PageUnits <= old[p]
  BY DEF CInv, OffsetsApart
<1>9. \A i \in 1..Len(order) : BatchStart <= At(i) /\ At(i) \in Nat
  <2> TAKE i \in 1..Len(order)
  <2>1. i \in Nat \ {0} /\ 1 \in Nat \ {0} /\ (i = 1 \/ 1 < i)
    BY <1>6
  <2>2. At(1) = BatchStart /\ At(i) \in Nat /\ (i = 1 \/ At(1) + PageUnits <= At(i))
    BY <1>7, <2>1, AtApart
  <2> QED
    BY <1>7, <2>2
<1>10. \A i, j \in 1..Len(order) : i # j => At(i) + PageUnits <= At(j) \/ At(j) + PageUnits <= At(i)
  <2> TAKE i, j \in 1..Len(order)
  <2>1. i \in Nat \ {0} /\ j \in Nat \ {0} /\ (i # j => i < j \/ j < i)
    BY <1>6
  <2> QED
    BY <1>7, <2>1, AtApart
<1> HIDE DEF o, cut, f, old, D
<1>11. Len(cut) \in Nat
  BY <1>3, LenProperties
<1>12. /\ f \in Seq(Unit) /\ f # <<>>
       /\ Len(f) = Len(cut) + k + 1
       /\ \A i \in 1..Len(cut) : f[i] = cut[i]
       /\ Last(f) = LengthUnit(k)
       /\ ReadIndex(f) = o
  BY <1>3, <1>4, <1>5, IndexRead DEF f
<1>13. FileEnd(f) = Len(cut) + 1
  <2>1. IndexLength(f) = k
    BY <1>12 DEF IndexLength, LengthUnit
  <2> HIDE DEF k
  <2> QED
    BY <1>5, <1>11, <1>12, <2>1 DEF FileEnd
<1>14. ASSUME NEW p \in DOMAIN o
       PROVE  o[p] + PageUnits <= FileEnd(f) /\ Holds(f, o[p], Contents(p))
  <2> DEFINE c == o[p]
             pg == Contents(p)
  <2>1. c \in Nat /\ c + PageUnits <= Len(cut) + 1 /\ Holds(cut, c, pg)
    BY <1>3, <1>4
  <2> HIDE DEF c, pg
  <2>2. \A i \in (c + 1)..(c + PageUnits - 1) : f[i] = cut[i]
    <3> TAKE i \in (c + 1)..(c + PageUnits - 1)
    <3>1. i \in 1..Len(cut)
      BY <1>7, <1>11, <2>1
    <3> QED
      BY <1>12, <3>1
  <2>3. Holds(f, c, pg)
    BY <2>1, <2>2, HoldsOn
  <2> QED
    BY <1>13, <2>1, <2>3 DEF c, pg
<1>15. ASSUME NEW p \in DOMAIN o, NEW q \in DOMAIN o, p # q
       PROVE  o[p] + PageUnits <= o[q] \/ o[q] + PageUnits <= o[p]
  <2>1. ASSUME NEW r \in D PROVE \E i \in 1..Len(order) : order[i] = r /\ o[r] = At(i)
    BY <1>4, <1>6
  <2>2. ASSUME NEW r \in D, NEW t \in DOMAIN old \ D PROVE o[t] + PageUnits <= o[r]
    <3>1. PICK i \in 1..Len(order) : o[r] = At(i)
      BY <2>1
    <3>2. o[t] \in Nat /\ o[t] + PageUnits <= BatchStart
      BY <1>4, <1>7
    <3> QED
      BY <1>7, <1>9, <3>1, <3>2
  <2>3. CASE p \in D /\ q \in D
    <3>1. PICK i \in 1..Len(order) : order[i] = p /\ o[p] = At(i)
      BY <2>1, <2>3
    <3>2. PICK j \in 1..Len(order) : order[j] = q /\ o[q] = At(j)
      BY <2>1, <2>3
    <3>3. i # j
      BY <1>15, <3>1, <3>2
    <3> QED
      BY <1>10, <3>1, <3>2, <3>3
  <2>4. CASE p \notin D /\ q \notin D
    <3>1. p \in DOMAIN old \ D /\ q \in DOMAIN old \ D
      BY <1>4, <1>15, <2>4
    <3> QED
      BY <1>4, <1>8, <1>15, <3>1
  <2>5. CASE p \in D /\ q \notin D
    BY <1>4, <1>15, <2>2, <2>5
  <2>6. CASE p \notin D /\ q \in D
    BY <1>4, <1>15, <2>2, <2>6
  <2> QED
    BY <2>3, <2>4, <2>5, <2>6
<1>16. \A p \in Pid : Contents(p)' = Contents(p)
  BY <1>2 DEF Contents
<1>17. pid_to_offset' = o
  BY <1>2, <1>12
<1>18. Typed'
  <2>1. DOMAIN cache' \subseteq Pid
    BY <1>2 DEF Nothing
  <2>2. page_pool' \in [1..max_size' -> Page \cup {NoPage}]
    BY <1>2
  <2> QED
    BY <1>2, <1>4, <1>5, <1>12, <1>17, <2>1, <2>2 DEF Typed, CInv
<1>19. PoolHolds'
  BY <1>2 DEF PoolHolds, Nothing
<1>20. FileHolds'
  BY <1>2, <1>5, <1>14, <1>16, <1>17 DEF FileHolds
<1>21. OffsetsApart'
  BY <1>15, <1>17 DEF OffsetsApart
<1>22. Unstored'
  BY <1>2, <1>4, <1>17 DEF CInv, Unstored, old
<1>23. IndexLast'
  BY <1>2, <1>12, <1>17 DEF IndexLast
<1>24. BatchBehind'
  <2>1. BatchStart' = StartOf(pid_to_offset')
    BY DEF BatchStart, StartOf
  <2> QED
    BY <1>2, <1>3, <1>11, <1>13, <1>17, <2>1 DEF BatchBehind
<1>25. IInv'
  BY NextOnce DEF CInv, Next
<1> QED
  BY <1>18, <1>19, <1>20, <1>21, <1>22, <1>23, <1>24, <1>25 DEF CInv

LEMMA NextHolds == IndexFits /\ CInv /\ [Next]_vars => CInv'
<1> SUFFICES ASSUME IndexFits, CInv, [Next]_vars PROVE CInv'
  OBVIOUS
<1>1. ASSUME NEW p \in Pid, Load(p) PROVE CInv'
  BY <1>1, LoadKeeps
<1>2. ASSUME NEW p \in Pid, Commit(p) PROVE CInv'
  BY <1>2, CommitKeeps
<1>3. CASE Reopen
  BY <1>3, ReopenKeeps
<1>4. CASE UNCHANGED vars
  <2>1. IInv'
    BY <1>4, NextOnce DEF CInv
  <2> QED
    BY <1>4, <2>1
    DEF vars, CInv, Typed, PoolHolds, FileHolds, OffsetsApart, Unstored, IndexLast,
        BatchBehind, BatchStart, Contents
<1> QED
  BY <1>1, <1>2, <1>3, <1>4 DEF Next

LEMMA Invariance ==
    ASSUME IndexFits
    PROVE  Spec => []CInv
<1>1. CInv /\ [Next]_vars => CInv'
  BY NextHolds
<1>2. Init => CInv
  BY InitHolds
<1> QED
  BY <1>1, <1>2, PTL DEF Spec

\* The pool, the offsets and the file are what the code takes them for; the
\* last unit of the file may always be read as the length of an index block.
THEOREM TypeCorrect ==
    ASSUME IndexFits
    PROVE  Spec => []TypeOK
<1>1. CInv => TypeOK
  <2> SUFFICES ASSUME CInv PROVE TypeOK
    OBVIOUS
  <2>1. Typed /\ IndexLast
    BY DEF CInv
  <2>2. free_pages \in Seq(1..max_size) /\ Range(cache) \subseteq 1..max_size
    BY DEF CInv, IInv, Once, Memory
  <2>3. Range(pid_to_offset) \subseteq Nat
    BY <2>1 DEF Typed, Range
  <2>4. file # <<>> => Last(file).kind \in {"zero", "length"}
    BY <2>1 DEF IndexLast, Zero, LengthUnit
  <2> QED
    BY <2>1, <2>2, <2>3, <2>4 DEF TypeOK, Typed
<1> QED
  BY <1>1, Invariance, PTL

\* No page is written over another, wherever commits, flushes and index blocks
\* have put them.
THEOREM PagesApart ==
    ASSUME IndexFits
    PROVE  Spec => []OffsetsApart
<1>1. CInv => OffsetsApart
  BY DEF CInv
<1> QED
  BY <1>1, Invariance, PTL

\* Get returns every page as it was stored last, however often it was evicted
\* and however often the cache was closed and opened again.
THEOREM PagesReturned ==
    ASSUME IndexFits
    PROVE  Spec => []StoredPageReturned
<1>1. CInv => StoredPageReturned
  <2> SUFFICES ASSUME CInv, NEW p \in Pid
               PROVE  (IF p \in DOMAIN cache THEN page_pool[cache[p]] ELSE FromDisk(p))
                        = [pid |-> p, updates |-> stored[p]]
    BY DEF StoredPageReturned
  <2>1. FromDisk(p) = Contents(p)
    BY ReadBack
  <2>2. p \in DOMAIN cache => page_pool[cache[p]] = Contents(p)
    BY DEF CInv, PoolHolds
  <2> QED
    BY <2>1, <2>2 DEF Contents
<1> QED
  BY <1>1, Invariance, PTL
=============================================================================
