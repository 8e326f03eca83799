---------------------------- MODULE DMMTrieProofs ----------------------------
(***************************************************************************)
(* Proofs about DMMTrie: types; a page in the cache is the page its stored *)
(* items rebuild; every version answers every key with its contents; a     *)
(* commit deletes no page it works on when the cache holds its pages; the  *)
(* root hashes are those of the contents, and proofs lead to them from the *)
(* values and from no others; a whole version verifies when it wrote all   *)
(* that it holds.                                                          *)
(***************************************************************************)
EXTENDS DMMTrie, NodesProofs

-----------------------------------------------------------------------------
(* Induction over the natural numbers *)

\* Every set of natural numbers has a least element.
LEMMA LeastElement ==
    ASSUME NEW T \in SUBSET Nat, T # {}
    PROVE  \E x \in T : \A y \in T : x <= y
<1> DEFINE R == OpToRel(<, Nat)
<1>1. IsWellFoundedOn(R, Nat)
  BY NatLessThanWellFounded
<1>2. \A x, y \in Nat : y < x => <<y, x>> \in R
  BY DEF OpToRel
<1> HIDE DEF R
<1>3. PICK x \in T : \A y \in T : ~ (<<y, x>> \in R)
  BY <1>1, WFMin
<1>4. \A y \in T : ~ (y < x)
  BY <1>2, <1>3
<1> QED
  BY <1>4

\* A set of natural numbers with a bound has a greatest element.
LEMMA GreatestElement ==
    ASSUME NEW n \in Nat, NEW T \in SUBSET (0..n), T # {}
    PROVE  \E x \in T : \A y \in T : y <= x
<1> DEFINE U == {k \in Nat : n - k \in T}
<1>1. U # {}
  <2>1. PICK x \in T : TRUE
    OBVIOUS
  <2>2. x \in 0..n
    BY <2>1
  <2>3. n - x \in Nat /\ n - (n - x) = x
    BY <2>2
  <2>4. n - x \in U
    BY <2>1, <2>3
  <2> QED
    BY <2>4
<1>2. PICK k \in U : \A j \in U : k <= j
  BY <1>1, LeastElement
<1>3. n - k \in T /\ k \in Nat
  BY <1>2
<1>4. ASSUME NEW y \in T PROVE y <= n - k
  <2>1. y \in 0..n
    OBVIOUS
  <2>2. n - y \in Nat /\ n - (n - y) = y
    BY <2>1
  <2>3. n - y \in U
    BY <2>2
  <2>4. k <= n - y
    BY <1>2, <2>3
  <2> QED
    BY <1>3, <2>1, <2>2, <2>4
<1> QED
  BY <1>3, <1>4

\* A set that holds 0 and with every number up to n the next one.
LEMMA CountUp ==
    ASSUME NEW n \in Nat, NEW S, 0 \in S, \A i \in 0..n : i \in S /\ i < n => i + 1 \in S
    PROVE  n \in S
<1> SUFFICES ASSUME n \notin S PROVE FALSE
  OBVIOUS
<1> DEFINE T == {i \in 0..n : i \notin S}
<1>1. T \in SUBSET Nat /\ T # {}
  OBVIOUS
<1>2. PICK k \in T : \A j \in T : k <= j
  BY <1>1, LeastElement
<1>3. k # 0 /\ k \in 0..n /\ k \notin S
  BY <1>2
<1>4. k - 1 \in 0..n /\ k - 1 \notin T /\ (k - 1) + 1 = k /\ k - 1 < n
  BY <1>2, <1>3
<1> QED
  BY <1>3, <1>4

\* A number times Tb.
LEMMA Divided ==
    ASSUME NEW n \in Nat
    PROVE  /\ Tb \in Nat \ {0} /\ n \div Tb \in Nat
           /\ (n \div Tb) * Tb <= n
           /\ n < ((n \div Tb) + 1) * Tb
           /\ n % Tb = n - (n \div Tb) * Tb
           /\ ((n \div Tb) * Tb) % 2 = 0
<1>1. Tb \in Nat \ {0} /\ Td \in Nat /\ Tb = 2 * Td
  BY ThresholdAssumption
<1> DEFINE q == n \div Tb
<1>2. q \in Nat /\ n % Tb \in 0..(Tb - 1) /\ n = q * Tb + (n % Tb)
  BY <1>1
<1> HIDE DEF q
<1>3. (q + 1) * Tb = q * Tb + Tb /\ q * Tb \in Nat
  BY <1>1, <1>2
<1>4. q * Tb = 2 * (q * Td) /\ q * Td \in Nat
  BY <1>1, <1>2
<1>5. (2 * (q * Td)) % 2 = 0
  BY <1>4
<1>6. (q * Tb) % 2 = 0
  BY <1>4, <1>5
<1>7. q * Tb <= n /\ n < (q + 1) * Tb /\ n % Tb = n - q * Tb
  BY <1>1, <1>2, <1>3
<1> QED
  BY <1>1, <1>2, <1>6, <1>7 DEF q

\* There is one multiple of Tb at a number.
LEMMA QuotientUnique ==
    ASSUME NEW n \in Nat, NEW q \in Nat, q * Tb <= n, n < (q + 1) * Tb
    PROVE  n \div Tb = q
<1> DEFINE p == n \div Tb
<1>1. Tb \in Nat \ {0} /\ p \in Nat /\ p * Tb <= n /\ n < (p + 1) * Tb
  BY Divided
<1> HIDE DEF p
<1>2. /\ p * Tb \in Nat /\ q * Tb \in Nat
      /\ (p + 1) * Tb = p * Tb + Tb /\ (q + 1) * Tb = q * Tb + Tb
  BY <1>1
<1>3. ASSUME p < q PROVE FALSE
  <2>1. q = (p + 1) + (q - p - 1) /\ q - p - 1 \in Nat /\ (q - p - 1) * Tb \in Nat
    BY <1>1, <1>3
  <2>2. q * Tb = (p + 1) * Tb + (q - p - 1) * Tb
    BY <1>1, <2>1
  <2> QED
    BY <1>1, <1>2, <2>1, <2>2
<1>4. ASSUME q < p PROVE FALSE
  <2>1. p = (q + 1) + (p - q - 1) /\ p - q - 1 \in Nat /\ (p - q - 1) * Tb \in Nat
    BY <1>1, <1>4
  <2>2. p * Tb = (q + 1) * Tb + (p - q - 1) * Tb
    BY <1>1, <2>1
  <2> QED
    BY <1>1, <1>2, <2>1, <2>2
<1> QED
  BY <1>1, <1>3, <1>4 DEF p

-----------------------------------------------------------------------------
(* Sequences *)

IsSeq(s) == s \in Seq(Range(s))

\* A sequence, whatever its members.
LEMMA SeqFacts ==
    ASSUME NEW s, IsSeq(s)
    PROVE  /\ Len(s) \in Nat /\ DOMAIN s = 1..Len(s)
           /\ Range(s) = {s[i] : i \in 1..Len(s)}
BY LenProperties DEF IsSeq, Range

LEMMA SeqOfSet ==
    ASSUME NEW S, NEW s \in Seq(S)
    PROVE  IsSeq(s) /\ Range(s) \subseteq S
<1>1. Len(s) \in Nat /\ s \in [1..Len(s) -> S] /\ DOMAIN s = 1..Len(s)
  BY LenProperties
<1>2. s \in [1..Len(s) -> Range(s)] /\ Range(s) \subseteq S
  BY <1>1 DEF Range
<1>3. s \in Seq(Range(s))
  BY <1>1, <1>2, SeqDef
<1> QED
  BY <1>2, <1>3 DEF IsSeq

LEMMA SeqInSet ==
    ASSUME NEW S, NEW s, IsSeq(s), \A i \in 1..Len(s) : s[i] \in S
    PROVE  s \in Seq(S)
<1>1. Range(s) \subseteq S
  BY SeqFacts
<1> QED
  BY <1>1, SeqMonotonic DEF IsSeq

LEMMA Concatenated ==
    ASSUME NEW s, IsSeq(s), NEW t, IsSeq(t)
    PROVE  /\ IsSeq(s \o t)
           /\ Len(s \o t) = Len(s) + Len(t)
           /\ \A i \in 1..Len(s) : (s \o t)[i] = s[i]
           /\ \A j \in 1..Len(t) : (s \o t)[Len(s) + j] = t[j]
<1> DEFINE m == Len(s)
           n == Len(t)
           u == s \o t
           S == Range(s) \cup Range(t)
<1>1. m \in Nat /\ n \in Nat
  BY SeqFacts
<1>2. s \in Seq(S) /\ t \in Seq(S)
  <2>1. Range(s) \subseteq S /\ Range(t) \subseteq S
    OBVIOUS
  <2> HIDE DEF S
  <2> QED
    BY <2>1, SeqMonotonic DEF IsSeq
<1> HIDE DEF S
<1>3. /\ u \in Seq(S) /\ Len(u) = m + n
      /\ \A i \in 1..(m + n) : u[i] = IF i <= m THEN s[i] ELSE t[i - m]
  BY <1>2, ConcatProperties
<1> HIDE DEF m, n, u
<1>4. \A i \in 1..m : i \in 1..(m + n) /\ i <= m
  BY <1>1
<1>5. \A j \in 1..n : m + j \in 1..(m + n) /\ ~ (m + j <= m) /\ (m + j) - m = j
  BY <1>1
<1>6. \A i \in 1..m : u[i] = s[i]
  BY <1>3, <1>4
<1>7. \A j \in 1..n : u[m + j] = t[j]
  BY <1>3, <1>5
<1>8. IsSeq(u)
  BY <1>3, SeqOfSet
<1> QED
  BY <1>3, <1>6, <1>7, <1>8 DEF m, n, u

\* Part of a sequence.
LEMMA Part ==
    ASSUME NEW s, IsSeq(s), NEW m \in 1..(Len(s) + 1), NEW n \in (m - 1)..Len(s)
    PROVE  /\ IsSeq(SubSeq(s, m, n)) /\ Len(SubSeq(s, m, n)) = n - m + 1
           /\ \A i \in 1..(n - m + 1) : SubSeq(s, m, n)[i] = s[m + i - 1]
<1>1. Len(s) \in Nat /\ \A i \in 1..Len(s) : s[i] \in Range(s)
  BY SeqFacts
<1>2. m \in Int /\ n \in Int /\ (\A i \in m..n : s[i] \in Range(s)) /\ n - m + 1 \in Nat
  BY <1>1
<1>3. /\ SubSeq(s, m, n) \in Seq(Range(s))
      /\ Len(SubSeq(s, m, n)) = IF m <= n THEN n - m + 1 ELSE 0
      /\ \A i \in 1..(n - m + 1) : SubSeq(s, m, n)[i] = s[m + i - 1]
  BY <1>2, SubSeqProperties
<1>4. IsSeq(SubSeq(s, m, n))
  BY <1>3, SeqOfSet
<1> QED
  BY <1>1, <1>2, <1>3, <1>4

-----------------------------------------------------------------------------
(* Keys and their pages *)

LEMMA KeyFacts ==
    ASSUME NEW k \in Key
    PROVE  /\ k \in Seq(Nibble) /\ Len(k) \in Nat \ {0} /\ IsSeq(k)
           /\ \A i \in 1..Len(k) : k[i] \in Nibble
<1>1. k \in Seq(Nibble) /\ k # <<>>
  BY KeyAssumption
<1> QED
  BY <1>1, EmptySeq, ElementOfSeq, SeqOfSet

LEMMA Prefix ==
    ASSUME NEW k \in Seq(Nibble), NEW i \in 0..Len(k)
    PROVE  /\ Upto(k, i) \in Seq(Nibble) /\ Len(Upto(k, i)) = i
           /\ \A j \in 1..i : Upto(k, i)[j] = k[j]
<1>1. Len(k) \in Nat /\ \A j \in 1..Len(k) : k[j] \in Nibble
  BY LenProperties, ElementOfSeq
<1>2. 1 \in Int /\ i \in Int /\ (\A j \in 1..i : k[j] \in Nibble) /\ i - 1 + 1 = i
  BY <1>1
<1>3. /\ SubSeq(k, 1, i) \in Seq(Nibble)
      /\ Len(SubSeq(k, 1, i)) = IF 1 <= i THEN i - 1 + 1 ELSE 0
      /\ \A j \in 1..(i - 1 + 1) : SubSeq(k, 1, i)[j] = k[1 + j - 1]
  BY <1>2, SubSeqProperties
<1> QED
  BY <1>1, <1>2, <1>3 DEF Upto

\* A page of a key is a prefix of even length.
LEMMA PageOfKey ==
    ASSUME NEW k \in Key, NEW pid
    PROVE  pid \in PagesOf(k) <=>
               /\ pid \in Seq(Nibble) /\ Len(pid) \in 0..Len(k) /\ Len(pid) % 2 = 0
               /\ \A j \in 1..Len(pid) : pid[j] = k[j]
<1>1. k \in Seq(Nibble) /\ Len(k) \in Nat
  BY KeyFacts
<1>2. ASSUME pid \in PagesOf(k)
      PROVE  /\ pid \in Seq(Nibble) /\ Len(pid) \in 0..Len(k) /\ Len(pid) % 2 = 0
             /\ \A j \in 1..Len(pid) : pid[j] = k[j]
  <2>1. PICK i \in 0..Len(k) : i % 2 = 0 /\ pid = Upto(k, i)
    BY <1>2 DEF PagesOf
  <2> QED
    BY <1>1, <2>1, Prefix
<1>3. ASSUME pid \in Seq(Nibble), Len(pid) \in 0..Len(k), Len(pid) % 2 = 0,
             \A j \in 1..Len(pid) : pid[j] = k[j]
      PROVE  pid \in PagesOf(k)
  <2> DEFINE i == Len(pid)
  <2>1. Upto(k, i) \in Seq(Nibble) /\ Len(Upto(k, i)) = i /\ \A j \in 1..i : Upto(k, i)[j] = k[j]
    BY <1>1, <1>3, Prefix
  <2>2. pid = Upto(k, i)
    BY <1>3, <2>1, SeqEqual
  <2> HIDE DEF i
  <2>3. i \in {j \in 0..Len(k) : j % 2 = 0}
    BY <1>3 DEF i
  <2> QED
    BY <2>2, <2>3 DEF PagesOf
<1> QED
  BY <1>2, <1>3

\* How many nibbles of the key there are below the page, two at most.
DepthFor(pid, k) == IF Len(k) - Len(pid) >= 2 THEN 2 ELSE Len(k) - Len(pid)

LEMMA NibblesBelow ==
    ASSUME NEW k \in Key, NEW pid \in PagesOf(k)
    PROVE  /\ DepthFor(pid, k) \in 0..2
           /\ NibblesAfter(pid, k) \in Paths(DepthFor(pid, k))
           /\ Len(NibblesAfter(pid, k)) = DepthFor(pid, k)
           /\ \A i \in 1..DepthFor(pid, k) : NibblesAfter(pid, k)[i] = k[Len(pid) + i]
<1> DEFINE l == Len(pid)
           n == Len(k)
           d == DepthFor(pid, k)
           m == IF l + 2 <= n THEN l + 2 ELSE n
<1>1. /\ k \in Seq(Nibble) /\ n \in Nat /\ IsSeq(k) /\ \A i \in 1..n : k[i] \in Nibble
      /\ l \in 0..n
  BY KeyFacts, PageOfKey
<1>2. Min({l + 2, n}) = m
  <2>1. m \in {l + 2, n} /\ \A y \in {l + 2, n} : m <= y
    BY <1>1
  <2>2. \A x \in {l + 2, n} : (\A y \in {l + 2, n} : x <= y) => x = m
    BY <1>1
  <2> HIDE DEF m
  <2> QED
    BY <2>1, <2>2 DEF Min
<1>3. d \in 0..2 /\ m = l + d /\ m <= n
  BY <1>1 DEF DepthFor
<1>4. NibblesAfter(pid, k) = SubSeq(k, l + 1, m)
  BY <1>2 DEF NibblesAfter
<1> HIDE DEF m, d
<1>5. l + 1 \in 1..(n + 1) /\ m \in ((l + 1) - 1)..n /\ m - (l + 1) + 1 = d
  BY <1>1, <1>3
<1>6. /\ Len(SubSeq(k, l + 1, m)) = d /\ IsSeq(SubSeq(k, l + 1, m))
      /\ \A i \in 1..d : SubSeq(k, l + 1, m)[i] = k[(l + 1) + i - 1]
  BY <1>1, <1>5, Part
<1>7. \A i \in 1..d : (l + 1) + i - 1 = l + i /\ l + i \in 1..n
  BY <1>1, <1>3
<1>8. \A i \in 1..d : SubSeq(k, l + 1, m)[i] \in Nibble
  BY <1>1, <1>6, <1>7
<1>9. SubSeq(k, l + 1, m) \in Seq(Nibble)
  BY <1>6, <1>8, SeqInSet
<1>10. SubSeq(k, l + 1, m) \in Paths(d)
  BY <1>3, <1>6, <1>9, PathsAreSequences
<1> QED
  BY <1>3, <1>4, <1>6, <1>7, <1>10 DEF d

\* The nibbles below a page are as many for every key.
Depth(pid) == Len(CHOOSE m \in NibblesIn(pid, Key) : TRUE)

LEMMA PidFacts ==
    ASSUME NEW pid \in Pid
    PROVE  /\ pid \in Seq(Nibble) /\ Len(pid) \in Nat /\ Len(pid) % 2 = 0 /\ IsSeq(pid)
           /\ \E k \in Key : pid \in PagesOf(k)
           /\ Depth(pid) \in 0..2
           /\ \A k \in Key : pid \in PagesOf(k) => Depth(pid) = DepthFor(pid, k)
<1>1. PICK k \in Key : pid \in PagesOf(k)
  BY DEF Pid
<1>2. /\ pid \in Seq(Nibble) /\ Len(pid) \in 0..Len(k) /\ Len(pid) % 2 = 0
      /\ Len(k) \in Nat
  BY <1>1, PageOfKey, KeyFacts
<1>3. IsSeq(pid)
  BY <1>2, SeqOfSet
<1> DEFINE c == CHOOSE m \in NibblesIn(pid, Key) : TRUE
<1>4. NibblesAfter(pid, k) \in NibblesIn(pid, Key)
  BY <1>1 DEF NibblesIn
<1>5. c \in NibblesIn(pid, Key) /\ Depth(pid) = Len(c)
  BY <1>4 DEF Depth
<1> HIDE DEF c
<1>6. ASSUME NEW l \in Key, pid \in PagesOf(l) PROVE Depth(pid) = DepthFor(pid, l)
  <2>1. NibblesAfter(pid, l) \in NibblesIn(pid, Key)
    BY <1>6 DEF NibblesIn
  <2>2. Len(NibblesAfter(pid, l)) = Len(c)
    BY <1>5, <2>1, ShapeAssumption
  <2> QED
    BY <1>5, <1>6, <2>2, NibblesBelow
<1>7. Depth(pid) \in 0..2
  BY <1>1, <1>6, NibblesBelow
<1> QED
  BY <1>1, <1>2, <1>3, <1>6, <1>7

\* The nibbles that these keys have below a page.
LEMMA NibblesFacts ==
    ASSUME NEW pid \in Pid, NEW keys \in SUBSET Key, NEW m \in NibblesIn(pid, keys)
    PROVE  /\ m \in Paths(Depth(pid)) /\ m \in Seq(Nibble) /\ Len(m) = Depth(pid)
           /\ \E k \in keys : /\ pid \in PagesOf(k) /\ m = NibblesAfter(pid, k)
                              /\ Depth(pid) = DepthFor(pid, k)
                              /\ \A i \in 1..Depth(pid) : m[i] = k[Len(pid) + i]
<1>1. PICK k \in keys : pid \in PagesOf(k) /\ m = NibblesAfter(pid, k)
  BY DEF NibblesIn
<1>2. Depth(pid) = DepthFor(pid, k) /\ Depth(pid) \in 0..2
  BY <1>1, PidFacts
<1>3. m \in Paths(Depth(pid)) /\ \A i \in 1..Depth(pid) : m[i] = k[Len(pid) + i]
  BY <1>1, <1>2, NibblesBelow
<1> QED
  BY <1>1, <1>2, <1>3, PathsAreSequences

\* The key begins with this path.
StartsWith(k, path) ==
    /\ Len(path) <= Len(k)
    /\ \A i \in 1..Len(path) : k[i] = path[i]

LEMMA PathFacts ==
    ASSUME NEW pid \in Pid, NEW m \in Paths(Depth(pid))
    PROVE  /\ pid \o m \in Seq(Nibble) /\ Len(pid \o m) = Len(pid) + Depth(pid)
           /\ \A i \in 1..Len(pid) : (pid \o m)[i] = pid[i]
           /\ \A i \in 1..Depth(pid) : (pid \o m)[Len(pid) + i] = m[i]
<1>1. /\ pid \in Seq(Nibble) /\ IsSeq(pid) /\ Depth(pid) \in 0..2
  BY PidFacts
<1>2. m \in Seq(Nibble) /\ Len(m) = Depth(pid) /\ IsSeq(m)
  BY <1>1, PathsAreSequences, SeqOfSet
<1>3. /\ Len(pid \o m) = Len(pid) + Len(m)
      /\ \A i \in 1..Len(pid) : (pid \o m)[i] = pid[i]
      /\ \A i \in 1..Len(m) : (pid \o m)[Len(pid) + i] = m[i]
  <2>1. IsSeq(pid) /\ IsSeq(m)
    BY <1>1, <1>2
  <2> QED
    BY <2>1, Concatenated
<1>4. pid \o m \in Seq(Nibble)
  BY <1>1, <1>2, ConcatProperties
<1> QED
  BY <1>2, <1>3, <1>4, Zenon

\* The keys that go through a page start with its id.
LEMMA StartsWithPage ==
    ASSUME NEW pid \in Pid, NEW k \in Key
    PROVE  StartsWith(k, pid) <=> pid \in PagesOf(k)
BY PidFacts, KeyFacts, PageOfKey DEF StartsWith

\* The keys that go through a page and these nibbles below it.
LEMMA StartsBelow ==
    ASSUME NEW pid \in Pid, NEW m \in Paths(Depth(pid)), NEW k \in Key
    PROVE  StartsWith(k, pid \o m) <=> pid \in PagesOf(k) /\ NibblesAfter(pid, k) = m
<1> DEFINE d == Depth(pid)
           l == Len(pid)
           path == pid \o m
<1>1. d \in 0..2 /\ l \in Nat
  BY PidFacts
<1>2. /\ Len(path) = l + d
      /\ \A i \in 1..l : path[i] = pid[i]
      /\ \A i \in 1..d : path[l + i] = m[i]
  BY PathFacts, Zenon
<1> HIDE DEF path
<1>3. ASSUME StartsWith(k, path) PROVE pid \in PagesOf(k) /\ NibblesAfter(pid, k) = m
  <2>1. l + d <= Len(k) /\ Len(k) \in Nat /\ \A i \in 1..(l + d) : k[i] = path[i]
    BY <1>2, <1>3, KeyFacts DEF StartsWith
  <2>2. \A i \in 1..l : i \in 1..(l + d)
    BY <1>1
  <2>3. \A i \in 1..d : l + i \in 1..(l + d)
    BY <1>1
  <2>4. StartsWith(k, pid)
    BY <1>1, <1>2, <2>1, <2>2 DEF StartsWith
  <2>5. pid \in PagesOf(k)
    BY <2>4, StartsWithPage
  <2>6. d = DepthFor(pid, k)
    BY <2>5, PidFacts
  <2> DEFINE n == NibblesAfter(pid, k)
  <2>7. n \in Paths(d) /\ \A i \in 1..d : n[i] = k[l + i]
    BY <2>5, <2>6, NibblesBelow
  <2> HIDE DEF n
  <2>8. \A i \in 1..d : n[i] = m[i]
    BY <1>2, <2>1, <2>3, <2>7
  <2> HIDE DEF d
  <2>9. n = m
    BY <1>1, <2>7, <2>8, PathsAreSequences DEF d
  <2> QED
    BY <2>5, <2>9 DEF n
<1>4. ASSUME pid \in PagesOf(k), NibblesAfter(pid, k) = m PROVE StartsWith(k, path)
  <2>1. d = DepthFor(pid, k)
    BY <1>4, PidFacts
  <2>2. \A i \in 1..d : m[i] = k[l + i]
    BY <1>4, <2>1, NibblesBelow
  <2>3. l \in 0..Len(k) /\ Len(k) \in Nat /\ \A i \in 1..l : pid[i] = k[i]
    BY <1>4, PageOfKey, KeyFacts
  <2>4. l + d <= Len(k)
    BY <1>1, <2>1, <2>3 DEF DepthFor
  <2>5. ASSUME NEW i \in 1..(l + d) PROVE k[i] = path[i]
    <3>1. CASE i <= l
      BY <1>1, <1>2, <2>3, <3>1
    <3>2. CASE i > l
      <4>1. i - l \in 1..d /\ l + (i - l) = i
        BY <1>1, <3>2
      <4> QED
        BY <1>2, <2>2, <4>1
    <3> QED
      BY <1>1, <3>1, <3>2
  <2> QED
    BY <1>2, <2>4, <2>5 DEF StartsWith
<1> QED
  BY <1>3, <1>4 DEF path

\* Nibbles below a page of a key lead to the next page, or to the key.
LEMMA NextPage ==
    ASSUME NEW pid \in Pid, NEW k \in Key, pid \in PagesOf(k)
    PROVE  LET path == pid \o NibblesAfter(pid, k)
           IN  /\ NibblesAfter(pid, k) \in Paths(Depth(pid))
               /\ Depth(pid) = 2 => /\ path \in PagesOf(k) /\ path \in Pid
                                    /\ Len(path) = Len(pid) + 2
               /\ Depth(pid) # 2 => path = k
<1> DEFINE d == Depth(pid)
           l == Len(pid)
           m == NibblesAfter(pid, k)
           path == pid \o m
<1>1. d \in 0..2 /\ l \in Nat /\ l % 2 = 0 /\ d = DepthFor(pid, k)
  BY PidFacts
<1>2. m \in Paths(d)
  BY <1>1, NibblesBelow
<1>3. StartsWith(k, path)
  BY <1>2, StartsBelow
<1>4. path \in Seq(Nibble) /\ Len(path) = l + d
  BY <1>2, PathFacts, Zenon
<1>5. l \in 0..Len(k) /\ Len(k) \in Nat /\ k \in Seq(Nibble)
  BY PageOfKey, KeyFacts
<1> HIDE DEF path
<1>6. ASSUME d = 2 PROVE path \in PagesOf(k)
  <2>1. Len(path) \in 0..Len(k) /\ Len(path) % 2 = 0
    BY <1>1, <1>3, <1>4, <1>5, <1>6 DEF StartsWith
  <2>2. \A j \in 1..Len(path) : path[j] = k[j]
    BY <1>3 DEF StartsWith
  <2> QED
    BY <1>4, <2>1, <2>2, PageOfKey
<1>7. ASSUME d # 2 PROVE path = k
  <2>1. Len(path) = Len(k)
    BY <1>1, <1>4, <1>5, <1>7 DEF DepthFor
  <2>2. \A j \in 1..Len(path) : path[j] = k[j]
    BY <1>3 DEF StartsWith
  <2> QED
    BY <1>4, <1>5, <2>1, <2>2, SeqEqual
<1> QED
  BY <1>2, <1>4, <1>6, <1>7 DEF path, Pid

\* The first page of every key, and its pages one after the other.
LEMMA PageNumbered ==
    ASSUME NEW k \in Key, NEW n \in Nat, 2 * n <= Len(k)
    PROVE  /\ Upto(k, 2 * n) \in PagesOf(k) /\ Upto(k, 2 * n) \in Pid
           /\ Len(Upto(k, 2 * n)) = 2 * n
           /\ 2 * n + 2 <= Len(k) =>
                 /\ Depth(Upto(k, 2 * n)) = 2
                 /\ Upto(k, 2 * (n + 1)) = Upto(k, 2 * n) \o NibblesAfter(Upto(k, 2 * n), k)
           /\ 2 * n + 2 > Len(k) => Depth(Upto(k, 2 * n)) = Len(k) - 2 * n
<1> DEFINE pid == Upto(k, 2 * n)
           m == NibblesAfter(pid, k)
<1>1. k \in Seq(Nibble) /\ Len(k) \in Nat /\ 2 * n \in 0..Len(k) /\ (2 * n) % 2 = 0
  BY KeyFacts
<1>2. pid \in Seq(Nibble) /\ Len(pid) = 2 * n
  BY <1>1, Prefix
<1>3. pid \in PagesOf(k)
  BY <1>1 DEF PagesOf
<1>4. pid \in Pid
  BY <1>3 DEF Pid
<1>5. Depth(pid) = IF Len(k) - 2 * n >= 2 THEN 2 ELSE Len(k) - 2 * n
  BY <1>2, <1>3, <1>4, PidFacts DEF DepthFor
<1> HIDE DEF pid
<1>6. ASSUME 2 * n + 2 <= Len(k) PROVE Upto(k, 2 * (n + 1)) = pid \o m
  <2> DEFINE q == Upto(k, 2 * (n + 1))
             path == pid \o m
  <2>1. Depth(pid) = 2
    BY <1>1, <1>5, <1>6
  <2>2. /\ path \in PagesOf(k) /\ path \in Pid /\ Len(path) = 2 * n + 2
    BY <1>2, <1>3, <1>4, <2>1, NextPage
  <2> HIDE DEF path
  <2>3. path \in Seq(Nibble) /\ \A j \in 1..Len(path) : path[j] = k[j]
    BY <2>2, PageOfKey
  <2>4. 2 * (n + 1) \in 0..Len(k) /\ 2 * (n + 1) = 2 * n + 2
    BY <1>1, <1>6
  <2>5. q \in Seq(Nibble) /\ Len(q) = 2 * n + 2 /\ \A j \in 1..(2 * n + 2) : q[j] = k[j]
    BY <1>1, <2>4, Prefix
  <2> HIDE DEF q
  <2>6. q = path
    BY <2>2, <2>3, <2>5, SeqEqual
  <2> QED
    BY <2>6 DEF q, path
<1> QED
  BY <1>1, <1>2, <1>3, <1>4, <1>5, <1>6 DEF pid

-----------------------------------------------------------------------------
(* The order of the nibbles *)

LEMMA LessByNibble ==
    ASSUME NEW d \in 1..2, NEW m \in Paths(d), NEW n \in Paths(d)
    PROVE  /\ m[1] < n[1] => Less(m, n)
           /\ d = 2 /\ m[1] = n[1] /\ m[2] < n[2] => Less(m, n)
<1>1. /\ m \in Seq(Nibble) /\ n \in Seq(Nibble) /\ Len(m) = d /\ Len(n) = d
      /\ DOMAIN m = 1..d
  BY PathsAreSequences DEF Paths
<1>2. ASSUME m[1] < n[1] PROVE Less(m, n)
  <2>1. Upto(m, 1 - 1) = <<>> /\ Upto(n, 1 - 1) = <<>>
    BY SubSeqEmpty DEF Upto
  <2> QED
    BY <1>1, <1>2, <2>1 DEF Less
<1>3. ASSUME d = 2, m[1] = n[1], m[2] < n[2] PROVE Less(m, n)
  <2> DEFINE p == Upto(m, 1)
             q == Upto(n, 1)
  <2>1. /\ p \in Seq(Nibble) /\ Len(p) = 1 /\ \A j \in 1..1 : p[j] = m[j]
        /\ q \in Seq(Nibble) /\ Len(q) = 1 /\ \A j \in 1..1 : q[j] = n[j]
    <3>1. 1 \in 0..Len(m) /\ 1 \in 0..Len(n)
      BY <1>1, <1>3
    <3> HIDE DEF p, q
    <3> QED
      BY <1>1, <3>1, Prefix DEF p, q
  <2> HIDE DEF p, q
  <2>2. \A j \in 1..1 : p[j] = q[j]
    BY <1>3, <2>1
  <2>3. p = q
    BY <2>1, <2>2, SeqEqual
  <2>4. 2 \in DOMAIN m /\ 2 - 1 = 1
    BY <1>1, <1>3
  <2> QED
    BY <1>3, <2>3, <2>4 DEF Less, p, q
<1> QED
  BY <1>2, <1>3

LEMMA FirstNibbles ==
    ASSUME NEW d \in 0..2, NEW S \in SUBSET Paths(d), S # {}
    PROVE  \E m \in S : \A n \in S : n = m \/ Less(m, n)
<1>1. Nibble \subseteq Nat
  BY FanoutAssumption DEF Nibble
<1>2. CASE d = 0
  <2>1. \A m, n \in S : m = n
    BY <1>2 DEF Paths
  <2> QED
    BY <2>1
<1>3. CASE d # 0
  <2>1. d \in 1..2 /\ \A n \in S : n[1] \in Nibble /\ (d = 2 => n[2] \in Nibble)
    <3>1. d \in 1..2 /\ \A i \in 1..d : \A n \in S : n[i] \in Nibble
      BY <1>3 DEF Paths
    <3> QED
      BY <3>1
  <2> DEFINE firsts == {n[1] : n \in S}
  <2>2. firsts \in SUBSET Nat /\ firsts # {}
    BY <1>1, <2>1
  <2>3. PICK i \in firsts : \A j \in firsts : i <= j
    BY <2>2, LeastElement
  <2>4. PICK f \in S : f[1] = i
    BY <2>3
  <2>5. \A n \in S : i <= n[1] /\ n[1] \in Nat
    BY <1>1, <2>1, <2>3
  <2>6. CASE d = 1
    <3>1. ASSUME NEW n \in S PROVE n = f \/ Less(f, n)
      <4>1. CASE n[1] = i
        <5>1. \A j \in 1..1 : n[j] = f[j]
          BY <2>4, <4>1
        <5>2. n = f
          BY <2>6, <5>1, PathsAreSequences
        <5> QED
          BY <5>2
      <4>2. CASE n[1] # i
        <5>1. f[1] < n[1]
          BY <2>4, <2>5, <4>2
        <5> QED
          BY <2>1, <5>1, LessByNibble
      <4> QED
        BY <4>1, <4>2
    <3> QED
      BY <3>1
  <2>7. CASE d = 2
    <3> DEFINE seconds == {n[2] : n \in {l \in S : l[1] = i}}
    <3>1. seconds \in SUBSET Nat /\ seconds # {}
      BY <1>1, <2>1, <2>4, <2>7
    <3>2. PICK k \in seconds : \A j \in seconds : k <= j
      BY <3>1, LeastElement
    <3>3. PICK m \in S : m[1] = i /\ m[2] = k
      BY <3>2
    <3>4. ASSUME NEW n \in S PROVE n = m \/ Less(m, n)
      <4>1. CASE n[1] # i
        <5>1. m[1] < n[1]
          BY <2>5, <3>3, <4>1
        <5> QED
          BY <2>1, <5>1, LessByNibble
      <4>2. CASE n[1] = i /\ n[2] # k
        <5>1. n[2] \in seconds
          BY <4>2
        <5>2. k <= n[2] /\ n[2] \in Nat /\ k \in Nat
          BY <3>1, <3>2, <5>1
        <5>3. m[1] = n[1] /\ m[2] < n[2]
          BY <3>3, <4>2, <5>2
        <5> QED
          BY <2>1, <2>7, <5>3, LessByNibble
      <4>3. CASE n[1] = i /\ n[2] = k
        <5>1. \A j \in 1..2 : n[j] = m[j]
          BY <3>3, <4>3
        <5>2. n = m
          BY <2>7, <5>1, PathsAreSequences
        <5> QED
          BY <5>2
      <4> QED
        BY <4>1, <4>2, <4>3
    <3> QED
      BY <3>4
  <2> QED
    BY <2>1, <2>6, <2>7
<1> QED
  BY <1>2, <1>3

LEMMA FinitePaths ==
    ASSUME NEW d \in 0..2
    PROVE  IsFiniteSet(Paths(d))
<1>1. IsFiniteSet(Nibble)
  BY FS_Interval, FanoutAssumption DEF Nibble
<1>2. CASE d = 0
  <2>1. Paths(d) = {[i \in 1..0 |-> 0]}
    <3>1. Paths(d) = [1..0 -> Nibble] /\ 1..0 = {}
      BY <1>2 DEF Paths
    <3>2. \A m \in [{} -> Nibble] : m = [i \in {} |-> 0]
      OBVIOUS
    <3>3. [i \in {} |-> 0] \in [{} -> Nibble]
      OBVIOUS
    <3> QED
      BY <3>1, <3>2, <3>3
  <2> QED
    BY <2>1, FS_Singleton
<1>3. CASE d = 1
  <2> DEFINE f == [i \in Nibble |-> [x \in 1..1 |-> i]]
  <2>1. f \in [Nibble -> Paths(d)]
    BY <1>3 DEF Paths
  <2>2. ASSUME NEW m \in Paths(d) PROVE \E i \in Nibble : f[i] = m
    <3>1. m = [x \in 1..1 |-> m[1]] /\ m[1] \in Nibble
      BY <1>3 DEF Paths
    <3> QED
      BY <3>1
  <2> HIDE DEF f
  <2>3. f \in Surjection(Nibble, Paths(d))
    BY <2>1, <2>2 DEF Surjection
  <2> QED
    BY <1>1, <2>3, FS_Surjection
<1>4. CASE d = 2
  <2> DEFINE f == [p \in Nibble \X Nibble |-> [x \in 1..2 |-> IF x = 1 THEN p[1] ELSE p[2]]]
  <2>1. f \in [Nibble \X Nibble -> Paths(d)]
    BY <1>4 DEF Paths
  <2>2. ASSUME NEW m \in Paths(d) PROVE \E p \in Nibble \X Nibble : f[p] = m
    <3>1. /\ m = [x \in 1..2 |-> IF x = 1 THEN m[1] ELSE m[2]]
          /\ m[1] \in Nibble /\ m[2] \in Nibble
      BY <1>4 DEF Paths
    <3>2. <<m[1], m[2]>> \in Nibble \X Nibble
      BY <3>1
    <3>3. f[<<m[1], m[2]>>] = [x \in 1..2 |-> IF x = 1 THEN m[1] ELSE m[2]]
      BY <3>2
    <3> QED
      BY <3>1, <3>2, <3>3
  <2> HIDE DEF f
  <2>3. f \in Surjection(Nibble \X Nibble, Paths(d))
    BY <2>1, <2>2 DEF Surjection
  <2>4. IsFiniteSet(Nibble \X Nibble)
    BY <1>1, FS_Product
  <2> QED
    BY <2>3, <2>4, FS_Surjection
<1> QED
  BY <1>2, <1>3, <1>4

Sorted(s, n) == \A i, j \in 1..n : i < j => Less(s[i], s[j])

LEMMA OrderExists ==
    ASSUME NEW d \in 0..2, NEW S \in SUBSET Paths(d)
    PROVE  /\ IsFiniteSet(S) /\ Cardinality(S) \in Nat
           /\ \E s \in [1..Cardinality(S) -> S] : Sorted(s, Cardinality(S))
<1>1. ASSUME NEW R \in SUBSET Paths(d) PROVE IsFiniteSet(R) /\ Cardinality(R) \in Nat
  BY FinitePaths, FS_Subset, FS_CardinalityType
<1> DEFINE Orders(R, n) == \E s \in [1..n -> R] : Sorted(s, n)
           T == {n \in Nat : \A R \in SUBSET Paths(d) : Cardinality(R) = n => Orders(R, n)}
<1>2. 0 \in T
  <2>1. ASSUME NEW R \in SUBSET Paths(d) PROVE Orders(R, 0)
    <3>1. [i \in 1..0 |-> i] \in [1..0 -> R] /\ Sorted([i \in 1..0 |-> i], 0)
      BY DEF Sorted
    <3> QED
      BY <3>1
  <2> QED
    BY <2>1
<1>3. ASSUME NEW n \in 0..Cardinality(S), n \in T, n < Cardinality(S) PROVE n + 1 \in T
  <2>1. n \in Nat /\ n + 1 \in Nat /\ n + 1 # 0
    BY <1>1
  <2>2. ASSUME NEW R \in SUBSET Paths(d), Cardinality(R) = n + 1 PROVE Orders(R, n + 1)
    <3>1. R # {} /\ IsFiniteSet(R)
      BY <1>1, <2>1, <2>2, FS_EmptySet
    <3>2. PICK m \in R : \A l \in R : l = m \/ Less(m, l)
      BY <3>1, FirstNibbles
    <3>3. Cardinality(R \ {m}) = n
      <4>1. Cardinality(R \ {m}) = Cardinality(R) - 1
        BY <3>1, FS_RemoveElement
      <4> QED
        BY <2>1, <2>2, <4>1
    <3>4. PICK s \in [1..n -> R \ {m}] : Sorted(s, n)
      BY <1>3, <3>3
    <3> DEFINE t == [i \in 1..(n + 1) |-> IF i = 1 THEN m ELSE s[i - 1]]
    <3>5. \A i \in 1..(n + 1) : i # 1 => i - 1 \in 1..n
      BY <2>1
    <3>6. t \in [1..(n + 1) -> R]
      BY <3>4, <3>5
    <3>7. ASSUME NEW i \in 1..(n + 1), NEW j \in 1..(n + 1), i < j PROVE Less(t[i], t[j])
      <4>1. j # 1 /\ j - 1 \in 1..n /\ t[j] = s[j - 1] /\ s[j - 1] \in R \ {m}
        BY <2>1, <3>4, <3>5, <3>7
      <4>2. CASE i = 1
        BY <3>2, <4>1, <4>2
      <4>3. CASE i # 1
        <5>1. i - 1 \in 1..n /\ i - 1 < j - 1 /\ t[i] = s[i - 1]
          BY <2>1, <3>5, <3>7, <4>3
        <5> HIDE DEF t
        <5> QED
          BY <3>4, <4>1, <5>1 DEF Sorted
      <4> QED
        BY <4>2, <4>3
    <3> HIDE DEF t
    <3>8. Sorted(t, n + 1)
      BY <3>7 DEF Sorted
    <3> QED
      BY <3>6, <3>8
  <2> HIDE DEF Orders
  <2> QED
    BY <2>1, <2>2
<1> HIDE DEF Orders, T
<1>4. Cardinality(S) \in T
  BY <1>1, <1>2, <1>3, CountUp
<1>5. Orders(S, Cardinality(S))
  BY <1>4 DEF T
<1> QED
  BY <1>1, <1>5 DEF Orders

\* The nibbles of a page in order, each of them once.
LEMMA InOrderFacts ==
    ASSUME NEW d \in 0..2, NEW S \in SUBSET Paths(d)
    PROVE  LET order == InOrder(S)
           IN  /\ Len(order) \in Nat
               /\ Len(order) = Cardinality(S)
               /\ \A i \in 1..Len(order) : order[i] \in S
               /\ \A m \in S : \E i \in 1..Len(order) : order[i] = m
<1> DEFINE n == Cardinality(S)
           P(s) == \A i, j \in DOMAIN s : i < j => Less(s[i], s[j])
           order == InOrder(S)
<1>1. n \in Nat /\ \E s \in [1..n -> S] : P(s)
  BY OrderExists DEF Sorted
<1>2. order = CHOOSE s \in [1..n -> S] : P(s)
  BY DEF InOrder
<1> HIDE DEF order
<1>3. order \in [1..n -> S] /\ P(order)
  BY <1>1, <1>2
<1>4. order \in Seq(S) /\ Len(order) = n
  BY <1>1, <1>3
<1>5. \A m \in S : ~Less(m, m)
  <2> SUFFICES ASSUME NEW m \in S, NEW i \in DOMAIN m, m[i] < m[i] PROVE FALSE
    BY DEF Less
  <2>1. m[i] \in Nibble
    BY DEF Paths
  <2>2. m[i] \in Int
    BY <2>1, FanoutAssumption DEF Nibble
  <2> QED
    BY <2>2
<1>6. order \in Injection(1..n, S)
  <2> SUFFICES ASSUME NEW i \in 1..n, NEW j \in 1..n, order[i] = order[j], i # j PROVE FALSE
    BY <1>3 DEF Injection, IsInjective
  <2>1. i < j \/ j < i
    BY <1>1
  <2>2. Less(order[i], order[j]) \/ Less(order[j], order[i])
    BY <1>3, <2>1
  <2> QED
    BY <1>3, <1>5, <2>2
<1>7. order \in Surjection(1..n, S)
  <2>1. IsFiniteSet(S)
    BY OrderExists
  <2>2. Cardinality(1..n) = n
    BY <1>1, FS_Interval
  <2> HIDE DEF n
  <2> QED
    BY <1>6, <2>1, <2>2, FS_Injection DEF n
<1>8. \A m \in S : \E i \in 1..n : order[i] = m
  BY <1>7 DEF Surjection
<1> QED
  BY <1>1, <1>3, <1>4, <1>8 DEF order

-----------------------------------------------------------------------------
(* The three loops: over delta items, over the nibbles of a page and over the *)
(* pages of a key                                                             *)

\* A round of the loop.
Round(loop, before, n) ==
    IF loop.kind = "items" THEN UpdateDeltaItem(before, loop.over[n])
    ELSE IF loop.kind = "nibbles" THEN Step(before, loop.over, loop.order[n])
    ELSE IF loop.kind = "strings" THEN before \o loop.over[n]
    ELSE IF loop.kind = "proofs" THEN HashAbove(before, loop.over[n])
    ELSE Visit(before, loop.over, Upto(loop.over, 2 * (n - 1)))

LEMMA LoopExists ==
    ASSUME NEW loop, NEW N \in Nat
    PROVE  \E w : /\ w = [n \in 0..N |-> w[n]]
                  /\ w[0] = loop.start
                  /\ \A n \in 1..N : w[n] = Round(loop, w[n - 1], n)
<1> DEFINE Solves(w, n) ==
               /\ w = [i \in 0..N |-> w[i]]
               /\ w[0] = loop.start
               /\ \A i \in 1..N : i <= n => w[i] = Round(loop, w[i - 1], i)
           S == {n \in Nat : \E w : Solves(w, n)}
<1>1. 0 \in S
  <2> DEFINE w == [i \in 0..N |-> loop.start]
  <2>1. w = [i \in 0..N |-> w[i]]
    OBVIOUS
  <2>2. w[0] = loop.start
    OBVIOUS
  <2>3. \A i \in 1..N : ~ (i <= 0)
    OBVIOUS
  <2> HIDE DEF w
  <2>4. Solves(w, 0)
    BY <2>1, <2>2, <2>3
  <2> QED
    BY <2>4
<1>2. ASSUME NEW n \in 0..N, n \in S, n < N PROVE n + 1 \in S
  <2>1. PICK w : Solves(w, n)
    BY <1>2
  <2> DEFINE x == [i \in 0..N |-> IF i = 0 THEN loop.start ELSE Round(loop, w[i - 1], i)]
  <2>2. x = [i \in 0..N |-> x[i]]
    OBVIOUS
  <2>3. x[0] = loop.start
    OBVIOUS
  <2>4. \A i \in 1..N : x[i] = Round(loop, w[i - 1], i)
    OBVIOUS
  <2> HIDE DEF x
  <2>5. \A i \in 0..N : i <= n => x[i] = w[i]
    <3>1. \A i \in 1..N : i <= n => x[i] = w[i]
      BY <2>1, <2>4
    <3> QED
      BY <2>1, <2>3, <3>1
  <2>6. ASSUME NEW i \in 1..N, i <= n + 1 PROVE x[i] = Round(loop, x[i - 1], i)
    <3>1. i - 1 \in 0..N /\ i - 1 <= n
      BY <2>6
    <3>2. x[i - 1] = w[i - 1]
      BY <2>5, <3>1
    <3> QED
      BY <2>4, <3>2
  <2>7. Solves(x, n + 1)
    BY <2>2, <2>3, <2>6
  <2>8. n + 1 \in Nat
    BY <1>2
  <2> QED
    BY <2>7, <2>8
<1> HIDE DEF S
<1>3. N \in S
  BY <1>1, <1>2, CountUp
<1>4. PICK w : Solves(w, N)
  BY <1>3 DEF S
<1>5. \A n \in 1..N : n <= N
  OBVIOUS
<1> QED
  BY <1>4, <1>5

LEMMA ReplaySteps ==
    ASSUME NEW base, NEW its, Len(its) \in Nat
    PROVE  /\ Replay(base, its)[0] = base
           /\ \A n \in 1..Len(its) :
                 Replay(base, its)[n] = UpdateDeltaItem(Replay(base, its)[n - 1], its[n])
<1> DEFINE N == Len(its)
           loop == [kind |-> "items", start |-> base, over |-> its]
           Body(w) == [i \in 0..N |->
                          IF i = 0 THEN base ELSE UpdateDeltaItem(w[i - 1], its[i])]
           r == CHOOSE w : w = Body(w)
<1>1. Replay(base, its) = r
  BY DEF Replay
<1>2. PICK w : /\ w = [n \in 0..N |-> w[n]]
               /\ w[0] = loop.start
               /\ \A n \in 1..N : w[n] = Round(loop, w[n - 1], n)
  BY LoopExists
<1>3. \A n \in 1..N : w[n] = UpdateDeltaItem(w[n - 1], its[n])
  BY <1>2 DEF Round
<1>4. w[0] = base
  BY <1>2
<1>5. \A n \in 0..N : w[n] = IF n = 0 THEN base ELSE UpdateDeltaItem(w[n - 1], its[n])
  BY <1>3, <1>4
<1>6. w = Body(w)
  BY <1>2, <1>5
<1>7. r = Body(r)
  BY <1>6
<1> HIDE DEF r
<1>8. \A n \in 0..N : r[n] = IF n = 0 THEN base ELSE UpdateDeltaItem(r[n - 1], its[n])
  BY <1>7
<1>9. 0 \in 0..N /\ \A n \in 1..N : n \in 0..N /\ n # 0
  OBVIOUS
<1> QED
  BY <1>1, <1>8, <1>9

\* The runs of the loop of WorkOn, nibbles after nibbles.
WorksThrough(w, pid, start, order) ==
    /\ w[0] = start
    /\ \A n \in 1..Len(order) : w[n] = Step(w[n - 1], pid, order[n])
    /\ WorkOn(pid) = w[Len(order)]

LEMMA WorkSteps ==
    ASSUME NEW pid, NEW start, NEW order, Len(order) \in Nat,
           order = InOrder(NibblesIn(pid, DOMAIN put_cache)),
           start = [lru |-> GetPage(pagekeys, pid, PageVersion(pid)).lru,
                    fault |-> GetPage(pagekeys, pid, PageVersion(pid)).fault,
                    root |-> GetPage(pagekeys, pid, PageVersion(pid)).root,
                    items |-> items[pid], bases |-> bases[pid]]
    PROVE  \E w : WorksThrough(w, pid, start, order)
<1> DEFINE N == Len(order)
           loop == [kind |-> "nibbles", start |-> start, over |-> pid, order |-> order]
           Body(w) == [n \in 0..N |-> IF n = 0 THEN start ELSE Step(w[n - 1], pid, order[n])]
           r == CHOOSE w : w = Body(w)
<1>1. WorkOn(pid) = r[N]
  BY DEF WorkOn
<1>2. PICK w : /\ w = [n \in 0..N |-> w[n]]
               /\ w[0] = loop.start
               /\ \A n \in 1..N : w[n] = Round(loop, w[n - 1], n)
  BY LoopExists
<1>3. \A n \in 1..N : w[n] = Step(w[n - 1], pid, order[n])
  BY <1>2 DEF Round
<1>4. w[0] = start
  BY <1>2
<1>5. \A n \in 0..N : w[n] = IF n = 0 THEN start ELSE Step(w[n - 1], pid, order[n])
  BY <1>3, <1>4
<1>6. w = Body(w)
  BY <1>2, <1>5
<1>7. r = Body(r)
  BY <1>6
<1> HIDE DEF r
<1>8. \A n \in 0..N : r[n] = IF n = 0 THEN start ELSE Step(r[n - 1], pid, order[n])
  BY <1>7
<1>9. 0 \in 0..N /\ \A n \in 1..N : n \in 0..N /\ n # 0
  OBVIOUS
<1>10. r[0] = start /\ \A n \in 1..N : r[n] = Step(r[n - 1], pid, order[n])
  BY <1>8, <1>9
<1>11. WorksThrough(r, pid, start, order)
  BY <1>1, <1>10 DEF WorksThrough
<1> QED
  BY <1>11

\* The number of pages of a key.
PageCount(key) == Len(key) \div 2 + 1

LEMMA DescendSteps ==
    ASSUME NEW lru, NEW version, NEW key, PageCount(key) \in Nat
    PROVE  \E w : /\ w[0] = PathFrom(lru, version)
                  /\ \A n \in 1..PageCount(key) :
                        w[n] = Visit(w[n - 1], key, Upto(key, 2 * (n - 1)))
                  /\ Descend(lru, version, key) = w[PageCount(key)]
<1>1. PICK N \in Nat : N = PageCount(key)
  OBVIOUS
<1> DEFINE start == PathFrom(lru, version)
           loop == [kind |-> "pages", start |-> start, over |-> key]
           Body(w) == [n \in 0..N |-> IF n = 0 THEN start
                                      ELSE Visit(w[n - 1], key, Upto(key, 2 * (n - 1)))]
           r == CHOOSE w : w = Body(w)
<1>2. Descend(lru, version, key) = r[N]
  BY <1>1 DEF Descend, PageCount
<1>3. PICK w : /\ w = [n \in 0..N |-> w[n]]
               /\ w[0] = loop.start
               /\ \A n \in 1..N : w[n] = Round(loop, w[n - 1], n)
  <2> HIDE DEF loop
  <2>1. N \in Nat
    OBVIOUS
  <2> QED
    BY ONLY <2>1, LoopExists, Zenon
<1>4. \A n \in 1..N : w[n] = Visit(w[n - 1], key, Upto(key, 2 * (n - 1)))
  BY <1>3 DEF Round
<1>5. w[0] = start
  BY <1>3
<1>6. \A n \in 0..N : w[n] = IF n = 0 THEN start
                             ELSE Visit(w[n - 1], key, Upto(key, 2 * (n - 1)))
  BY <1>4, <1>5
<1>7. w = Body(w)
  BY <1>3, <1>6
<1>8. r = Body(r)
  BY <1>7
<1> HIDE DEF r, start
<1>9. \A n \in 0..N : r[n] = IF n = 0 THEN start
                             ELSE Visit(r[n - 1], key, Upto(key, 2 * (n - 1)))
  BY <1>8
<1>10. 0 \in 0..N /\ \A n \in 1..N : n \in 0..N /\ n # 0
  BY <1>1
<1>11. r[0] = start /\ \A n \in 1..N : r[n] = Visit(r[n - 1], key, Upto(key, 2 * (n - 1)))
  BY <1>9, <1>10
<1> QED
  BY <1>2, <1>11, <1>1 DEF start

-----------------------------------------------------------------------------
(* The cache *)

LEMMA Pushed ==
    ASSUME NEW s, IsSeq(s), NEW e
    PROVE  /\ IsSeq(<<e>> \o s) /\ Len(<<e>> \o s) = Len(s) + 1
           /\ (<<e>> \o s)[1] = e
           /\ \A i \in 1..Len(s) : (<<e>> \o s)[i + 1] = s[i]
<1> DEFINE t == <<e>>
<1>1. t \in Seq({e}) /\ Len(t) = 1 /\ t[1] = e
  OBVIOUS
<1> HIDE DEF t
<1>2. IsSeq(t)
  BY <1>1, SeqOfSet
<1>3. Len(s) \in Nat
  BY SeqFacts
<1> DEFINE u == t \o s
<1>4. /\ IsSeq(u) /\ Len(u) = Len(t) + Len(s)
      /\ \A i \in 1..Len(t) : u[i] = t[i]
      /\ \A j \in 1..Len(s) : u[Len(t) + j] = s[j]
  <2> HIDE DEF u
  <2>1. IsSeq(t) /\ IsSeq(s)
    BY <1>2
  <2> QED
    BY <2>1, Concatenated DEF u
<1> HIDE DEF u
<1>5. \A j \in 1..Len(s) : 1 + j = j + 1
  OBVIOUS
<1>6. /\ IsSeq(u) /\ Len(u) = Len(s) + 1
      /\ u[1] = e
      /\ \A i \in 1..Len(s) : u[i + 1] = s[i]
  BY <1>1, <1>3, <1>4, <1>5
<1> QED
  BY <1>6 DEF t, u

LEMMA FrontSeq ==
    ASSUME NEW s, IsSeq(s), Len(s) # 0
    PROVE  /\ IsSeq(Front(s)) /\ Len(Front(s)) = Len(s) - 1
           /\ \A i \in 1..(Len(s) - 1) : Front(s)[i] = s[i]
<1> DEFINE N == Len(s)
           t == SubSeq(s, 1, N - 1)
<1>1. N \in Nat
  BY SeqFacts
<1>2. 1 \in 1..(N + 1) /\ N - 1 \in (1 - 1)..N /\ (N - 1) - 1 + 1 = N - 1
  BY <1>1
<1>3. /\ IsSeq(t) /\ Len(t) = N - 1
      /\ \A i \in 1..(N - 1) : t[i] = s[1 + i - 1]
  BY <1>2, Part
<1>4. \A i \in 1..(N - 1) : 1 + i - 1 = i
  BY <1>1
<1> QED
  BY <1>3, <1>4 DEF Front

LEMMA RemoveSeq ==
    ASSUME NEW s, IsSeq(s), NEW i \in 1..Len(s)
    PROVE  /\ IsSeq(RemoveAt(s, i)) /\ Len(RemoveAt(s, i)) = Len(s) - 1
           /\ \A j \in 1..(i - 1) : RemoveAt(s, i)[j] = s[j]
           /\ \A j \in i..(Len(s) - 1) : RemoveAt(s, i)[j] = s[j + 1]
<1> DEFINE N == Len(s)
           f == SubSeq(s, 1, i - 1)
           g == SubSeq(s, i + 1, N)
           t == f \o g
<1>1. N \in Nat /\ i \in 1..N
  BY SeqFacts
<1>2. 1 \in 1..(N + 1) /\ i - 1 \in (1 - 1)..N /\ (i - 1) - 1 + 1 = i - 1
  BY <1>1
<1>3. i + 1 \in 1..(N + 1) /\ N \in ((i + 1) - 1)..N /\ N - (i + 1) + 1 = N - i
  BY <1>1
<1>4. /\ IsSeq(f) /\ Len(f) = i - 1
      /\ \A j \in 1..(i - 1) : f[j] = s[1 + j - 1]
  BY <1>2, Part
<1>5. /\ IsSeq(g) /\ Len(g) = N - i
      /\ \A j \in 1..(N - i) : g[j] = s[(i + 1) + j - 1]
  BY <1>3, Part, ZenonT(60)
<1> HIDE DEF f, g
<1>6. /\ IsSeq(t) /\ Len(t) = Len(f) + Len(g)
      /\ \A j \in 1..Len(f) : t[j] = f[j]
      /\ \A j \in 1..Len(g) : t[Len(f) + j] = g[j]
  <2> HIDE DEF t
  <2>1. IsSeq(f) /\ IsSeq(g)
    BY <1>4, <1>5
  <2> QED
    BY <2>1, Concatenated DEF t
<1>7. RemoveAt(s, i) = t
  BY DEF RemoveAt, f, g
<1> HIDE DEF t
<1>8. \A j \in 1..(i - 1) : t[j] = s[j]
  <2>1. \A j \in 1..(i - 1) : 1 + j - 1 = j
    BY <1>1
  <2> QED
    BY <1>4, <1>6, <2>1
<1>9. ASSUME NEW j \in i..(N - 1) PROVE t[j] = s[j + 1]
  <2> DEFINE k == j - i + 1
  <2>1. k \in 1..(N - i) /\ (i - 1) + k = j /\ (i + 1) + k - 1 = j + 1
    BY <1>1
  <2> HIDE DEF k
  <2>2. t[(i - 1) + k] = g[k]
    BY <1>4, <1>5, <1>6, <2>1
  <2>3. g[k] = s[(i + 1) + k - 1]
    BY <1>5, <2>1
  <2> QED
    BY <2>1, <2>2, <2>3
<1>10. Len(t) = N - 1
  BY <1>1, <1>4, <1>5, <1>6
<1> QED
  BY <1>6, <1>7, <1>8, <1>9, <1>10

\* No page is in the cache twice.
Distinct(lru) ==
    \A i, j \in 1..Len(lru) :
        lru[i].pid = lru[j].pid /\ lru[i].version = lru[j].version => i = j

LruOk(lru) == IsSeq(lru) /\ Len(lru) <= MaxCacheSize /\ Distinct(lru)

\* One of the entries to the front.
LEMMA MovedToFront ==
    ASSUME NEW lru, LruOk(lru), NEW i \in 1..Len(lru)
    PROVE  LET t == ToFront(lru, i)
           IN  /\ LruOk(t) /\ 1 \in 1..Len(t) /\ t[1] = lru[i]
               /\ \A j \in 1..Len(t) : \E k \in 1..Len(lru) : t[j] = lru[k]
               /\ \A k \in 1..Len(lru) : \E j \in 1..Len(t) : j <= k + 1 /\ t[j] = lru[k]
               /\ \A n \in Nat : i <= n =>
                     \A k \in 1..Len(lru) : k <= n => \E j \in 1..Len(t) : j <= n /\ t[j] = lru[k]
<1> DEFINE N == Len(lru)
           r == RemoveAt(lru, i)
           t == ToFront(lru, i)
<1>1. IsSeq(lru) /\ N \in Nat /\ i \in 1..N /\ N <= MaxCacheSize /\ Distinct(lru)
  BY SeqFacts DEF LruOk
<1>2. /\ IsSeq(r) /\ Len(r) = N - 1
      /\ \A j \in 1..(i - 1) : r[j] = lru[j]
      /\ \A j \in i..(N - 1) : r[j] = lru[j + 1]
  BY <1>1, RemoveSeq
<1> HIDE DEF r
<1>3. /\ IsSeq(t) /\ Len(t) = Len(r) + 1 /\ t[1] = lru[i]
      /\ \A j \in 1..Len(r) : t[j + 1] = r[j]
  BY <1>2, Pushed DEF ToFront, r
<1> HIDE DEF t
<1>4. Len(t) = N
  BY <1>1, <1>2, <1>3
<1>5. ASSUME NEW j \in 2..i PROVE t[j] = lru[j - 1]
  <2>1. j - 1 \in 1..(i - 1) /\ j - 1 \in 1..(N - 1) /\ (j - 1) + 1 = j
    BY <1>1
  <2> QED
    BY <1>2, <1>3, <2>1
<1>6. ASSUME NEW j \in (i + 1)..N PROVE t[j] = lru[j]
  <2>1. j - 1 \in i..(N - 1) /\ j - 1 \in 1..(N - 1) /\ (j - 1) + 1 = j
    BY <1>1
  <2> QED
    BY <1>2, <1>3, <2>1
<1> DEFINE from(j) == IF j = 1 THEN i ELSE IF j <= i THEN j - 1 ELSE j
           to(k) == IF k = i THEN 1 ELSE IF k < i THEN k + 1 ELSE k
<1>7. ASSUME NEW j \in 1..N PROVE from(j) \in 1..N /\ t[j] = lru[from(j)]
  <2>1. CASE j = 1
    BY <1>1, <1>3, <2>1
  <2>2. CASE j # 1 /\ j <= i
    <3>1. j \in 2..i
      BY <1>1, <2>2
    <3> QED
      BY <1>1, <1>5, <2>2, <3>1
  <2>3. CASE j # 1 /\ ~ (j <= i)
    <3>1. j \in (i + 1)..N
      BY <1>1, <2>3
    <3> QED
      BY <1>1, <1>6, <2>3, <3>1
  <2> QED
    BY <2>1, <2>2, <2>3
<1>8. \A k \in 1..N : to(k) \in 1..N /\ from(to(k)) = k /\ to(k) <= k + 1
  BY <1>1
<1>9. \A j, l \in 1..N : from(j) = from(l) => j = l
  BY <1>1
<1>10. \A n \in Nat : i <= n => \A k \in 1..N : k <= n => to(k) <= n
  BY <1>1
<1> HIDE DEF from, to
<1>11. \A k \in 1..N : t[to(k)] = lru[k]
  BY <1>7, <1>8
<1>12. Distinct(t)
  <2> SUFFICES ASSUME NEW j \in 1..N, NEW l \in 1..N,
                      t[j].pid = t[l].pid, t[j].version = t[l].version
               PROVE  j = l
    BY <1>4 DEF Distinct
  <2>1. /\ from(j) \in 1..N /\ t[j] = lru[from(j)]
        /\ from(l) \in 1..N /\ t[l] = lru[from(l)]
    BY <1>7
  <2>2. from(j) = from(l)
    BY <1>1, <2>1 DEF Distinct
  <2> QED
    BY <1>9, <2>2
<1>13. 1 \in 1..N
  BY <1>1
<1> QED
  BY <1>1, <1>3, <1>4, <1>7, <1>8, <1>10, <1>11, <1>12, <1>13 DEF LruOk, t

\* A page the cache does not have is put in it.
LEMMA PagePut ==
    ASSUME NEW lru, LruOk(lru), NEW e,
           \A i \in 1..Len(lru) : ~ (lru[i].pid = e.pid /\ lru[i].version = e.version)
    PROVE  LET t == PutPage(lru, e).lru
           IN  /\ LruOk(t) /\ 1 \in 1..Len(t) /\ t[1] = e
               /\ \A j \in 1..Len(t) : t[j] = e \/ \E k \in 1..Len(lru) : t[j] = lru[k]
               /\ \A k \in 1..Len(lru) : k < MaxCacheSize =>
                     k + 1 \in 1..Len(t) /\ t[k + 1] = lru[k]
               /\ (\A k \in 1..Len(lru) : lru[k].root # NoNode) => PutPage(lru, e).fault = "none"
<1> DEFINE N == Len(lru)
           M == MaxCacheSize
           t == PutPage(lru, e).lru
<1>1. /\ IsSeq(lru) /\ N \in Nat /\ N <= M /\ Distinct(lru) /\ M \in Nat \ {0}
  BY SeqFacts, CacheAssumption DEF LruOk
<1> DEFINE Kept(s) == /\ IsSeq(s) /\ Len(s) < M /\ Len(s) <= N
                      /\ \A k \in 1..Len(s) : s[k] = lru[k]
                      /\ \A k \in 1..N : k < M => k \in 1..Len(s)
<1>2. \E s : Kept(s) /\ t = <<e>> \o s
  <2>1. CASE N >= M
    <3> DEFINE s == Front(lru)
    <3>1. IsSeq(s) /\ Len(s) = N - 1 /\ \A k \in 1..(N - 1) : s[k] = lru[k]
      <4>1. N # 0
        BY <1>1, <2>1
      <4> QED
        BY <1>1, <4>1, FrontSeq
    <3>2. PutPage(lru, e) = [lru |-> <<e>> \o s, fault |-> Died(lru)]
      BY <2>1 DEF PutPage
    <3> HIDE DEF s
    <3>3. t = <<e>> \o s
      BY <3>2
    <3>4. Kept(s)
      BY <1>1, <2>1, <3>1
    <3> QED
      BY <3>3, <3>4
  <2>2. CASE ~ (N >= M)
    <3>1. PutPage(lru, e) = [lru |-> <<e>> \o lru, fault |-> "none"]
      BY <2>2 DEF PutPage
    <3>2. Kept(lru) /\ t = <<e>> \o lru
      BY <1>1, <2>2, <3>1
    <3> QED
      BY <3>2
  <2> QED
    BY <2>1, <2>2
<1>3. PICK s : Kept(s) /\ t = <<e>> \o s
  BY <1>2
<1> HIDE DEF t
<1>4. Len(s) \in Nat
  BY <1>3, SeqFacts
<1>5. /\ IsSeq(t) /\ Len(t) = Len(s) + 1 /\ t[1] = e
      /\ \A k \in 1..Len(s) : t[k + 1] = s[k]
  BY <1>3, Pushed
<1>6. Len(t) <= M /\ 1 \in 1..Len(t)
  BY <1>1, <1>3, <1>4, <1>5
<1>7. ASSUME NEW j \in 2..Len(t) PROVE j - 1 \in 1..N /\ t[j] = lru[j - 1]
  <2>1. j - 1 \in 1..Len(s) /\ (j - 1) + 1 = j /\ j - 1 \in 1..N
    BY <1>1, <1>3, <1>4, <1>5
  <2> QED
    BY <1>3, <1>5, <2>1
<1>8. \A j \in 1..Len(t) : j = 1 \/ j \in 2..Len(t)
  BY <1>4, <1>5
<1>9. \A j \in 1..Len(t) : t[j] = e \/ \E k \in 1..N : t[j] = lru[k]
  BY <1>5, <1>7, <1>8
<1>10. \A k \in 1..N : k < M => k + 1 \in 1..Len(t) /\ t[k + 1] = lru[k]
  <2>1. \A k \in 1..Len(s) : k + 1 \in 1..Len(t)
    BY <1>4, <1>5
  <2> QED
    BY <1>3, <1>5, <2>1
<1>11. Distinct(t)
  <2> SUFFICES ASSUME NEW i \in 1..Len(t), NEW j \in 1..Len(t),
                      t[i].pid = t[j].pid, t[i].version = t[j].version
               PROVE  i = j
    BY DEF Distinct
  <2>1. CASE i = 1 \/ j = 1
    BY <1>5, <1>7, <1>8, <2>1
  <2>2. CASE i # 1 /\ j # 1
    <3>1. /\ i - 1 \in 1..N /\ t[i] = lru[i - 1]
          /\ j - 1 \in 1..N /\ t[j] = lru[j - 1]
      BY <1>7, <1>8, <2>2
    <3>2. i - 1 = j - 1
      BY <1>1, <3>1 DEF Distinct
    <3> QED
      BY <1>4, <1>5, <3>2
  <2> QED
    BY <2>1, <2>2
<1>12. ASSUME \A k \in 1..N : lru[k].root # NoNode PROVE PutPage(lru, e).fault = "none"
  <2>1. CASE N >= M
    <3>1. N \in 1..N /\ Last(lru) = lru[N]
      BY <1>1, <2>1 DEF Last
    <3>2. Died(lru) = "none"
      BY <1>12, <3>1 DEF Died
    <3> QED
      BY <2>1, <3>2 DEF PutPage
  <2>2. CASE ~ (N >= M)
    BY <2>2 DEF PutPage
  <2> QED
    BY <2>1, <2>2
<1> QED
  BY <1>5, <1>6, <1>9, <1>10, <1>11, <1>12 DEF LruOk, t

\* GetPage finds the page in the cache, or loads it.
LEMMA PageGot ==
    ASSUME NEW lru, LruOk(lru), NEW pid, NEW version
    PROVE  LET got == GetPage(lru, pid, version)
               root == LoadPage(pid, version)
               put == PutPage(lru, Entry(pid, version, root))
           IN  \/ \E i \in 1..Len(lru) :
                     /\ lru[i].pid = pid /\ lru[i].version = version
                     /\ got.lru = ToFront(lru, i) /\ got.fault = "none" /\ got.root = lru[i].root
               \/ /\ \A i \in 1..Len(lru) : ~ (lru[i].pid = pid /\ lru[i].version = version)
                  /\ \/ root = NoPage /\ got.lru = lru /\ got.fault = "none" /\ got.root = NoPage
                     \/ root # NoPage /\ got.lru = put.lru /\ got.fault = put.fault /\ got.root = root
<1> DEFINE hit == Cached(lru, pid, version)
           i == CHOOSE i \in hit : TRUE
           root == LoadPage(pid, version)
           put == PutPage(lru, Entry(pid, version, root))
<1>1. DOMAIN lru = 1..Len(lru)
  BY SeqFacts DEF LruOk
<1>2. CASE hit # {}
  <2>1. i \in hit
    BY <1>2
  <2> HIDE DEF i
  <2>2. i \in 1..Len(lru) /\ lru[i].pid = pid /\ lru[i].version = version
    BY <1>1, <2>1 DEF Cached
  <2>3. GetPage(lru, pid, version) =
            [lru |-> ToFront(lru, i), fault |-> "none", root |-> lru[i].root]
    BY <1>2 DEF GetPage, i
  <2> QED
    BY <2>2, <2>3
<1>3. CASE hit = {}
  <2>1. \A j \in 1..Len(lru) : ~ (lru[j].pid = pid /\ lru[j].version = version)
    BY <1>1, <1>3 DEF Cached
  <2> HIDE DEF root
  <2>2. CASE root = NoPage
    <3>1. GetPage(lru, pid, version) = [lru |-> lru, fault |-> "none", root |-> NoPage]
      BY <1>3, <2>2 DEF GetPage, root
    <3> QED
      BY <2>1, <2>2, <3>1 DEF root
  <2>3. CASE root # NoPage
    <3>1. GetPage(lru, pid, version) = [lru |-> put.lru, fault |-> put.fault, root |-> root]
      BY <1>3, <2>3 DEF GetPage, root
    <3> HIDE DEF put
    <3> QED
      BY <2>1, <2>3, <3>1 DEF root, put
  <2> QED
    BY <2>2, <2>3
<1> QED
  BY <1>2, <1>3

\* Cache t is the cache lru with entry e in front in place of the page at this
\* version, and no other page further back than that one was.
KeyMoved(lru, t, pid, version, e) ==
    /\ LruOk(t) /\ 1 \in 1..Len(t) /\ t[1] = e
    /\ \A j \in 1..Len(t) :
          \/ t[j] = e
          \/ \E k \in 1..Len(lru) :
                t[j] = lru[k] /\ ~ (lru[k].pid = pid /\ lru[k].version = version)
    /\ \A n \in Nat :
          (\E k \in 1..Len(lru) :
              k <= n /\ lru[k].pid = pid /\ lru[k].version = version)
          => \A k \in 1..Len(lru) :
                k <= n /\ ~ (lru[k].pid = pid /\ lru[k].version = version)
                   => \E j \in 1..Len(t) : j <= n /\ t[j] = lru[k]

\* The page a commit works on gets its new version.
LEMMA KeyUpdated ==
    ASSUME NEW lru, LruOk(lru), NEW pid, NEW version, NEW root,
           Cached(lru, pid, version) # {},
           \A k \in 1..Len(lru) : ~ (lru[k].pid = pid /\ lru[k].version = current_version)
    PROVE  KeyMoved(lru, UpdatePageKey(lru, pid, version, root), pid, version,
                    Entry(pid, current_version, root))
<1> DEFINE N == Len(lru)
           i == CHOOSE i \in Cached(lru, pid, version) : TRUE
           e == Entry(pid, current_version, root)
           r == RemoveAt(lru, i)
           t == UpdatePageKey(lru, pid, version, root)
<1>1. IsSeq(lru) /\ N \in Nat /\ DOMAIN lru = 1..N /\ N <= MaxCacheSize /\ Distinct(lru)
  BY SeqFacts DEF LruOk
<1>2. i \in Cached(lru, pid, version)
  OBVIOUS
<1>3. t = <<e>> \o r
  BY DEF UpdatePageKey
<1> HIDE DEF i
<1>4. i \in 1..N /\ lru[i].pid = pid /\ lru[i].version = version
  BY <1>1, <1>2 DEF Cached
<1>5. /\ IsSeq(r) /\ Len(r) = N - 1
      /\ \A j \in 1..(i - 1) : r[j] = lru[j]
      /\ \A j \in i..(N - 1) : r[j] = lru[j + 1]
  BY <1>1, <1>4, RemoveSeq
<1>6. e.pid = pid /\ e.version = current_version
  BY DEF Entry
<1> HIDE DEF r, t, e
<1>7. /\ IsSeq(t) /\ Len(t) = Len(r) + 1 /\ t[1] = e
      /\ \A j \in 1..Len(r) : t[j + 1] = r[j]
  BY <1>3, <1>5, Pushed
<1>8. Len(t) = N
  BY <1>1, <1>5, <1>7
<1>9. ASSUME NEW j \in 2..i PROVE t[j] = lru[j - 1]
  <2>1. j - 1 \in 1..(i - 1) /\ j - 1 \in 1..(N - 1) /\ (j - 1) + 1 = j
    BY <1>1, <1>4
  <2> QED
    BY <1>5, <1>7, <2>1
<1>10. ASSUME NEW j \in (i + 1)..N PROVE t[j] = lru[j]
  <2>1. j - 1 \in i..(N - 1) /\ j - 1 \in 1..(N - 1) /\ (j - 1) + 1 = j
    BY <1>1, <1>4
  <2> QED
    BY <1>5, <1>7, <2>1
<1> DEFINE from(j) == IF j <= i THEN j - 1 ELSE j
           to(k) == IF k < i THEN k + 1 ELSE k
<1>11. ASSUME NEW j \in 2..N PROVE from(j) \in 1..N /\ from(j) # i /\ t[j] = lru[from(j)]
  <2>1. CASE j <= i
    <3>1. j \in 2..i
      BY <1>1, <2>1
    <3> QED
      BY <1>1, <1>4, <1>9, <2>1, <3>1
  <2>2. CASE ~ (j <= i)
    <3>1. j \in (i + 1)..N
      BY <1>1, <1>4, <2>2
    <3> QED
      BY <1>1, <1>4, <1>10, <2>2, <3>1
  <2> QED
    BY <2>1, <2>2
<1>12. \A k \in 1..N : k # i => to(k) \in 2..N /\ from(to(k)) = k
  BY <1>1, <1>4
<1>13. \A j, l \in 2..N : from(j) = from(l) => j = l
  BY <1>1, <1>4
<1>14. \A n \in Nat : i <= n => \A k \in 1..N : k <= n => to(k) <= n
  BY <1>1, <1>4
<1> HIDE DEF from, to
<1>15. \A j \in 1..N : j = 1 \/ j \in 2..N
  BY <1>1
<1>16. \A j \in 2..N : j \in 1..N
  BY <1>1
<1>17. \A k \in 1..N : k # i => t[to(k)] = lru[k]
  BY <1>11, <1>12
<1>18. \A k \in 1..N : k # i <=> ~ (lru[k].pid = pid /\ lru[k].version = version)
  BY <1>1, <1>4 DEF Distinct
<1>19. Distinct(t)
  <2> SUFFICES ASSUME NEW j \in 1..Len(t), NEW l \in 1..Len(t),
                      t[j].pid = t[l].pid, t[j].version = t[l].version
               PROVE  j = l
    BY DEF Distinct
  <2>1. CASE j = 1 /\ l \in 2..N
    BY <1>6, <1>7, <1>11, <2>1
  <2>2. CASE l = 1 /\ j \in 2..N
    BY <1>6, <1>7, <1>11, <2>2
  <2>3. CASE j \in 2..N /\ l \in 2..N
    BY <1>1, <1>11, <1>13, <2>3 DEF Distinct
  <2> QED
    BY <1>8, <1>15, <2>1, <2>2, <2>3
<1>20. 1 \in 1..N
  BY <1>1, <1>4
<1>21. LruOk(t) /\ 1 \in 1..Len(t) /\ t[1] = e
  BY <1>1, <1>7, <1>8, <1>19, <1>20 DEF LruOk
<1>22. ASSUME NEW j \in 1..Len(t)
       PROVE  \/ t[j] = e
              \/ \E k \in 1..N : t[j] = lru[k] /\ ~ (lru[k].pid = pid /\ lru[k].version = version)
  BY <1>7, <1>8, <1>11, <1>15, <1>18
<1>23. ASSUME NEW n \in Nat, NEW l \in 1..N, l <= n, lru[l].pid = pid, lru[l].version = version,
              NEW k \in 1..N, k <= n, ~ (lru[k].pid = pid /\ lru[k].version = version)
       PROVE  \E j \in 1..Len(t) : j <= n /\ t[j] = lru[k]
  <2>1. l = i /\ k # i
    BY <1>18, <1>23
  <2>2. to(k) \in 1..N /\ to(k) <= n /\ t[to(k)] = lru[k]
    BY <1>12, <1>14, <1>16, <1>17, <1>23, <2>1
  <2> QED
    BY <1>8, <2>2
<1>24. KeyMoved(lru, t, pid, version, e)
  BY <1>21, <1>22, <1>23 DEF KeyMoved
<1> QED
  BY <1>24 DEF t, e

-----------------------------------------------------------------------------
(* The items of a page: one for each update of a page that is a leaf node, *)
(* else a pair                                                             *)

Size(pid) == IF Depth(pid) = 0 THEN 1 ELSE 2

\* This many items end with the item of a root.
Whole(pid, n) == Depth(pid) = 0 \/ n % 2 = 0

\* The nibbles that the item of a root is about.
NibblesAt(pid, s, i) ==
    [x \in 1..Depth(pid) |-> IF x = 1 THEN s[i].index ELSE s[i - 1].index]

Recorded(pid, s, i) ==
    /\ NibblesAt(pid, s, i) \in Paths(Depth(pid))
    /\ ItemsFor(s[i - 1], s[i], NibblesAt(pid, s, i), s[i].version,
                [version |-> s[i].version, key |-> pid \o NibblesAt(pid, s, i)])

ItemsFit(pid, s) ==
    /\ IsSeq(s) /\ Whole(pid, Len(s))
    /\ \A i \in 1..Len(s) : Whole(pid, i) => Recorded(pid, s, i)
    /\ \A i \in 1..Len(s) : s[i].version \in Nat \ {0}
    /\ \A i, j \in 1..Len(s) : i <= j => s[i].version <= s[j].version

\* The last of the first n items that is about these nibbles, 0 if none is.
LastGroup(pid, s, j, n, m) ==
    /\ j # 0 => Whole(pid, j) /\ NibblesAt(pid, s, j) = m
    /\ \A i \in (j + 1)..n : Whole(pid, i) => NibblesAt(pid, s, i) # m

VersionAt(s, j) == IF j = 0 THEN 0 ELSE s[j].version

\* The page has what the first n items say.
Mirrors(root, pid, s, n) ==
    /\ PageShape(root, Depth(pid))
    /\ root = NoNode <=> n = 0
    /\ \A m \in Paths(Depth(pid)), j \in 0..n :
          LastGroup(pid, s, j, n, m) => Links(root, m, VersionAt(s, j), pid \o m)

\* It is their replay, when nothing of it was read from a file.
PageIs(root, pid, s, n) ==
    /\ Mirrors(root, pid, s, n)
    /\ Unwritten => root = Replay(NoNode, s)[n]

CountUpTo(s, version) == Cardinality({i \in DOMAIN s : s[i].version <= version})

LEMMA NoItems ==
    ASSUME NEW pid \in Pid, NEW s, IsSeq(s)
    PROVE  PageIs(NoNode, pid, s, 0)
<1>1. PageShape(NoNode, Depth(pid))
  BY DEF PageShape, PageRoot
<1>2. \A j \in 0..0 : VersionAt(s, j) = 0
  BY DEF VersionAt
<1>3. \A m, path : Links(NoNode, m, 0, path)
  BY DEF Links
<1>4. Replay(NoNode, s)[0] = NoNode
  BY SeqFacts, ReplaySteps
<1> QED
  BY <1>1, <1>2, <1>3, <1>4 DEF PageIs, Mirrors

LEMMA SizeFacts ==
    ASSUME NEW pid \in Pid, NEW n \in Nat
    PROVE  /\ Size(pid) \in {1, 2} /\ Depth(pid) \in 0..2
           /\ Whole(pid, 0)
           /\ Whole(pid, n) <=> Whole(pid, n + Size(pid))
           /\ Whole(pid, n) /\ n # 0 => n - Size(pid) \in Nat /\ Whole(pid, n - Size(pid))
           /\ Size(pid) = 2 => (Whole(pid, n) => ~Whole(pid, n + 1))
<1>1. Depth(pid) \in 0..2
  BY PidFacts
<1>2. Size(pid) \in {1, 2}
  BY DEF Size
<1>3. CASE Depth(pid) = 0
  <2>1. n # 0 => n - 1 \in Nat
    OBVIOUS
  <2> QED
    BY <1>1, <1>2, <1>3, <2>1 DEF Size, Whole
<1>4. CASE Depth(pid) # 0
  <2>1. /\ 0 % 2 = 0 /\ (n % 2 = 0 <=> (n + 2) % 2 = 0)
        /\ n % 2 = 0 /\ n # 0 => n - 2 \in Nat /\ (n - 2) % 2 = 0
        /\ n % 2 = 0 => (n + 1) % 2 # 0
    OBVIOUS
  <2> QED
    BY <1>1, <1>2, <1>4, <2>1 DEF Size, Whole
<1> QED
  BY <1>3, <1>4

\* The items up to a version are the first ones.
LEMMA CountFacts ==
    ASSUME NEW pid \in Pid, NEW s, ItemsFit(pid, s), NEW version \in Nat
    PROVE  LET n == CountUpTo(s, version)
           IN  /\ n \in 0..Len(s) /\ Whole(pid, n)
               /\ \A i \in 1..Len(s) : s[i].version <= version <=> i <= n
<1> DEFINE N == Len(s)
           T == {i \in 0..N : i = 0 \/ s[i].version <= version}
<1>1. /\ IsSeq(s) /\ Whole(pid, N)
      /\ \A i \in 1..N : Whole(pid, i) => Recorded(pid, s, i)
      /\ \A i \in 1..N : s[i].version \in Nat
      /\ \A i, j \in 1..N : i <= j => s[i].version <= s[j].version
  BY DEF ItemsFit
<1>2. N \in Nat /\ DOMAIN s = 1..N
  BY <1>1, SeqFacts
<1>3. T \in SUBSET (0..N) /\ T # {}
  BY <1>2
<1>4. PICK x \in T : \A y \in T : y <= x
  BY <1>2, <1>3, GreatestElement
<1>5. x \in 0..N /\ (x # 0 => x \in 1..N /\ s[x].version <= version)
  BY <1>2, <1>4
<1>6. ASSUME NEW i \in 1..N PROVE s[i].version <= version <=> i <= x
  <2>1. ASSUME s[i].version <= version PROVE i <= x
    BY <1>4, <2>1
  <2>2. ASSUME i <= x PROVE s[i].version <= version
    <3>1. x # 0 /\ s[i].version <= s[x].version /\ s[i].version \in Nat /\ s[x].version \in Nat
      BY <1>1, <1>5, <2>2
    <3> QED
      BY <1>5, <3>1
  <2> QED
    BY <2>1, <2>2
<1>7. {i \in DOMAIN s : s[i].version <= version} = 1..x
  BY <1>2, <1>5, <1>6
<1>8. CountUpTo(s, version) = x
  <2>1. Cardinality(1..x) = x
    BY <1>5, FS_Interval
  <2> QED
    BY <1>7, <2>1 DEF CountUpTo
<1>9. Whole(pid, x)
  <2>1. CASE Depth(pid) = 0
    BY <2>1 DEF Whole
  <2>2. CASE Depth(pid) # 0
    <3> SUFFICES ASSUME x % 2 # 0 PROVE FALSE
      BY <2>2 DEF Whole
    <3>1. N % 2 = 0
      BY <1>1, <2>2 DEF Whole
    <3>2. x + 1 \in 1..N /\ (x + 1) % 2 = 0 /\ (x + 1) - 1 = x /\ x # 0
      BY <1>2, <1>5, <3>1
    <3>3. Recorded(pid, s, x + 1)
      BY <1>1, <3>2 DEF Whole
    <3> DEFINE m == NibblesAt(pid, s, x + 1)
    <3>4. /\ m \in Paths(Depth(pid))
          /\ ItemsFor(s[x], s[x + 1], m, s[x + 1].version,
                      [version |-> s[x + 1].version, key |-> pid \o m])
      BY <3>2, <3>3 DEF Recorded
    <3> HIDE DEF m
    <3>5. Len(m) # 0
      BY <2>2, <3>4, SizeFacts, PathsAreSequences
    <3>6. s[x].version = s[x + 1].version
      BY <3>4, <3>5 DEF ItemsFor, LeafHere, IndexHere
    <3>7. x + 1 <= x
      BY <1>5, <1>6, <3>2, <3>6
    <3> QED
      BY <1>5, <3>7
  <2> QED
    BY <2>1, <2>2
<1> QED
  BY <1>5, <1>6, <1>8, <1>9

\* The page after the next group of items.
LEMMA GroupReplayed ==
    ASSUME NullIsNoNode,
           NEW pid \in Pid, NEW s, ItemsFit(pid, s),
           NEW n \in Nat, Whole(pid, n), NEW i \in 1..Len(s), i = n + Size(pid),
           NEW root, PageIs(root, pid, s, n), NEW child_item, NEW root_item,
           ItemsFor(child_item, root_item, NibblesAt(pid, s, i), s[i].version,
                    [version |-> s[i].version, key |-> pid \o NibblesAt(pid, s, i)]),
           Unwritten => root_item = s[i] /\ (Depth(pid) # 0 => child_item = s[i - 1])
    PROVE  PageIs(AfterItems(root, child_item, root_item, Depth(pid)), pid, s, i)
<1> DEFINE d == Depth(pid)
           m == NibblesAt(pid, s, i)
           new == AfterItems(root, child_item, root_item, d)
<1>1. d \in 0..2 /\ Whole(pid, i) /\ Size(pid) \in {1, 2}
  BY SizeFacts
<1>2. /\ IsSeq(s) /\ Len(s) \in Nat /\ s[i].version \in Nat \ {0} /\ Recorded(pid, s, i)
  BY <1>1, SeqFacts DEF ItemsFit
<1>3. m \in Paths(d)
  BY <1>2 DEF Recorded
<1> HIDE DEF m
<1>4. /\ PageShape(root, d)
      /\ \A k \in Paths(d), j \in 0..n :
            LastGroup(pid, s, j, n, k) => Links(root, k, VersionAt(s, j), pid \o k)
      /\ Unwritten => root = Replay(NoNode, s)[n]
  BY DEF PageIs, Mirrors
<1>5. /\ PageShape(new, d) /\ new # NoNode
      /\ Links(new, m, s[i].version, pid \o m)
      /\ SameLinks(root, new, d, m)
  <2> DEFINE version == s[i].version
             path == pid \o m
  <2>1. ItemsFor(child_item, root_item, m, version, [version |-> version, key |-> path])
    BY DEF m
  <2>2. version # 0
    BY <1>2
  <2> HIDE DEF version, path, d
  <2> QED
    BY <1>1, <1>3, <1>4, <2>1, <2>2, ItemsReplayed DEF version, path, d
<1>6. ASSUME NEW k \in Paths(d), NEW j \in 0..i, LastGroup(pid, s, j, i, k)
      PROVE  Links(new, k, VersionAt(s, j), pid \o k)
  <2>1. CASE k = m
    <3>1. j = i
      <4> SUFFICES ASSUME j # i PROVE FALSE
        OBVIOUS
      <4>1. i \in (j + 1)..i
        BY <1>2
      <4> QED
        BY <1>1, <1>6, <2>1, <4>1 DEF LastGroup, m
    <3> QED
      BY <1>2, <1>5, <2>1, <3>1 DEF VersionAt
  <2>2. CASE k # m
    <3>1. j # i
      BY <1>2, <1>6, <2>2 DEF LastGroup, m
    <3>2. j <= n
      <4> SUFFICES ASSUME ~ (j <= n) PROVE FALSE
        OBVIOUS
      <4>1. j = n + 1 /\ Size(pid) = 2
        BY <1>1, <1>2, <3>1
      <4>2. ~Whole(pid, n + 1)
        BY <4>1, SizeFacts
      <4> QED
        BY <1>6, <4>1, <4>2 DEF LastGroup
    <3>3. \A x \in (j + 1)..n : x \in (j + 1)..i
      BY <1>1, <1>2
    <3>4. LastGroup(pid, s, j, n, k)
      BY <1>6, <3>3 DEF LastGroup
    <3>5. j \in 0..n
      BY <1>2, <3>2
    <3>6. Links(root, k, VersionAt(s, j), pid \o k)
      BY <1>4, <3>4, <3>5
    <3> QED
      BY <1>5, <2>2, <3>6 DEF SameLinks
  <2> QED
    BY <2>1, <2>2
<1>7. ASSUME Unwritten PROVE new = Replay(NoNode, s)[i]
  <2> DEFINE r == Replay(NoNode, s)
  <2>1. \A k \in 1..Len(s) : r[k] = UpdateDeltaItem(r[k - 1], s[k])
    BY <1>2, ReplaySteps
  <2>2. root = r[n]
    BY <1>4, <1>7
  <2> HIDE DEF r
  <2>3. CASE d = 0
    <3>1. i - 1 = n
      BY <1>2, <2>3 DEF Size
    <3> QED
      BY <1>7, <2>1, <2>2, <2>3, <3>1 DEF AfterItems, r
  <2>4. CASE d # 0
    <3>1. (i - 1) - 1 = n /\ i - 1 \in 1..Len(s)
      BY <1>2, <2>4 DEF Size
    <3>2. r[i - 1] = UpdateDeltaItem(root, child_item)
      BY <1>7, <2>1, <2>2, <2>4, <3>1
    <3>3. r[i] = UpdateDeltaItem(r[i - 1], root_item)
      BY <1>7, <2>1
    <3> QED
      BY <2>4, <3>2, <3>3 DEF AfterItems, r
  <2> QED
    BY <2>3, <2>4
<1>8. i # 0
  OBVIOUS
<1> HIDE DEF new
<1> QED
  BY <1>5, <1>6, <1>7, <1>8 DEF PageIs, Mirrors, new

\* More items behind: nothing of the first ones changes.
LEMMA PrefixSame ==
    ASSUME NEW pid \in Pid, NEW s, NEW t, IsSeq(s), IsSeq(t), Len(s) <= Len(t),
           \A i \in 1..Len(s) : t[i] = s[i],
           NEW n \in 0..Len(s)
    PROVE  /\ Replay(NoNode, t)[n] = Replay(NoNode, s)[n]
           /\ \A j \in 0..n : VersionAt(t, j) = VersionAt(s, j)
           /\ \A m \in Paths(Depth(pid)), j \in 0..n :
                 LastGroup(pid, t, j, n, m) <=> LastGroup(pid, s, j, n, m)
<1>1. Len(s) \in Nat /\ Len(t) \in Nat /\ Depth(pid) \in 0..2
  BY SeqFacts, PidFacts
<1>2. ASSUME NEW i \in 1..n, Whole(pid, i) PROVE NibblesAt(pid, t, i) = NibblesAt(pid, s, i)
  <2>1. CASE Depth(pid) = 0
    BY <2>1 DEF NibblesAt
  <2>2. CASE Depth(pid) # 0
    <3>1. i % 2 = 0
      BY <1>2, <2>2 DEF Whole
    <3>2. i \in 1..Len(s) /\ i - 1 \in 1..Len(s)
      BY <1>1, <3>1
    <3>3. t[i] = s[i] /\ t[i - 1] = s[i - 1]
      BY <3>2
    <3> QED
      BY <3>3 DEF NibblesAt
  <2> QED
    BY <2>1, <2>2
<1>3. \A j \in 0..n : VersionAt(t, j) = VersionAt(s, j)
  <2>1. \A j \in 0..n : j # 0 => j \in 1..Len(s)
    BY <1>1
  <2> QED
    BY <2>1 DEF VersionAt
<1>4. ASSUME NEW m \in Paths(Depth(pid)), NEW j \in 0..n
      PROVE  LastGroup(pid, t, j, n, m) <=> LastGroup(pid, s, j, n, m)
  <2>1. j # 0 => j \in 1..n
    BY <1>1
  <2>2. \A i \in (j + 1)..n : i \in 1..n
    BY <1>1
  <2> QED
    BY <1>2, <2>1, <2>2 DEF LastGroup
<1>5. Replay(NoNode, t)[n] = Replay(NoNode, s)[n]
  <2> DEFINE r == Replay(NoNode, s)
             q == Replay(NoNode, t)
             S == {i \in 0..n : q[i] = r[i]}
  <2>1. r[0] = NoNode /\ \A i \in 1..Len(s) : r[i] = UpdateDeltaItem(r[i - 1], s[i])
    BY <1>1, ReplaySteps
  <2>2. q[0] = NoNode /\ \A i \in 1..Len(t) : q[i] = UpdateDeltaItem(q[i - 1], t[i])
    BY <1>1, ReplaySteps
  <2> HIDE DEF r, q
  <2>3. 0 \in S
    BY <1>1, <2>1, <2>2
  <2>4. ASSUME NEW i \in 0..n, i \in S, i < n PROVE i + 1 \in S
    <3>1. i + 1 \in 1..Len(s) /\ i + 1 \in 1..Len(t) /\ (i + 1) - 1 = i /\ i + 1 \in 0..n
      BY <1>1, <2>4
    <3>2. q[i] = r[i] /\ t[i + 1] = s[i + 1]
      BY <2>4, <3>1
    <3> QED
      BY <2>1, <2>2, <3>1, <3>2
  <2> HIDE DEF S
  <2>5. n \in S
    BY <1>1, <2>3, <2>4, CountUp
  <2> QED
    BY <2>5 DEF S, r, q
<1> QED
  BY <1>3, <1>4, <1>5

\* The page is still what the first ones say.
LEMMA Extended ==
    ASSUME NEW pid \in Pid, NEW s, NEW t, IsSeq(s), IsSeq(t), Len(s) <= Len(t),
           \A i \in 1..Len(s) : t[i] = s[i],
           NEW n \in 0..Len(s), NEW root, PageIs(root, pid, s, n)
    PROVE  PageIs(root, pid, t, n)
BY PrefixSame DEF PageIs, Mirrors

-----------------------------------------------------------------------------
(* The store: what is stored of a page rebuilds it at each of its versions *)

PageStored(pid, s, bs) ==
    /\ ItemsFit(pid, s)
    /\ \A i \in 1..Len(s) : s[i].version <= current_version
    /\ IsSeq(bs)
    /\ Len(bs) * Tb <= Len(s) /\ Len(s) < (Len(bs) + 1) * Tb
    /\ \A b \in 1..Len(bs) : PageIs(bs[b], pid, s, b * Tb)

StoreOk ==
    /\ DOMAIN items = Pid /\ items = [pid \in Pid |-> items[pid]]
    /\ DOMAIN bases = Pid /\ bases = [pid \in Pid |-> bases[pid]]
    /\ flushed \in [Pid -> Nat]
    /\ \A pid \in Pid :
          PageStored(pid, items[pid], bases[pid]) /\ flushed[pid] \in 0..Len(items[pid])

\* An item comes back from a file as it was, but for its hashes.
LEMMA ItemsBack ==
    ASSUME NEW pid \in Pid, NEW i \in 1..Len(items[pid]), Recorded(pid, items[pid], i)
    PROVE  LET s == items[pid]
               m == NibblesAt(pid, s, i)
           IN  ItemsFor(ItemAt(pid, i - 1), ItemAt(pid, i), m, s[i].version,
                        [version |-> s[i].version, key |-> pid \o m])
<1> DEFINE s == items[pid]
           m == NibblesAt(pid, s, i)
           version == s[i].version
           location == [version |-> s[i].version, key |-> pid \o m]
           x == s[i - 1]
           y == s[i]
<1>1. ItemsFor(x, y, m, version, location)
  BY DEF Recorded
<1>2. ItemAt(pid, i - 1) \in {x, ReadItem(x, tail)} /\ ItemAt(pid, i) \in {y, ReadItem(y, tail)}
  BY DEF ItemAt
<1> HIDE DEF m, version, location, x, y
<1>3. ItemsFor(ReadItem(x, tail), y, m, version, location)
  BY <1>1, ItemRead
<1>4. /\ ItemsFor(x, ReadItem(y, tail), m, version, location)
      /\ ItemsFor(ReadItem(x, tail), ReadItem(y, tail), m, version, location)
  BY <1>1, <1>3, ItemRead
<1>5. ItemsFor(ItemAt(pid, i - 1), ItemAt(pid, i), m, version, location)
  BY <1>1, <1>2, <1>3, <1>4
<1> QED
  BY <1>5 DEF m, version, location

\* Nothing is read from a file when nothing was written.
LEMMA InMemory ==
    ASSUME NEW pid \in Pid, Unwritten, NEW i \in Nat \ {0}
    PROVE  ItemAt(pid, i) = items[pid][i]
<1>1. flushed[pid] = 0 /\ Td \in Nat \ {0}
  BY ThresholdAssumption DEF Unwritten
<1>2. Frozen(flushed[pid]) = 0
  BY <1>1 DEF Frozen
<1> QED
  BY <1>2 DEF ItemAt

LEMMA BaseBack ==
    ASSUME NullIsNoNode, StoreOk, NEW pid \in Pid, NEW b \in 1..Len(bases[pid])
    PROVE  PageIs(BaseAt(pid, b), pid, items[pid], b * Tb)
<1> DEFINE base == bases[pid][b]
<1>1. /\ IsSeq(bases[pid]) /\ PageIs(base, pid, items[pid], b * Tb)
      /\ Len(bases[pid]) \in Nat /\ Tb \in Nat \ {0} /\ Depth(pid) \in 0..2
  BY SeqFacts, PidFacts, ThresholdAssumption DEF StoreOk, PageStored
<1>2. b * Tb # 0
  BY <1>1
<1>3. CASE b * Tb <= flushed[pid]
  <2>1. BaseAt(pid, b) = ReadRoot(base)
    BY <1>3 DEF BaseAt
  <2> HIDE DEF base
  <2>2. ~Unwritten
    BY <1>1, <1>3 DEF Unwritten
  <2>3. PageShape(base, Depth(pid)) /\ base # NoNode
    BY <1>1, <1>2 DEF PageIs, Mirrors
  <2>4. /\ PageShape(ReadRoot(base), Depth(pid)) /\ ReadRoot(base) # NoNode
        /\ \A m \in Paths(Depth(pid)) : \A version, path :
              Links(base, m, version, path) => Links(ReadRoot(base), m, version, path)
    BY <1>1, <2>3, RootRead
  <2>5. Mirrors(ReadRoot(base), pid, items[pid], b * Tb)
    BY <1>1, <1>2, <2>4 DEF PageIs, Mirrors
  <2> QED
    BY <2>1, <2>2, <2>5 DEF PageIs
<1>4. CASE ~ (b * Tb <= flushed[pid])
  BY <1>1, <1>4 DEF BaseAt
<1> QED
  BY <1>3, <1>4

LEMMA RebuiltPage ==
    ASSUME NullIsNoNode, StoreOk, NEW pid \in Pid,
           NEW n \in 0..Len(items[pid]), Whole(pid, n)
    PROVE  PageIs(Rebuilt(pid, n), pid, items[pid], n)
<1> DEFINE s == items[pid]
           bs == bases[pid]
           last == n \div Tb
           from == last * Tb
           N == n - from
           base == IF last = 0 THEN NoNode ELSE BaseAt(pid, last)
           its == [i \in 1..N |-> ItemAt(pid, from + i)]
           w == Replay(base, its)
<1>1. /\ ItemsFit(pid, s) /\ IsSeq(s) /\ IsSeq(bs)
      /\ Len(bs) * Tb <= Len(s) /\ Len(s) < (Len(bs) + 1) * Tb
  BY DEF StoreOk, PageStored, ItemsFit
<1>2. Len(s) \in Nat /\ Len(bs) \in Nat /\ n \in Nat /\ n <= Len(s)
  BY <1>1, SeqFacts
<1>3. /\ Tb \in Nat \ {0} /\ last \in Nat /\ from \in Nat /\ from <= n /\ n < (last + 1) * Tb
      /\ from % 2 = 0
  <2>1. /\ Tb \in Nat \ {0} /\ last \in Nat /\ from <= n /\ n < (last + 1) * Tb
        /\ from % 2 = 0
    BY <1>2, Divided
  <2> HIDE DEF last
  <2>2. from \in Nat
    BY <2>1
  <2> QED
    BY <2>1, <2>2
<1>4. Rebuilt(pid, n) = w[Len(its)]
  BY DEF Rebuilt
<1>5. N \in Nat /\ Len(its) = N /\ from + N = n
  BY <1>2, <1>3
<1>6. Whole(pid, from)
  BY <1>3 DEF Whole
<1> HIDE DEF last
<1>7. PageIs(base, pid, s, from)
  <2>1. CASE last = 0
    <3>1. from = 0
      BY <1>3, <2>1
    <3> QED
      BY <1>1, <2>1, <3>1, NoItems
  <2>2. CASE last # 0
    <3>1. last <= Len(bs)
      <4> SUFFICES ASSUME last > Len(bs) PROVE FALSE
        BY <1>2, <1>3
      <4> DEFINE l == Len(bs)
                 c == l + 1
                 e == last - c
      <4>1. last \in Nat /\ l \in Nat /\ Tb \in Nat /\ last > l
        BY <1>2, <1>3
      <4>2. Len(s) < c * Tb
        BY <1>1
      <4> HIDE DEF l
      <4>3. c \in Nat /\ e \in Nat /\ last = c + e
        BY <4>1
      <4> HIDE DEF c, e
      <4>4. last * Tb = c * Tb + e * Tb /\ e * Tb \in Nat /\ c * Tb \in Nat
        BY <4>1, <4>3
      <4> QED
        BY <1>2, <1>3, <4>2, <4>4
    <3>2. last \in 1..Len(bs)
      BY <1>2, <1>3, <2>2, <3>1
    <3> QED
      BY <2>2, <3>2, BaseBack
  <2> QED
    BY <2>1, <2>2
<1>8. \A i \in 1..N : its[i] = ItemAt(pid, from + i)
  OBVIOUS
<1> HIDE DEF base, its, N
<1>9. w[0] = base /\ \A i \in 1..N : w[i] = UpdateDeltaItem(w[i - 1], its[i])
  BY <1>5, ReplaySteps
<1> HIDE DEF w, from
<1> DEFINE Bad == {i \in 0..N : Whole(pid, from + i) /\ ~PageIs(w[i], pid, s, from + i)}
<1>10. Bad = {}
  <2> SUFFICES ASSUME Bad # {} PROVE FALSE
    OBVIOUS
  <2>1. Bad \in SUBSET Nat
    OBVIOUS
  <2>2. PICK k \in Bad : \A j \in Bad : k <= j
    BY <2>1, LeastElement
  <2>3. k \in 0..N /\ Whole(pid, from + k) /\ ~PageIs(w[k], pid, s, from + k)
    BY <2>2
  <2>4. k # 0
    BY <1>3, <1>7, <1>9, <2>3
  <2> DEFINE g == Size(pid)
             j == k - g
             i == from + k
             m == NibblesAt(pid, s, i)
             child_item == ItemAt(pid, i - 1)
             root_item == ItemAt(pid, i)
  <2>5. g \in {1, 2} /\ Depth(pid) \in 0..2 /\ (Depth(pid) = 0 <=> g = 1)
    BY SizeFacts DEF Size
  <2>6. k - g \in Nat
    <3>1. CASE g = 1
      BY <2>3, <2>4, <3>1
    <3>2. CASE g = 2
      <4>1. (from + k) % 2 = 0
        BY <2>3, <2>5, <3>2 DEF Whole
      <4>2. k % 2 = 0
        BY <1>3, <2>3, <4>1
      <4> QED
        BY <2>3, <2>4, <3>2, <4>2
    <3> QED
      BY <2>5, <3>1, <3>2
  <2> HIDE DEF g
  <2>7. /\ j \in 0..N /\ j < k /\ from + j \in Nat /\ i = (from + j) + g
        /\ i \in 1..Len(s) /\ i - 1 = from + (k - 1) /\ k \in 1..N
    BY <1>2, <1>3, <1>5, <2>3, <2>4, <2>5, <2>6
  <2>8. Whole(pid, from + j)
    BY <2>3, <2>7, SizeFacts DEF g
  <2>9. PageIs(w[j], pid, s, from + j)
    BY <2>2, <2>7, <2>8
  <2>10. Recorded(pid, s, i)
    BY <1>1, <2>3, <2>7 DEF ItemsFit
  <2>11. ItemsFor(child_item, root_item, m, s[i].version,
                  [version |-> s[i].version, key |-> pid \o m])
    BY <2>7, <2>10, ItemsBack
  <2>12. ASSUME Unwritten PROVE root_item = s[i] /\ (Depth(pid) # 0 => child_item = s[i - 1])
    <3>1. i \in Nat \ {0}
      BY <1>2, <2>7
    <3>2. Depth(pid) # 0 => i - 1 \in Nat \ {0}
      BY <1>3, <2>5, <2>6, <2>7
    <3> HIDE DEF i
    <3> QED
      BY <2>12, <3>1, <3>2, InMemory
  <2>13. AfterItems(w[j], child_item, root_item, Depth(pid)) = w[k]
    <3>1. w[k] = UpdateDeltaItem(w[k - 1], root_item)
      BY <1>8, <1>9, <2>7
    <3>2. CASE Depth(pid) = 0
      <4>1. k - 1 = j
        BY <2>5, <2>7, <3>2
      <4> QED
        BY <3>1, <3>2, <4>1 DEF AfterItems
    <3>3. CASE Depth(pid) # 0
      <4>1. (k - 1) - 1 = j /\ k - 1 \in 1..N
        BY <1>5, <2>5, <2>6, <2>7, <3>3
      <4>2. w[k - 1] = UpdateDeltaItem(w[j], child_item)
        BY <1>8, <1>9, <2>7, <4>1
      <4> QED
        BY <3>1, <3>3, <4>2 DEF AfterItems
    <3> QED
      BY <3>2, <3>3
  <2> HIDE DEF child_item, root_item, j, i
  <2>14. PageIs(AfterItems(w[j], child_item, root_item, Depth(pid)), pid, s, i)
    <3> DEFINE h == from + j
               root == w[j]
    <3>1. i = h + Size(pid) /\ h \in Nat /\ Whole(pid, h) /\ PageIs(root, pid, s, h)
      BY <2>7, <2>8, <2>9 DEF g
    <3> HIDE DEF h, root, m
    <3> QED
      BY <1>1, <2>7, <2>11, <2>12, <3>1, GroupReplayed DEF root, m
  <2> QED
    BY <2>3, <2>13, <2>14 DEF i
<1>11. N \in 0..N /\ Whole(pid, from + N)
  BY <1>5
<1>12. PageIs(w[N], pid, s, from + N)
  BY <1>10, <1>11
<1> QED
  BY <1>4, <1>5, <1>12

-----------------------------------------------------------------------------
(* Pages in the cache *)

\* The values that stand for no page are no nodes.
Markers ==
    /\ NullIsNoNode
    /\ \A n : LeafNode(n) \/ IndexNode(n) => n # NoPage
    /\ NoPage # NoNode

\* The page was updated at this very version; version 0 is before all updates.
Exactly(pid, version) == VersionAt(items[pid], UpdatesUpTo(pid, version)) = version

\* The page is what its items up to this version say.
PageAt(root, pid, version) == PageIs(root, pid, items[pid], UpdatesUpTo(pid, version))

EntryOk(e) ==
    /\ e = Entry(e.pid, e.version, e.root)
    /\ e.pid \in Pid /\ e.version \in 0..current_version
    /\ Exactly(e.pid, e.version)
    /\ PageAt(e.root, e.pid, e.version)

CacheOk(lru) == LruOk(lru) /\ \A i \in 1..Len(lru) : EntryOk(lru[i])

LEMMA UpToFacts ==
    ASSUME StoreOk, current_version \in Nat, NEW pid \in Pid, NEW version \in Nat
    PROVE  LET n == UpdatesUpTo(pid, version)
           IN  /\ n \in 0..Len(items[pid]) /\ Whole(pid, n)
               /\ \A i \in 1..Len(items[pid]) : items[pid][i].version <= version <=> i <= n
               /\ Len(items[pid]) \in Nat
               /\ VersionAt(items[pid], n) \in 0..current_version
               /\ n = 0 <=> VersionAt(items[pid], n) = 0
<1> DEFINE s == items[pid]
           n == CountUpTo(s, version)
<1>1. /\ ItemsFit(pid, s) /\ IsSeq(s)
      /\ \A i \in 1..Len(s) : s[i].version <= current_version /\ s[i].version \in Nat \ {0}
  BY DEF StoreOk, PageStored, ItemsFit
<1>2. UpdatesUpTo(pid, version) = n
  BY DEF UpdatesUpTo, CountUpTo
<1>3. /\ n \in 0..Len(s) /\ Whole(pid, n)
      /\ \A i \in 1..Len(s) : s[i].version <= version <=> i <= n
  BY <1>1, CountFacts
<1>4. Len(s) \in Nat
  BY <1>1, SeqFacts
<1> HIDE DEF n
<1>5. n # 0 => n \in 1..Len(s)
  BY <1>3, <1>4
<1>6. VersionAt(s, n) \in 0..current_version
  BY <1>1, <1>5 DEF VersionAt
<1>7. n = 0 <=> VersionAt(s, n) = 0
  BY <1>1, <1>5 DEF VersionAt
<1> QED
  BY <1>2, <1>3, <1>4, <1>6, <1>7

LEMMA RootFacts ==
    ASSUME Markers, NEW root, NEW pid \in Pid, NEW s, NEW n, PageIs(root, pid, s, n)
    PROVE  root # NoPage /\ (root = NoNode <=> n = 0)
BY DEF Markers, PageIs, Mirrors, PageShape, PageRoot

LEMMA EntryFacts ==
    ASSUME Markers, StoreOk, current_version \in Nat, NEW e, EntryOk(e)
    PROVE  /\ e.root # NoPage
           /\ e.root = NoNode <=> e.version = 0
<1>1. e.pid \in Pid /\ e.version \in Nat
  BY DEF EntryOk
<1>2. /\ PageIs(e.root, e.pid, items[e.pid], UpdatesUpTo(e.pid, e.version))
      /\ VersionAt(items[e.pid], UpdatesUpTo(e.pid, e.version)) = e.version
  BY DEF EntryOk, PageAt, Exactly
<1>3. /\ e.root # NoPage
      /\ e.root = NoNode <=> UpdatesUpTo(e.pid, e.version) = 0
  BY <1>1, <1>2, RootFacts
<1> QED
  BY <1>1, <1>2, <1>3, UpToFacts

\* LoadPage finds a page at its very versions only, and there as its items say.
LEMMA PageLoaded ==
    ASSUME Markers, StoreOk, current_version \in Nat, NEW pid \in Pid, NEW version \in Nat
    PROVE  LET root == LoadPage(pid, version)
           IN  /\ root # NoPage <=> Exactly(pid, version)
               /\ root # NoPage =>
                     /\ root = Rebuilt(pid, UpdatesUpTo(pid, version))
                     /\ EntryOk(Entry(pid, version, root))
<1> DEFINE s == items[pid]
           n == UpdatesUpTo(pid, version)
           reached == IF n = 0 THEN 0 ELSE s[n].version
           root == Rebuilt(pid, n)
<1>1. /\ n \in 0..Len(s) /\ Whole(pid, n) /\ Len(s) \in Nat
      /\ \A i \in 1..Len(s) : s[i].version <= version <=> i <= n
      /\ VersionAt(s, n) \in 0..current_version
  BY UpToFacts
<1>2. LoadPage(pid, version) = IF reached < version THEN NoPage ELSE root
  BY DEF LoadPage
<1>3. reached = VersionAt(s, n)
  BY DEF VersionAt
<1>4. PageIs(root, pid, s, n)
  <2> HIDE DEF n
  <2> QED
    BY <1>1, RebuiltPage DEF Markers
<1> HIDE DEF root
<1>5. root # NoPage
  <2> HIDE DEF n
  <2> QED
    BY <1>4, RootFacts
<1>6. reached \in Nat /\ reached <= version
  <2>1. n # 0 => n \in 1..Len(s) /\ n <= n
    BY <1>1
  <2> HIDE DEF n
  <2>2. n # 0 => s[n].version <= version
    BY <1>1, <2>1
  <2>3. VersionAt(s, n) \in Nat
    BY <1>1
  <2> QED
    BY <1>3, <2>2, <2>3
<1>7. ~ (reached < version) <=> Exactly(pid, version)
  <2>1. Exactly(pid, version) <=> reached = version
    BY <1>3 DEF Exactly
  <2> HIDE DEF reached
  <2> QED
    BY <1>6, <2>1
<1> HIDE DEF reached
<1>8. ASSUME Exactly(pid, version) PROVE EntryOk(Entry(pid, version, root))
  <2> DEFINE e == Entry(pid, version, root)
  <2>1. /\ e = Entry(e.pid, e.version, e.root)
        /\ e.pid = pid /\ e.version = version /\ e.root = root
    BY DEF Entry
  <2> HIDE DEF e
  <2>2. version \in 0..current_version
    BY <1>1, <1>8 DEF Exactly
  <2>3. PageAt(root, pid, version)
    BY <1>4 DEF PageAt
  <2> QED
    BY <1>8, <2>1, <2>2, <2>3 DEF EntryOk, e
<1> QED
  BY <1>2, <1>5, <1>7, <1>8 DEF root

\* GetPage, and the cache afterwards.
LEMMA GotPage ==
    ASSUME Markers, StoreOk, current_version \in Nat,
           NEW lru, CacheOk(lru), NEW pid \in Pid, NEW version \in Nat
    PROVE  LET got == GetPage(lru, pid, version)
           IN  /\ CacheOk(got.lru)
               /\ \A j \in 1..Len(got.lru) :
                     \/ \E k \in 1..Len(lru) : got.lru[j] = lru[k]
                     \/ got.lru[j].pid = pid /\ got.lru[j].version = version
               /\ got.root # NoPage <=> Exactly(pid, version)
               /\ got.root # NoPage =>
                     /\ PageAt(got.root, pid, version)
                     /\ 1 \in 1..Len(got.lru) /\ got.lru[1] = Entry(pid, version, got.root)
               /\ (\A k \in 1..Len(lru) : lru[k].root # NoNode) => got.fault = "none"
               /\ \A k \in 1..Len(lru) : k < MaxCacheSize =>
                     \E j \in 1..Len(got.lru) : j <= k + 1 /\ got.lru[j] = lru[k]
               /\ \A i \in 1..Len(lru), n \in Nat :
                     i <= n /\ lru[i].pid = pid /\ lru[i].version = version =>
                        /\ got.fault = "none"
                        /\ \A k \in 1..Len(lru) : k <= n =>
                              \E j \in 1..Len(got.lru) : j <= n /\ got.lru[j] = lru[k]
<1> DEFINE got == GetPage(lru, pid, version)
           N == Len(lru)
           root == LoadPage(pid, version)
           e == Entry(pid, version, root)
           put == PutPage(lru, e)
<1>1. LruOk(lru) /\ (\A i \in 1..N : EntryOk(lru[i])) /\ N \in Nat
  BY SeqFacts DEF CacheOk, LruOk
<1>2. \/ \E i \in 1..N :
             /\ lru[i].pid = pid /\ lru[i].version = version
             /\ got.lru = ToFront(lru, i) /\ got.fault = "none" /\ got.root = lru[i].root
      \/ /\ \A i \in 1..N : ~ (lru[i].pid = pid /\ lru[i].version = version)
         /\ \/ root = NoPage /\ got.lru = lru /\ got.fault = "none" /\ got.root = NoPage
            \/ root # NoPage /\ got.lru = put.lru /\ got.fault = put.fault /\ got.root = root
  BY <1>1, PageGot
<1>3. /\ root # NoPage <=> Exactly(pid, version)
      /\ root # NoPage => EntryOk(e)
  BY PageLoaded
<1>4. e.pid = pid /\ e.version = version /\ e.root = root
  BY DEF Entry
<1> HIDE DEF got, root, put
<1>5. CASE \E i \in 1..N :
              /\ lru[i].pid = pid /\ lru[i].version = version
              /\ got.lru = ToFront(lru, i) /\ got.fault = "none" /\ got.root = lru[i].root
  <2>1. PICK i \in 1..N :
            /\ lru[i].pid = pid /\ lru[i].version = version
            /\ got.lru = ToFront(lru, i) /\ got.fault = "none" /\ got.root = lru[i].root
    BY <1>5
  <2> DEFINE t == ToFront(lru, i)
  <2>2. /\ LruOk(t) /\ 1 \in 1..Len(t) /\ t[1] = lru[i]
        /\ \A j \in 1..Len(t) : \E k \in 1..N : t[j] = lru[k]
        /\ \A k \in 1..N : \E j \in 1..Len(t) : j <= k + 1 /\ t[j] = lru[k]
        /\ \A n \in Nat : i <= n =>
              \A k \in 1..N : k <= n => \E j \in 1..Len(t) : j <= n /\ t[j] = lru[k]
    BY <1>1, MovedToFront
  <2>0. got.lru = t
    BY <2>1
  <2> HIDE DEF t
  <2>3. CacheOk(t)
    BY <1>1, <2>2 DEF CacheOk
  <2>4. /\ EntryOk(lru[i]) /\ lru[i] = Entry(pid, version, lru[i].root)
        /\ Exactly(pid, version) /\ PageAt(lru[i].root, pid, version)
    BY <1>1, <2>1 DEF EntryOk
  <2>5. lru[i].root # NoPage
    BY <2>4, EntryFacts
  <2>6. \A l \in 1..N : lru[l].pid = pid /\ lru[l].version = version => l = i
    BY <1>1, <2>1 DEF LruOk, Distinct
  <2>7. \A l \in 1..N, n \in Nat :
            l <= n /\ lru[l].pid = pid /\ lru[l].version = version =>
               \A k \in 1..N : k <= n => \E j \in 1..Len(t) : j <= n /\ t[j] = lru[k]
    BY <2>2, <2>6
  <2>8. got.root # NoPage /\ got.root = lru[i].root /\ got.fault = "none"
    BY <2>1, <2>5
  <2>9. t[1] = Entry(pid, version, got.root) /\ PageAt(got.root, pid, version)
    BY <2>2, <2>4, <2>8
  <2>10. /\ CacheOk(got.lru) /\ 1 \in 1..Len(got.lru)
         /\ got.lru[1] = Entry(pid, version, got.root)
         /\ \A j \in 1..Len(got.lru) : \E k \in 1..N : got.lru[j] = lru[k]
    BY <2>0, <2>2, <2>3, <2>9
  <2>11. \A k \in 1..N : \E j \in 1..Len(got.lru) : j <= k + 1 /\ got.lru[j] = lru[k]
    BY <2>0, <2>2
  <2>12. \A l \in 1..N, n \in Nat :
            l <= n /\ lru[l].pid = pid /\ lru[l].version = version =>
               \A k \in 1..N : k <= n => \E j \in 1..Len(got.lru) : j <= n /\ got.lru[j] = lru[k]
    BY <2>0, <2>7
  <2> QED
    BY <2>4, <2>8, <2>9, <2>10, <2>11, <2>12 DEF got
<1>6. CASE /\ \A i \in 1..N : ~ (lru[i].pid = pid /\ lru[i].version = version)
           /\ root = NoPage /\ got.lru = lru /\ got.fault = "none" /\ got.root = NoPage
  <2>1. \A k \in 1..N : k <= k + 1
    BY <1>1
  <2> QED
    BY <1>1, <1>3, <1>6, <2>1 DEF got
<1>7. CASE /\ \A i \in 1..N : ~ (lru[i].pid = pid /\ lru[i].version = version)
           /\ root # NoPage /\ got.lru = put.lru /\ got.fault = put.fault /\ got.root = root
  <2> DEFINE t == got.lru
  <2>1. /\ LruOk(t) /\ 1 \in 1..Len(t) /\ t[1] = e
        /\ \A j \in 1..Len(t) : t[j] = e \/ \E k \in 1..N : t[j] = lru[k]
        /\ \A k \in 1..N : k < MaxCacheSize => k + 1 \in 1..Len(t) /\ t[k + 1] = lru[k]
        /\ (\A k \in 1..N : lru[k].root # NoNode) => got.fault = "none"
    <3> HIDE DEF e
    <3>1. \A i \in 1..N : ~ (lru[i].pid = e.pid /\ lru[i].version = e.version)
      BY <1>4, <1>7
    <3> QED
      BY <1>1, <1>7, <3>1, PagePut DEF put
  <2> HIDE DEF t
  <2>2. EntryOk(e) /\ Exactly(pid, version)
    BY <1>3, <1>7
  <2>3. CacheOk(t)
    BY <1>1, <2>1, <2>2 DEF CacheOk
  <2>4. PageAt(root, pid, version)
    BY <1>4, <2>2 DEF EntryOk
  <2>5. \A k \in 1..N : k < MaxCacheSize => \E j \in 1..Len(t) : j <= k + 1 /\ t[j] = lru[k]
    <3>1. \A k \in 1..N : k + 1 <= k + 1
      BY <1>1
    <3> QED
      BY <2>1, <3>1
  <2>6. \A j \in 1..Len(t) :
            \/ \E k \in 1..N : t[j] = lru[k]
            \/ t[j].pid = pid /\ t[j].version = version
    BY <1>4, <2>1
  <2>7. t[1] = Entry(pid, version, got.root)
    BY <1>7, <2>1
  <2> QED
    BY <1>7, <2>1, <2>2, <2>3, <2>4, <2>5, <2>6, <2>7 DEF t, got
<1> QED
  BY <1>2, <1>5, <1>6, <1>7

-----------------------------------------------------------------------------
(* What a commit adds to the items and base pages of a page *)

\* The items of one more update, below these nibbles, and the page after it.
Added(pid, s, m, due, root) ==
    /\ ItemsFit(pid, due) /\ Len(due) = Len(s) + Size(pid)
    /\ \A i \in 1..Len(s) : due[i] = s[i]
    /\ \A i \in (Len(s) + 1)..Len(due) : due[i].version = current_version
    /\ NibblesAt(pid, due, Len(due)) = m
    /\ PageIs(root, pid, due, Len(due))

LEMMA ItemsAdded ==
    ASSUME NullIsNoNode, current_version \in Nat \ {0},
           NEW pid \in Pid, NEW s, ItemsFit(pid, s),
           \A i \in 1..Len(s) : s[i].version <= current_version,
           NEW root, PageIs(root, pid, s, Len(s)), NEW m \in Paths(Depth(pid)),
           NEW update, update.nibbles = m, update.version = current_version,
           Depth(pid) # 2 => update.location = [version |-> current_version, key |-> pid \o m]
    PROVE  LET new == UpdatePage(root, update)
           IN  Added(pid, s, m, s \o new.items, new.root)
<1> DEFINE d == Depth(pid)
           g == Size(pid)
           N == Len(s)
           n == N + g
           new == UpdatePage(root, update)
           its == new.items
           due == s \o its
           child_item == its[1]
           root_item == its[IF d = 0 THEN 1 ELSE 2]
           location == [version |-> current_version, key |-> pid \o m]
<1>1. /\ IsSeq(s) /\ Whole(pid, N) /\ N \in Nat
      /\ \A i \in 1..N : Whole(pid, i) => Recorded(pid, s, i)
      /\ \A i \in 1..N : s[i].version \in Nat \ {0}
      /\ \A i, j \in 1..N : i <= j => s[i].version <= s[j].version
  BY SeqFacts DEF ItemsFit
<1>2. d \in 0..2 /\ g \in {1, 2} /\ (d = 0 <=> g = 1) /\ Whole(pid, n)
  BY <1>1, SizeFacts DEF Size
<1>3. m \in Seq(Nibble) /\ Len(m) = d
  BY <1>2, PathsAreSequences
<1>4. /\ its = IF d = 0 THEN <<root_item>> ELSE <<child_item, root_item>>
      /\ ItemsFor(child_item, root_item, m, current_version, update.location)
      /\ AfterItems(root, child_item, root_item, d) = new.root
  <2>1. NibblesFit(update, d) /\ PageShape(root, d)
    BY <1>3 DEF NibblesFit, PageIs, Mirrors
  <2> HIDE DEF d
  <2> QED
    BY <1>2, <2>1, UpdateRecorded
<1>5. ItemsFor(child_item, root_item, m, current_version, location)
  <2> HIDE DEF location, child_item, root_item
  <2>1. CASE d # 2
    BY <1>4, <2>1 DEF location
  <2>2. CASE d = 2
    BY <1>3, <1>4, <2>2 DEF ItemsFor
  <2> QED
    BY <2>1, <2>2
<1>6. IsSeq(its) /\ Len(its) = g
  <2> HIDE DEF root_item, child_item
  <2>1. CASE d = 0
    <3>1. its = <<root_item>>
      BY <1>4, <2>1
    <3>2. its \in Seq({root_item}) /\ Len(its) = 1
      BY <3>1
    <3> QED
      BY <1>2, <2>1, <3>2, SeqOfSet
  <2>2. CASE d # 0
    <3>1. its = <<child_item, root_item>>
      BY <1>4, <2>2
    <3>2. its \in Seq({child_item, root_item}) /\ Len(its) = 2
      BY <3>1
    <3> QED
      BY <1>2, <2>2, <3>2, SeqOfSet
  <2> QED
    BY <2>1, <2>2
<1>7. root_item = its[g] /\ child_item = its[1]
  BY <1>2
<1> HIDE DEF its, child_item, root_item, due
<1>8. /\ IsSeq(due) /\ Len(due) = N + Len(its)
      /\ \A i \in 1..N : due[i] = s[i]
      /\ \A j \in 1..Len(its) : due[N + j] = its[j]
  <2>1. IsSeq(s) /\ IsSeq(its)
    BY <1>1, <1>6
  <2> QED
    BY <2>1, Concatenated DEF due
<1> HIDE DEF d, location, new, g
<1>9. /\ Len(due) = n /\ n \in Nat /\ n \in 1..Len(due)
      /\ due[n] = root_item
      /\ d # 0 => n - 1 = N + 1 /\ due[n - 1] = child_item
  <2>1. Len(due) = n /\ n \in Nat /\ n \in 1..Len(due)
    BY <1>1, <1>2, <1>6, <1>8
  <2>2. g \in 1..Len(its) /\ 1 \in 1..Len(its)
    BY <1>2, <1>6
  <2>3. due[N + g] = its[g] /\ due[N + 1] = its[1]
    BY <1>8, <2>2
  <2>4. d # 0 => n - 1 = N + 1
    BY <1>1, <1>2
  <2> QED
    BY <1>7, <2>1, <2>3, <2>4
<1>10. due[n].version = current_version /\ (d # 0 => due[n - 1].version = current_version)
  BY <1>3, <1>5, <1>9 DEF ItemsFor, LeafHere, IndexHere
<1>11. NibblesAt(pid, due, n) = m
  <2>1. m = [x \in 1..d |-> m[x]]
    BY DEF Paths, d
  <2>2. ASSUME NEW x \in 1..d PROVE m[x] = IF x = 1 THEN due[n].index ELSE due[n - 1].index
    <3>1. CASE d = 1
      <4>1. IndexHere(root_item, 0, current_version, m[1])
        BY <1>3, <1>5, <3>1 DEF ItemsFor
      <4> QED
        BY <1>9, <2>2, <3>1, <4>1 DEF IndexHere
    <3>2. CASE d = 2
      <4>1. /\ IndexHere(root_item, 0, current_version, m[1])
            /\ IndexHere(child_item, m[1] + 1, current_version, m[2])
        BY <1>3, <1>5, <3>2 DEF ItemsFor
      <4>2. x \in {1, 2}
        BY <2>2, <3>2
      <4> QED
        BY <1>9, <3>2, <4>1, <4>2 DEF IndexHere
    <3> QED
      BY <1>2, <2>2, <3>1, <3>2
  <2> QED
    BY <2>1, <2>2 DEF NibblesAt, d
<1>12. \A i \in (N + 1)..n : due[i].version = current_version
  <2> SUFFICES ASSUME NEW i \in (N + 1)..n, i # n PROVE due[i].version = current_version
    BY <1>10
  <2>1. d # 0 /\ i = n - 1
    BY <1>1, <1>2
  <2> QED
    BY <1>10, <2>1
<1>13. ItemsFor(due[n - 1], due[n], m, current_version, location)
  <2>1. CASE d = 0
    BY <1>3, <1>5, <1>9, <2>1 DEF ItemsFor
  <2>2. CASE d # 0
    BY <1>5, <1>9, <2>2
  <2> QED
    BY <2>1, <2>2
<1>14. Recorded(pid, due, n)
  BY <1>10, <1>11, <1>13 DEF Recorded, location, d
<1>15. ASSUME NEW i \in 1..N, Whole(pid, i) PROVE Recorded(pid, due, i)
  <2>1. Recorded(pid, s, i) /\ due[i] = s[i]
    BY <1>1, <1>8, <1>15
  <2>2. CASE d = 0
    <3>1. NibblesAt(pid, due, i) = NibblesAt(pid, s, i)
      BY <2>2 DEF NibblesAt, d
    <3>2. Len(NibblesAt(pid, s, i)) = 0
      BY <1>2, <2>1, <2>2, PathsAreSequences DEF Recorded, d
    <3> QED
      BY <2>1, <3>1, <3>2 DEF Recorded, ItemsFor
  <2>3. CASE d # 0
    <3>1. i - 1 \in 1..N
      <4>1. i % 2 = 0
        BY <1>15, <2>3 DEF Whole, d
      <4> QED
        BY <1>1, <4>1
    <3>2. due[i - 1] = s[i - 1]
      BY <1>8, <3>1
    <3> QED
      BY <2>1, <3>2 DEF Recorded, NibblesAt
  <2> QED
    BY <2>2, <2>3
<1>16. \A i \in 1..n : i \in 1..N \/ i \in (N + 1)..n
  BY <1>1
<1>17. ASSUME NEW i \in (N + 1)..n, Whole(pid, i) PROVE i = n
  <2> SUFFICES ASSUME i # n PROVE FALSE
    OBVIOUS
  <2>1. i = N + 1 /\ g = 2
    BY <1>1, <1>2, <1>17
  <2>2. ~Whole(pid, N + 1)
    BY <1>1, <2>1, SizeFacts DEF g
  <2> QED
    BY <1>17, <2>1, <2>2
<1>18. ItemsFit(pid, due)
  <2>1. \A i \in 1..n : Whole(pid, i) => Recorded(pid, due, i)
    BY <1>14, <1>15, <1>16, <1>17
  <2>2. \A i \in 1..n : due[i].version \in Nat \ {0}
    BY <1>1, <1>8, <1>12, <1>16
  <2>3. ASSUME NEW i \in 1..n, NEW j \in 1..n, i <= j PROVE due[i].version <= due[j].version
    <3>1. CASE j \in 1..N
      <4>1. i \in 1..N
        BY <1>1, <2>3, <3>1
      <4> QED
        BY <1>1, <1>8, <2>3, <3>1, <4>1
    <3>2. CASE j \in (N + 1)..n /\ i \in 1..N
      BY <1>8, <1>12, <3>2
    <3>3. CASE j \in (N + 1)..n /\ i \in (N + 1)..n
      BY <1>12, <3>3
    <3> QED
      BY <1>16, <3>1, <3>2, <3>3
  <2> QED
    BY <1>2, <1>8, <1>9, <2>1, <2>2, <2>3 DEF ItemsFit
<1>19. PageIs(new.root, pid, due, n)
  <2>1. PageIs(root, pid, due, N)
    <3>1. N <= Len(due) /\ N \in 0..Len(s)
      BY <1>1, <1>2, <1>9
    <3> QED
      BY <1>1, <1>8, <3>1, Extended
  <2>2. ItemsFor(child_item, root_item, NibblesAt(pid, due, n), due[n].version,
                 [version |-> due[n].version, key |-> pid \o NibblesAt(pid, due, n)])
    BY <1>5, <1>10, <1>11 DEF location
  <2>3. root_item = due[n] /\ (Depth(pid) # 0 => child_item = due[n - 1])
    BY <1>9 DEF d
  <2>4. n = N + Size(pid)
    BY DEF g
  <2> HIDE DEF n, N
  <2>5. PageIs(AfterItems(root, child_item, root_item, Depth(pid)), pid, due, n)
    BY <1>1, <1>9, <1>18, <2>1, <2>2, <2>3, <2>4, GroupReplayed
  <2> QED
    BY <1>4, <2>5 DEF d, child_item, root_item
<1> DEFINE page == new.root
<1>20. Added(pid, s, m, due, page)
  <2>1. PageIs(page, pid, due, n)
    BY <1>19
  <2>2. Len(due) = n /\ n = Len(s) + Size(pid)
    BY <1>9 DEF n, g
  <2> HIDE DEF page, n
  <2> QED
    BY <1>8, <1>11, <1>12, <1>18, <2>1, <2>2 DEF Added
<1> QED
  BY <1>20 DEF due, its, new

LEMMA CheckpointDue ==
    ASSUME NEW L \in Nat, NEW B \in Nat, NEW g \in {1, 2}, g = 2 => L % 2 = 0,
           B * Tb <= L, L < (B + 1) * Tb
    PROVE  /\ (L + g) % Tb = 0 => L + g = (B + 1) * Tb /\ L + g < (B + 2) * Tb
           /\ (L + g) % Tb # 0 => B * Tb <= L + g /\ L + g < (B + 1) * Tb
<1> DEFINE C == (B + 1) * Tb
           M == L + g
           D == B * Tb
<1>1. Tb \in Nat \ {0} /\ Td \in Nat /\ Tb = 2 * Td
  BY ThresholdAssumption
<1>2. D \in Nat /\ C = D + Tb /\ (B + 2) * Tb = C + Tb /\ C \in Nat
  BY <1>1
<1>3. C % 2 = 0
  <2>1. C = 2 * ((B + 1) * Td) /\ (B + 1) * Td \in Nat
    BY <1>1
  <2> HIDE DEF C
  <2>2. \A x \in Nat : (2 * x) % 2 = 0
    OBVIOUS
  <2> QED
    BY <2>1, <2>2
<1>4. D <= L /\ L < C
  OBVIOUS
<1> HIDE DEF C, D
<1>5. M \in Nat /\ M <= C /\ D < M
  <2>1. CASE g = 1
    BY <1>2, <1>4, <2>1
  <2>2. CASE g = 2
    <3>1. L % 2 = 0
      BY <2>2
    <3>2. L + 1 # C
      BY <1>2, <1>3, <3>1
    <3> QED
      BY <1>2, <1>4, <2>2, <3>2
  <2> QED
    BY <2>1, <2>2
<1>6. ASSUME NEW x \in Nat
      PROVE  (x \div Tb) \in Nat /\ x % Tb = x - (x \div Tb) * Tb
  BY Divided
<1> HIDE DEF M
<1>7. CASE M = C
  BY <1>1, <1>2, <1>5, <1>7 DEF C, D, M
<1>8. CASE M # C
  <2>1. B * Tb <= M /\ M < (B + 1) * Tb
    BY <1>2, <1>5, <1>8 DEF C, D
  <2>2. M \div Tb = B
    BY <1>5, <2>1, QuotientUnique
  <2>3. M % Tb = M - D
    BY <1>5, <1>6, <2>2 DEF D
  <2>4. M % Tb # 0
    BY <1>2, <1>5, <2>3
  <2> QED
    BY <2>1, <2>4 DEF M
<1> QED
  BY <1>7, <1>8

LEMMA Appended ==
    ASSUME NEW s, IsSeq(s), NEW e
    PROVE  /\ IsSeq(Append(s, e)) /\ Len(Append(s, e)) = Len(s) + 1
           /\ Append(s, e)[Len(s) + 1] = e
           /\ \A i \in 1..Len(s) : Append(s, e)[i] = s[i]
<1> DEFINE S == Range(s) \cup {e}
           t == Append(s, e)
<1>1. s \in Seq(S)
  <2>1. Range(s) \subseteq S
    OBVIOUS
  <2> HIDE DEF S
  <2> QED
    BY <2>1, SeqMonotonic DEF IsSeq
<1>2. e \in S
  OBVIOUS
<1> HIDE DEF S
<1>3. t \in Seq(S)
  BY <1>1, <1>2
<1>4. IsSeq(t)
  BY <1>3, SeqOfSet
<1>5. /\ Len(t) = Len(s) + 1 /\ t[Len(s) + 1] = e
      /\ \A i \in 1..Len(s) : t[i] = s[i]
  BY <1>1, <1>2
<1> QED
  BY <1>4, <1>5

\* A page's store with the items of one more update, and a base page when one
\* is due.
LEMMA StoreAdded ==
    ASSUME NEW pid \in Pid, NEW s, NEW bs, PageStored(pid, s, bs),
           NEW due, ItemsFit(pid, due), Len(due) = Len(s) + Size(pid),
           \A i \in 1..Len(s) : due[i] = s[i],
           \A i \in 1..Len(due) : due[i].version <= current_version,
           NEW root, PageIs(root, pid, due, Len(due))
    PROVE  PageStored(pid, due, IF Checkpoint(s, due) THEN Append(bs, root) ELSE bs)
<1> DEFINE N == Len(s)
           B == Len(bs)
           g == Size(pid)
           new == IF Checkpoint(s, due) THEN Append(bs, root) ELSE bs
<1>1. /\ IsSeq(s) /\ N \in Nat /\ IsSeq(bs) /\ B \in Nat /\ IsSeq(due)
      /\ B * Tb <= N /\ N < (B + 1) * Tb /\ Whole(pid, N)
      /\ \A b \in 1..B : PageIs(bs[b], pid, s, b * Tb)
  BY SeqFacts DEF PageStored, ItemsFit
<1>2. g \in {1, 2} /\ (g = 2 => N % 2 = 0) /\ Tb \in Nat \ {0}
  BY SizeFacts, ThresholdAssumption, <1>1 DEF Size, Whole
<1> HIDE DEF N, B, g
<1>3. /\ (N + g) % Tb = 0 => N + g = (B + 1) * Tb /\ N + g < (B + 2) * Tb
      /\ (N + g) % Tb # 0 => B * Tb <= N + g /\ N + g < (B + 1) * Tb
  BY <1>1, <1>2, CheckpointDue
<1>4. Checkpoint(s, due) <=> Len(due) % Tb = 0
  <2>1. Len(due) # 0
    BY <1>1, <1>2 DEF N, g
  <2>2. due # <<>>
    BY <2>1
  <2> QED
    BY <2>2 DEF Checkpoint
<1>5. ASSUME NEW b \in 1..B PROVE PageIs(bs[b], pid, due, b * Tb)
  <2> DEFINE n == b * Tb
             page == bs[b]
  <2>1. PageIs(page, pid, s, n)
    BY <1>1
  <2>2. n \in 0..Len(s)
    <3>1. B = b + (B - b) /\ B - b \in Nat /\ b \in Nat
      BY <1>1
    <3> DEFINE e == B - b
    <3> HIDE DEF e
    <3>2. e \in Nat /\ B * Tb = b * Tb + e * Tb /\ e * Tb \in Nat /\ b * Tb \in Nat
      BY <1>2, <3>1 DEF e
    <3> QED
      BY <1>1, <3>2 DEF N
  <2> HIDE DEF n, page
  <2>3. Len(s) <= Len(due)
    BY <1>1, <1>2 DEF N, g
  <2>4. PageIs(page, pid, due, n)
    BY <1>1, <2>1, <2>2, <2>3, Extended
  <2> QED
    BY <2>4 DEF n, page
<1>6. CASE Len(due) % Tb = 0
  <2>1. new = Append(bs, root)
    BY <1>4, <1>6
  <2>2. /\ IsSeq(new) /\ Len(new) = B + 1 /\ new[B + 1] = root
        /\ \A i \in 1..B : new[i] = bs[i]
    BY <1>1, <2>1, Appended DEF B
  <2> HIDE DEF new
  <2>3. Len(due) = (B + 1) * Tb /\ Len(due) < (B + 2) * Tb /\ (B + 1) + 1 = B + 2
    BY <1>1, <1>3, <1>6 DEF N, g
  <2>4. ASSUME NEW b \in 1..(B + 1) PROVE PageIs(new[b], pid, due, b * Tb)
    <3>1. CASE b \in 1..B
      BY <1>5, <2>2, <3>1
    <3>2. CASE b = B + 1
      BY <2>2, <2>3, <3>2
    <3> QED
      BY <1>1, <3>1, <3>2
  <2>5. Len(new) * Tb <= Len(due) /\ Len(due) < (Len(new) + 1) * Tb
    BY <1>1, <2>2, <2>3 DEF N
  <2> QED
    BY <2>2, <2>4, <2>5 DEF PageStored, new
<1>7. CASE Len(due) % Tb # 0
  <2>1. new = bs
    BY <1>4, <1>7
  <2>2. B * Tb <= Len(due) /\ Len(due) < (B + 1) * Tb
    BY <1>3, <1>7 DEF N, g
  <2> HIDE DEF new
  <2> QED
    BY <1>1, <1>5, <2>1, <2>2 DEF PageStored, B, new
<1> QED
  BY <1>6, <1>7

-----------------------------------------------------------------------------
(* The work of a commit on one page *)

\* The page is one of the first n in the cache.
AmongFirst(lru, n, pid, version) ==
    \E i \in 1..Len(lru) : i <= n /\ lru[i].pid = pid /\ lru[i].version = version

\* The nibbles of the items that were added.
NewNibbles(pid, its) ==
    {NibblesAt(pid, its, i) : i \in {j \in (Len(items[pid]) + 1)..Len(its) : Whole(pid, j)}}

\* During the work on a page.
LoopOk(work, pid) ==
    /\ CacheOk(work.lru)
    /\ \A i \in 1..Len(work.lru) :
          work.lru[i].version = 0 => work.lru[i].pid = pid /\ PageVersion(pid) = 0
    /\ PageStored(pid, work.items, work.bases)
    /\ PageIs(work.root, pid, work.items, Len(work.items))
    /\ Len(items[pid]) <= Len(work.items)
    /\ \A i \in 1..Len(items[pid]) : work.items[i] = items[pid][i]
    /\ \A i \in (Len(items[pid]) + 1)..Len(work.items) : work.items[i].version = current_version

LEMMA StepDone ==
    ASSUME Markers, StoreOk, current_version \in Nat \ {0},
           NEW pid \in Pid, NEW m \in Paths(Depth(pid)), Depth(pid) = 2 => pid \o m \in Pid,
           NEW work, LoopOk(work, pid)
    PROVE  LET new == Step(work, pid, m)
           IN  /\ LoopOk(new, pid)
               /\ NewNibbles(pid, new.items) = NewNibbles(pid, work.items) \cup {m}
               /\ \A n \in Nat :
                     (Depth(pid) = 2 => AmongFirst(work.lru, n, pid \o m, current_version)) =>
                        /\ work.fault = "none" => new.fault = "none"
                        /\ \A q, v : AmongFirst(work.lru, n, q, v) => AmongFirst(new.lru, n, q, v)
<1> DEFINE d == Depth(pid)
           child == pid \o m
           got == IF Len(m) = 2 THEN GetPage(work.lru, child, current_version)
                  ELSE [lru |-> work.lru, fault |-> "none", root |-> NoNode]
           hash == IF Len(m) = 2 /\ got.root \notin {NoPage, NoNode}
                   THEN got.root.hash ELSE EmptyString
           update == UpdateFor(pid, m, hash)
           page == UpdatePage(work.root, update)
           due == work.items \o page.items
           died == Worse(work.fault, IF got.root = NoPage THEN "no child page" ELSE got.fault)
           bs == IF Checkpoint(work.items, due) THEN Append(work.bases, page.root)
                 ELSE work.bases
           s == work.items
           new == Step(work, pid, m)
<1>1. d \in 0..2 /\ Len(m) = d
  BY PidFacts, PathsAreSequences
<1>2. new = [lru |-> got.lru, fault |-> died, root |-> page.root, items |-> due, bases |-> bs]
  BY DEF Step
<1>3. /\ update.nibbles = m /\ update.version = current_version
      /\ d # 2 => update.location = [version |-> current_version, key |-> child]
  <2> HIDE DEF hash
  <2>1. CASE Len(m) = 2
    BY <1>1, <2>1 DEF UpdateFor, Update
  <2>2. CASE Len(m) # 2
    BY <2>2 DEF UpdateFor, Update
  <2> QED
    BY <2>1, <2>2
<1> HIDE DEF update, died
<1>4. /\ CacheOk(got.lru)
      /\ \A i \in 1..Len(got.lru) :
            got.lru[i].version = 0 => got.lru[i].pid = pid /\ PageVersion(pid) = 0
      /\ \A n \in Nat :
            (d = 2 => AmongFirst(work.lru, n, child, current_version)) =>
               /\ got.fault = "none" /\ got.root # NoPage
               /\ \A q, v : AmongFirst(work.lru, n, q, v) => AmongFirst(got.lru, n, q, v)
  <2>1. CASE d = 2
    <3> DEFINE g == GetPage(work.lru, child, current_version)
    <3>1. got = g
      BY <1>1, <2>1
    <3>2. CacheOk(work.lru) /\ child \in Pid /\ current_version \in Nat
      BY <2>1 DEF LoopOk
    <3> HIDE DEF child
    <3>3. /\ CacheOk(g.lru)
          /\ \A j \in 1..Len(g.lru) :
                \/ \E k \in 1..Len(work.lru) : g.lru[j] = work.lru[k]
                \/ g.lru[j].pid = child /\ g.lru[j].version = current_version
          /\ g.root # NoPage <=> Exactly(child, current_version)
          /\ \A i \in 1..Len(work.lru), n \in Nat :
                i <= n /\ work.lru[i].pid = child /\ work.lru[i].version = current_version =>
                   /\ g.fault = "none"
                   /\ \A k \in 1..Len(work.lru) : k <= n =>
                         \E j \in 1..Len(g.lru) : j <= n /\ g.lru[j] = work.lru[k]
      BY <3>2, GotPage, ZenonT(60)
    <3> HIDE DEF g
    <3>4. \A i \in 1..Len(g.lru) :
              g.lru[i].version = 0 => g.lru[i].pid = pid /\ PageVersion(pid) = 0
      BY <3>3 DEF LoopOk
    <3>5. ASSUME NEW n \in Nat, AmongFirst(work.lru, n, child, current_version)
          PROVE  /\ g.fault = "none" /\ g.root # NoPage
                 /\ \A q, v : AmongFirst(work.lru, n, q, v) => AmongFirst(g.lru, n, q, v)
      <4>1. PICK i \in 1..Len(work.lru) :
                i <= n /\ work.lru[i].pid = child /\ work.lru[i].version = current_version
        BY <3>5 DEF AmongFirst
      <4>2. /\ g.fault = "none"
            /\ \A k \in 1..Len(work.lru) : k <= n =>
                  \E j \in 1..Len(g.lru) : j <= n /\ g.lru[j] = work.lru[k]
        BY <3>3, <4>1
      <4>3. Exactly(child, current_version)
        BY <3>2, <4>1 DEF CacheOk, EntryOk
      <4>4. \A q, v : AmongFirst(work.lru, n, q, v) => AmongFirst(g.lru, n, q, v)
        BY <4>2 DEF AmongFirst
      <4> QED
        BY <3>3, <4>2, <4>3, <4>4
    <3> HIDE DEF got
    <3> QED
      BY <2>1, <3>1, <3>3, <3>4, <3>5
  <2>2. CASE d # 2
    <3>1. got = [lru |-> work.lru, fault |-> "none", root |-> NoNode]
      BY <1>1, <2>2
    <3> HIDE DEF got
    <3>2. got.lru = work.lru /\ got.fault = "none" /\ got.root # NoPage
      BY <3>1 DEF Markers
    <3> QED
      BY <3>2 DEF LoopOk
  <2> QED
    BY <2>1, <2>2
<1> HIDE DEF got
<1>5. /\ PageStored(pid, s, work.bases) /\ ItemsFit(pid, s) /\ IsSeq(s)
      /\ PageIs(work.root, pid, s, Len(s))
      /\ \A i \in 1..Len(s) : s[i].version <= current_version
      /\ Len(s) \in Nat /\ Len(items[pid]) <= Len(s) /\ Len(items[pid]) \in Nat
      /\ IsSeq(items[pid])
  BY SeqFacts DEF LoopOk, PageStored, ItemsFit, StoreOk
<1>6. /\ ItemsFit(pid, due) /\ Len(due) = Len(s) + Size(pid)
      /\ \A i \in 1..Len(s) : due[i] = s[i]
      /\ \A i \in (Len(s) + 1)..(Len(s) + Size(pid)) : due[i].version = current_version
      /\ NibblesAt(pid, due, Len(s) + Size(pid)) = m
      /\ PageIs(page.root, pid, due, Len(s) + Size(pid))
  <2> DEFINE root == work.root
             location == [version |-> current_version, key |-> pid \o m]
  <2>1. /\ NullIsNoNode /\ ItemsFit(pid, s) /\ PageIs(root, pid, s, Len(s))
        /\ \A i \in 1..Len(s) : s[i].version <= current_version
    BY <1>5 DEF Markers
  <2>2. /\ update.nibbles = m /\ update.version = current_version
        /\ Depth(pid) # 2 => update.location = location
    BY <1>3
  <2> HIDE DEF root, s, d
  <2> DEFINE all == s \o UpdatePage(root, update).items
             after == UpdatePage(root, update).root
  <2>3. Added(pid, s, m, all, after)
    BY <2>1, <2>2, ItemsAdded
  <2>4. all = due /\ after = page.root
    BY DEF root, s
  <2> HIDE DEF all, after, page, due
  <2> QED
    BY <2>3, <2>4 DEF Added, s
<1> HIDE DEF page, due
<1>7. Size(pid) \in {1, 2} /\ (d = 0 <=> Size(pid) = 1) /\ Whole(pid, Len(s))
      /\ Whole(pid, Len(s) + Size(pid))
  <2>1. Whole(pid, Len(s))
    BY <1>5 DEF ItemsFit
  <2> QED
    BY <1>5, <2>1, SizeFacts DEF Size
<1> DEFINE L == Len(s)
           M == Len(due)
           L0 == Len(items[pid])
<1>8. M = L + Size(pid) /\ M \in Nat /\ L0 <= M /\ M \in (L + 1)..M /\ M \in (L0 + 1)..M
  BY <1>5, <1>6, <1>7
<1>9. \A i \in 1..M : i \in 1..L \/ i \in (L + 1)..M
  BY <1>5, <1>8
<1>10. \A i \in 1..M : due[i].version <= current_version
  BY <1>5, <1>6, <1>8, <1>9
<1>11. PageStored(pid, due, bs)
  BY <1>5, <1>6, <1>8, <1>10, StoreAdded
<1>12. ASSUME NEW i \in (L + 1)..M, Whole(pid, i) PROVE i = M
  <2> SUFFICES ASSUME i # M PROVE FALSE
    OBVIOUS
  <2>1. i = L + 1 /\ Size(pid) = 2
    BY <1>5, <1>7, <1>8, <1>12
  <2>2. ~Whole(pid, L + 1)
    BY <1>5, <1>7, <2>1, SizeFacts
  <2> QED
    BY <1>12, <2>1, <2>2
<1>13. ASSUME NEW i \in 1..L, Whole(pid, i)
       PROVE  NibblesAt(pid, due, i) = NibblesAt(pid, s, i)
  <2>1. CASE d = 0
    BY <2>1 DEF NibblesAt
  <2>2. CASE d # 0
    <3>1. i % 2 = 0
      BY <1>13, <2>2 DEF Whole
    <3>2. i - 1 \in 1..L
      BY <1>5, <3>1
    <3>3. due[i] = s[i] /\ due[i - 1] = s[i - 1]
      BY <1>6, <3>2
    <3> QED
      BY <3>3 DEF NibblesAt
  <2> QED
    BY <2>1, <2>2
<1>14. NewNibbles(pid, due) = NewNibbles(pid, s) \cup {m}
  <2>1. \A i \in (L0 + 1)..M : (i \in 1..L /\ i \in (L0 + 1)..L) \/ i \in (L + 1)..M
    BY <1>5, <1>8
  <2>2. \A i \in (L0 + 1)..L : i \in 1..L /\ i \in (L0 + 1)..M
    BY <1>5, <1>7, <1>8
  <2>3. NibblesAt(pid, due, M) = m /\ Whole(pid, M)
    BY <1>6, <1>7, <1>8
  <2>4. ASSUME NEW i \in (L0 + 1)..M, Whole(pid, i)
        PROVE  NibblesAt(pid, due, i) \in NewNibbles(pid, s) \cup {m}
    <3>1. CASE i \in (L + 1)..M
      BY <1>12, <2>3, <2>4, <3>1
    <3>2. CASE i \in 1..L /\ i \in (L0 + 1)..L
      BY <1>13, <2>4, <3>2 DEF NewNibbles
    <3> QED
      BY <2>1, <3>1, <3>2
  <2>5. ASSUME NEW i \in (L0 + 1)..L, Whole(pid, i)
        PROVE  NibblesAt(pid, s, i) \in NewNibbles(pid, due)
    <3>1. NibblesAt(pid, due, i) = NibblesAt(pid, s, i) /\ i \in (L0 + 1)..M
      BY <1>13, <2>2, <2>5
    <3> QED
      BY <2>5, <3>1 DEF NewNibbles
  <2>6. m \in NewNibbles(pid, due)
    BY <1>8, <2>3 DEF NewNibbles
  <2>7. NewNibbles(pid, due) \subseteq NewNibbles(pid, s) \cup {m}
    BY <2>4 DEF NewNibbles
  <2>8. NewNibbles(pid, s) \subseteq NewNibbles(pid, due)
    <3> SUFFICES ASSUME NEW x \in NewNibbles(pid, s) PROVE x \in NewNibbles(pid, due)
      OBVIOUS
    <3>1. PICK i \in (L0 + 1)..L : Whole(pid, i) /\ x = NibblesAt(pid, s, i)
      BY DEF NewNibbles
    <3> QED
      BY <2>5, <3>1
  <2> QED
    BY <2>6, <2>7, <2>8
<1>15. \A i \in 1..L0 : due[i] = items[pid][i]
  <2>1. \A i \in 1..L0 : i \in 1..L
    BY <1>5
  <2> QED
    BY <1>6, <2>1 DEF LoopOk
<1>16. \A i \in (L0 + 1)..M : due[i].version = current_version
  <2>1. \A i \in (L0 + 1)..M : (i \in 1..L /\ i \in (L0 + 1)..L) \/ i \in (L + 1)..M
    BY <1>5, <1>8
  <2>2. \A i \in (L0 + 1)..L : s[i].version = current_version
    BY DEF LoopOk
  <2> QED
    BY <1>6, <1>8, <2>1, <2>2
<1> HIDE DEF bs, new
<1>17. /\ new.lru = got.lru /\ new.fault = died /\ new.root = page.root
       /\ new.items = due /\ new.bases = bs
  BY <1>2
<1>18. LoopOk(new, pid)
  <2>1. PageIs(page.root, pid, due, M)
    BY <1>6, <1>8
  <2> QED
    BY <1>4, <1>8, <1>11, <1>15, <1>16, <1>17, <2>1 DEF LoopOk
<1>19. \A n \in Nat :
          (d = 2 => AmongFirst(work.lru, n, child, current_version)) =>
             /\ work.fault = "none" => new.fault = "none"
             /\ \A q, v : AmongFirst(work.lru, n, q, v) => AmongFirst(new.lru, n, q, v)
  BY <1>4, <1>17 DEF died, Worse
<1> QED
  BY <1>14, <1>17, <1>18, <1>19 DEF new

-----------------------------------------------------------------------------
(* The hashes of pages in memory *)

\* The page after its first n items.
PageAfter(s, n) == Replay(NoNode, s)[n]

\* The hash of a page as of a version that it was updated at.
HashOf(pid, version) ==
    IF version = 0 \/ pid \notin Pid THEN EmptyString
    ELSE PageAfter(items[pid], UpdatesUpTo(pid, version)).hash

\* The hash of what a page had below it at a version: of a page, or of a value.
HashBeneath(pid, m, version) ==
    IF version = 0 THEN EmptyString
    ELSE IF Depth(pid) = 2 THEN HashOf(pid \o m, version)
    ELSE HashOfLeaf(value_store[version][pid \o m])

HashedAfter(pid, s, n) ==
    /\ PageHashed(PageAfter(s, n), Depth(pid))
    /\ \A m \in Paths(Depth(pid)), j \in 0..n :
          LastGroup(pid, s, j, n, m) =>
             HashAt(PageAfter(s, n), m) = HashBeneath(pid, m, VersionAt(s, j))

\* After each of its updates a page had the hashes of what was below it.
Hashed(pid, s) == \A n \in 0..Len(s) : Whole(pid, n) => HashedAfter(pid, s, n)

LEMMA NothingHashed ==
    ASSUME NEW pid \in Pid, NEW s, IsSeq(s), Len(s) = 0
    PROVE  Hashed(pid, s)
<1>1. PageAfter(s, 0) = NoNode
  BY ReplaySteps DEF PageAfter
<1>2. HashedAfter(pid, s, 0)
  BY <1>1 DEF HashedAfter, PageHashed, HashAt, HashBeneath, VersionAt
<1> QED
  BY <1>2 DEF Hashed

\* One update more.
LEMMA GroupHashed ==
    ASSUME NullIsNoNode, Unwritten, current_version \in Nat \ {0},
           NEW pid \in Pid, NEW s, ItemsFit(pid, s), Hashed(pid, s),
           NEW root, PageIs(root, pid, s, Len(s)),
           NEW m \in Paths(Depth(pid)),
           NEW update, update.nibbles = m, update.version = current_version,
           (IF Depth(pid) = 2 THEN update.child_hash ELSE HashOfLeaf(update.value))
              = HashBeneath(pid, m, current_version),
           NEW t, IsSeq(t), Len(t) = Len(s) + Size(pid),
           \A i \in 1..Len(s) : t[i] = s[i],
           NibblesAt(pid, t, Len(t)) = m, t[Len(t)].version = current_version,
           NEW new, new = UpdatePage(root, update).root, PageIs(new, pid, t, Len(t))
    PROVE  Hashed(pid, t)
<1> DEFINE d == Depth(pid)
           L == Len(s)
           M == Len(t)
<1>1. d \in 0..2 /\ IsSeq(s) /\ L \in Nat /\ M \in Nat /\ Whole(pid, L) /\ Size(pid) \in {1, 2}
  BY PidFacts, SeqFacts, SizeFacts DEF ItemsFit
<1>2. M = L + Size(pid) /\ Whole(pid, M) /\ (Size(pid) = 2 => ~Whole(pid, L + 1)) /\ L <= M /\ M # 0
  <2>1. M = L + Size(pid)
    OBVIOUS
  <2> HIDE DEF L, M
  <2>2. Whole(pid, M) /\ (Size(pid) = 2 => ~Whole(pid, L + 1))
    BY <1>1, <2>1, SizeFacts
  <2> QED
    BY <1>1, <2>1, <2>2
<1>3. root = PageAfter(s, L) /\ new = PageAfter(t, M) /\ PageRoot(root, d)
  BY DEF PageIs, Mirrors, PageShape, PageAfter
<1>4. L \in 0..L /\ HashedAfter(pid, s, L)
  BY <1>1 DEF Hashed
<1>5. PageHashed(root, d)
  BY <1>3, <1>4 DEF HashedAfter
<1>6. NibblesFit(update, d)
  BY <1>1, PathsAreSequences DEF NibblesFit
<1>7. /\ PageHashed(new, d)
      /\ HashAt(new, m) = IF d = 2 THEN update.child_hash ELSE HashOfLeaf(update.value)
      /\ \A k \in Paths(d) : k # m => HashAt(new, k) = HashAt(root, k)
  <2> HIDE DEF d
  <2>1. update.version # 0
    OBVIOUS
  <2> QED
    BY <1>1, <1>3, <1>5, <1>6, <2>1, HashesUpdated
<1>8. \A n \in 0..L : /\ PageAfter(t, n) = PageAfter(s, n)
                      /\ \A j \in 0..n : VersionAt(t, j) = VersionAt(s, j)
                      /\ \A k \in Paths(d), j \in 0..n :
                            LastGroup(pid, t, j, n, k) <=> LastGroup(pid, s, j, n, k)
  BY <1>1, <1>2, PrefixSame DEF PageAfter
<1>9. ASSUME NEW n \in 0..L, Whole(pid, n) PROVE HashedAfter(pid, t, n)
  <2>1. HashedAfter(pid, s, n)
    BY <1>9 DEF Hashed
  <2> QED
    BY <1>8, <2>1 DEF HashedAfter
<1> HIDE DEF d
<1>10. ASSUME NEW k \in Paths(d), NEW j \in 0..M, LastGroup(pid, t, j, M, k)
       PROVE  HashAt(new, k) = HashBeneath(pid, k, VersionAt(t, j))
  <2>1. CASE k = m
    <3>1. j = M
      <4> SUFFICES ASSUME j # M PROVE FALSE
        OBVIOUS
      <4>1. M \in (j + 1)..M
        BY <1>1
      <4> QED
        BY <1>2, <1>10, <2>1, <4>1 DEF LastGroup
    <3>2. VersionAt(t, j) = current_version
      BY <1>2, <3>1 DEF VersionAt
    <3> QED
      BY <1>7, <2>1, <3>2 DEF d
  <2>2. CASE k # m
    <3>1. j # M
      BY <1>2, <1>10, <2>2 DEF LastGroup
    <3>2. j <= L
      <4> SUFFICES ASSUME ~ (j <= L) PROVE FALSE
        OBVIOUS
      <4>1. j = L + 1 /\ Size(pid) = 2
        BY <1>1, <1>2, <3>1
      <4> QED
        BY <1>1, <1>2, <1>10, <4>1 DEF LastGroup
    <3>3. j \in 0..L /\ \A x \in (j + 1)..L : x \in (j + 1)..M
      BY <1>1, <1>2, <3>2
    <3>4. LastGroup(pid, t, j, L, k)
      BY <1>10, <3>3 DEF LastGroup
    <3>5. LastGroup(pid, s, j, L, k) /\ VersionAt(t, j) = VersionAt(s, j)
      BY <1>4, <1>8, <3>3, <3>4
    <3>6. HashAt(root, k) = HashBeneath(pid, k, VersionAt(s, j))
      BY <1>3, <1>4, <3>3, <3>5 DEF HashedAfter, d
    <3> QED
      BY <1>7, <2>2, <3>5, <3>6
  <2> QED
    BY <2>1, <2>2
<1>11. HashedAfter(pid, t, M)
  BY <1>3, <1>7, <1>10 DEF HashedAfter, d
<1>12. ASSUME NEW n \in 0..M, Whole(pid, n) PROVE n \in 0..L \/ n = M
  <2> SUFFICES ASSUME n \notin 0..L, n # M PROVE FALSE
    OBVIOUS
  <2>1. n = L + 1 /\ Size(pid) = 2
    BY <1>1, <1>2
  <2> QED
    BY <1>2, <1>12, <2>1
<1> QED
  BY <1>9, <1>11, <1>12 DEF Hashed

\* The items of one round.
LEMMA RoundAdded ==
    ASSUME NullIsNoNode, current_version \in Nat \ {0},
           NEW pid \in Pid, NEW s, ItemsFit(pid, s),
           \A i \in 1..Len(s) : s[i].version <= current_version,
           NEW root, PageIs(root, pid, s, Len(s)), NEW m \in Paths(Depth(pid)),
           NEW hash, NEW update, update = UpdateFor(pid, m, hash)
    PROVE  LET new == UpdatePage(root, update)
           IN  /\ Added(pid, s, m, s \o new.items, new.root)
               /\ update.nibbles = m /\ update.version = current_version
               /\ Depth(pid) = 2 => update.child_hash = hash
               /\ Depth(pid) # 2 => update.value = put_cache[pid \o m]
<1>1. Depth(pid) \in 0..2 /\ Len(m) = Depth(pid)
  BY PidFacts, PathsAreSequences
<1>2. /\ update.nibbles = m /\ update.version = current_version
      /\ Depth(pid) = 2 => update.child_hash = hash
      /\ Depth(pid) # 2 => /\ update.value = put_cache[pid \o m]
                           /\ update.location = [version |-> current_version, key |-> pid \o m]
  <2>1. CASE Len(m) = 2
    BY <1>1, <2>1 DEF UpdateFor, Update
  <2>2. CASE Len(m) # 2
    BY <1>1, <2>2 DEF UpdateFor, Update
  <2> QED
    BY <2>1, <2>2
<1>3. Added(pid, s, m, s \o UpdatePage(root, update).items, UpdatePage(root, update).root)
  BY <1>2, ItemsAdded
<1> QED
  BY <1>2, <1>3

\* One round of the work on a page: the child page was updated already, or the
\* value is the one of this commit.
LEMMA StepHashed ==
    ASSUME Markers, StoreOk, current_version \in Nat \ {0}, Unwritten,
           NEW pid \in Pid, NEW m \in Paths(Depth(pid)),
           Depth(pid) = 2 => pid \o m \in Pid /\ Exactly(pid \o m, current_version),
           Depth(pid) # 2 => put_cache[pid \o m] = value_store[current_version][pid \o m],
           NEW work, LoopOk(work, pid), Hashed(pid, work.items)
    PROVE  Hashed(pid, Step(work, pid, m).items)
<1> DEFINE d == Depth(pid)
           child == pid \o m
           got == IF Len(m) = 2 THEN GetPage(work.lru, child, current_version)
                  ELSE [lru |-> work.lru, fault |-> "none", root |-> NoNode]
           hash == IF Len(m) = 2 /\ got.root \notin {NoPage, NoNode}
                   THEN got.root.hash ELSE EmptyString
           update == UpdateFor(pid, m, hash)
           s == work.items
           root == work.root
           new == UpdatePage(root, update)
           due == s \o new.items
<1>1. d \in 0..2 /\ Len(m) = d
  BY PidFacts, PathsAreSequences
<1>2. Step(work, pid, m).items = due
  BY DEF Step
<1>3. d = 2 => hash = HashOf(child, current_version)
  <2> SUFFICES ASSUME d = 2 PROVE hash = HashOf(child, current_version)
    OBVIOUS
  <2> DEFINE g == GetPage(work.lru, child, current_version)
  <2>1. got = g
    BY <1>1
  <2>2. CacheOk(work.lru) /\ child \in Pid /\ current_version \in Nat /\ Exactly(child, current_version)
    BY DEF LoopOk
  <2> HIDE DEF child
  <2>3. g.root # NoPage /\ PageAt(g.root, child, current_version)
    <3>1. /\ Markers /\ StoreOk /\ current_version \in Nat
          /\ CacheOk(work.lru) /\ child \in Pid
      BY <2>2
    <3>2. /\ g.root # NoPage <=> Exactly(child, current_version)
          /\ g.root # NoPage => PageAt(g.root, child, current_version)
      BY ONLY <3>1, GotPage, ZenonT(60)
    <3> QED
      BY <2>2, <3>2
  <2> HIDE DEF g, got
  <2>4. PICK n : n = UpdatesUpTo(child, current_version)
    OBVIOUS
  <2>5. g.root = PageAfter(items[child], n) /\ (g.root = NoNode <=> n = 0)
    BY <2>3, <2>4 DEF PageAt, PageIs, Mirrors, PageAfter
  <2>6. n # 0
    BY <2>2, <2>4 DEF Exactly, VersionAt
  <2>7. hash = g.root.hash
    BY <1>1, <2>1, <2>3, <2>5, <2>6
  <2> HIDE DEF hash
  <2> QED
    BY <2>2, <2>4, <2>5, <2>7 DEF HashOf
<1> HIDE DEF hash
<1>4. /\ NullIsNoNode /\ ItemsFit(pid, s) /\ PageIs(root, pid, s, Len(s)) /\ Hashed(pid, s)
      /\ \A i \in 1..Len(s) : s[i].version <= current_version
      /\ Len(s) \in Nat
  BY SeqFacts DEF LoopOk, PageStored, ItemsFit, Markers
<1>5. update = UpdateFor(pid, m, hash)
  OBVIOUS
<1> HIDE DEF s, root, update
<1> DEFINE page == new.root
<1>6. /\ Added(pid, s, m, due, page)
      /\ update.nibbles = m /\ update.version = current_version
      /\ d = 2 => update.child_hash = hash
      /\ d # 2 => update.value = put_cache[child]
  BY <1>5, <1>4, RoundAdded
<1>7. page = UpdatePage(root, update).root
  OBVIOUS
<1> HIDE DEF new
<1>8. (IF d = 2 THEN update.child_hash ELSE HashOfLeaf(update.value))
         = HashBeneath(pid, m, current_version)
  BY <1>3, <1>6 DEF HashBeneath
<1> HIDE DEF due, page, child, d
<1>9. /\ ItemsFit(pid, due) /\ Len(due) = Len(s) + Size(pid)
      /\ \A i \in 1..Len(s) : due[i] = s[i]
      /\ \A i \in (Len(s) + 1)..Len(due) : due[i].version = current_version
      /\ NibblesAt(pid, due, Len(due)) = m
      /\ PageIs(page, pid, due, Len(due))
  BY <1>6 DEF Added
<1>10. Size(pid) \in {1, 2}
  BY SizeFacts
<1>11. IsSeq(due) /\ due[Len(due)].version = current_version
  BY <1>4, <1>9, <1>10 DEF ItemsFit
<1>12. Hashed(pid, due)
  BY <1>8, <1>4, <1>6, <1>7, <1>9, <1>11, GroupHashed DEF d
<1> QED
  BY <1>2, <1>12 DEF due

-----------------------------------------------------------------------------
(* The work of a commit on one page, round by round *)

CacheInv ==
    /\ CacheOk(pagekeys)
    /\ \A i \in 1..Len(pagekeys) : pagekeys[i].version # 0

\* The latest version of a page is the version of its last item.
LEMMA LatestVersion ==
    ASSUME StoreOk, current_version \in Nat, NEW pid \in Pid
    PROVE  /\ PageVersion(pid) \in 0..current_version
           /\ Exactly(pid, PageVersion(pid))
           /\ UpdatesUpTo(pid, PageVersion(pid)) = Len(items[pid])
<1> DEFINE s == items[pid]
           N == Len(s)
           v == PageVersion(pid)
           n == UpdatesUpTo(pid, v)
<1>1. /\ IsSeq(s) /\ N \in Nat
      /\ \A i \in 1..N : s[i].version \in Nat \ {0} /\ s[i].version <= current_version
      /\ \A i, j \in 1..N : i <= j => s[i].version <= s[j].version
  BY SeqFacts DEF StoreOk, PageStored, ItemsFit
<1>2. v = VersionAt(s, N)
  <2>1. CASE s = <<>>
    <3>1. N = 0
      BY <2>1
    <3> QED
      BY <2>1, <3>1 DEF PageVersion, VersionAt
  <2>2. CASE s # <<>>
    <3>1. N # 0
      BY <1>1, <2>2, EmptySeq DEF IsSeq
    <3> QED
      BY <2>2, <3>1 DEF PageVersion, VersionAt, Last
  <2> QED
    BY <2>1, <2>2
<1> HIDE DEF v
<1>3. v \in 0..current_version /\ \A i \in 1..N : s[i].version <= v
  <2>1. CASE N = 0
    BY <1>1, <1>2, <2>1 DEF VersionAt
  <2>2. CASE N # 0
    <3>1. N \in 1..N /\ v = s[N].version /\ \A i \in 1..N : i <= N
      BY <1>1, <1>2, <2>2 DEF VersionAt
    <3> QED
      BY <1>1, <3>1
  <2> QED
    BY <2>1, <2>2
<1>4. v \in Nat
  BY <1>3
<1>5. n \in 0..N /\ \A i \in 1..N : s[i].version <= v <=> i <= n
  BY <1>4, UpToFacts
<1> HIDE DEF n
<1>6. n = N
  <2>1. N # 0 => N <= n
    <3>1. N # 0 => N \in 1..N
      BY <1>1
    <3> QED
      BY <1>3, <1>5, <3>1
  <2> QED
    BY <1>1, <1>5, <2>1
<1>7. VersionAt(s, n) = v
  BY <1>2, <1>6
<1> QED
  BY <1>3, <1>6, <1>7 DEF v, n, Exactly

\* What is below these nibbles of a page is there, in memory, at this version.
BeneathReady(pid, S) ==
    /\ Unwritten
    /\ \A m \in S :
          /\ Depth(pid) = 2 => Exactly(pid \o m, current_version)
          /\ Depth(pid) # 2 => put_cache[pid \o m] = value_store[current_version][pid \o m]

\* The work of a commit on a page; when it deletes no page: the child pages are
\* among the first in the cache; and its hashes.
LEMMA WorkDone ==
    ASSUME Markers, StoreOk, current_version \in Nat \ {0}, CacheInv,
           NEW pid \in Pid, DOMAIN put_cache \subseteq Key
    PROVE  LET work == WorkOn(pid)
               S == NibblesIn(pid, DOMAIN put_cache)
           IN  /\ LoopOk(work, pid)
               /\ NewNibbles(pid, work.items) = S
               /\ \A n \in Nat :
                     /\ n < MaxCacheSize
                     /\ Depth(pid) = 2 =>
                           \A m \in S : AmongFirst(pagekeys, n, pid \o m, current_version)
                     => /\ work.fault = "none"
                        /\ AmongFirst(work.lru, n + 1, pid, PageVersion(pid))
                        /\ \A q, v : AmongFirst(pagekeys, n, q, v) => AmongFirst(work.lru, n + 1, q, v)
               /\ BeneathReady(pid, S) /\ Hashed(pid, items[pid]) => Hashed(pid, work.items)
<1> DEFINE d == Depth(pid)
           S == NibblesIn(pid, DOMAIN put_cache)
           pv == PageVersion(pid)
           got == GetPage(pagekeys, pid, pv)
           start == [lru |-> got.lru, fault |-> got.fault, root |-> got.root,
                     items |-> items[pid], bases |-> bases[pid]]
           order == InOrder(S)
           N == Len(order)
<1>1. d \in 0..2 /\ current_version \in Nat
  BY PidFacts
<1>2. \A m \in S : m \in Paths(d) /\ (d = 2 => pid \o m \in Pid)
  <2> SUFFICES ASSUME NEW m \in S PROVE m \in Paths(d) /\ (d = 2 => pid \o m \in Pid)
    OBVIOUS
  <2>1. /\ m \in Paths(d)
        /\ \E k \in DOMAIN put_cache : pid \in PagesOf(k) /\ m = NibblesAfter(pid, k)
    BY NibblesFacts
  <2>2. PICK k \in Key : pid \in PagesOf(k) /\ m = NibblesAfter(pid, k)
    BY <2>1
  <2>3. d = 2 => pid \o m \in Pid
    BY <2>2, NextPage
  <2> QED
    BY <2>1, <2>3
<1>3. /\ N \in Nat /\ \A i \in 1..N : order[i] \in S
      /\ \A m \in S : \E i \in 1..N : order[i] = m
  <2>1. S \in SUBSET Paths(d)
    BY <1>2
  <2> HIDE DEF S, d
  <2> QED
    BY <1>1, <2>1, InOrderFacts
<1>4. PICK w : /\ w[0] = start
               /\ \A n \in 1..N : w[n] = Step(w[n - 1], pid, order[n])
               /\ WorkOn(pid) = w[N]
  <2>1. start = [lru |-> GetPage(pagekeys, pid, PageVersion(pid)).lru,
                 fault |-> GetPage(pagekeys, pid, PageVersion(pid)).fault,
                 root |-> GetPage(pagekeys, pid, PageVersion(pid)).root,
                 items |-> items[pid], bases |-> bases[pid]]
    OBVIOUS
  <2>2. order = InOrder(NibblesIn(pid, DOMAIN put_cache))
    OBVIOUS
  <2> HIDE DEF order, start
  <2>3. PICK w : WorksThrough(w, pid, start, order)
    BY <1>3, <2>1, <2>2, WorkSteps
  <2> QED
    BY <2>3 DEF WorksThrough
<1>5. /\ pv \in 0..current_version /\ pv \in Nat /\ Exactly(pid, pv)
      /\ UpdatesUpTo(pid, pv) = Len(items[pid])
  BY <1>1, LatestVersion
<1>6. CacheOk(pagekeys) /\ \A i \in 1..Len(pagekeys) : EntryOk(pagekeys[i]) /\ pagekeys[i].version # 0
  BY DEF CacheInv, CacheOk
<1>7. \A k \in 1..Len(pagekeys) : pagekeys[k].root # NoNode
  BY <1>1, <1>6, EntryFacts
<1>8. /\ CacheOk(got.lru)
      /\ \A j \in 1..Len(got.lru) :
            \/ \E k \in 1..Len(pagekeys) : got.lru[j] = pagekeys[k]
            \/ got.lru[j].pid = pid /\ got.lru[j].version = pv
      /\ PageAt(got.root, pid, pv)
      /\ 1 \in 1..Len(got.lru) /\ got.lru[1] = Entry(pid, pv, got.root)
      /\ got.fault = "none"
      /\ \A k \in 1..Len(pagekeys) : k < MaxCacheSize =>
            \E j \in 1..Len(got.lru) : j <= k + 1 /\ got.lru[j] = pagekeys[k]
  <2> HIDE DEF pv
  <2> QED
    BY <1>1, <1>5, <1>6, <1>7, GotPage
<1> HIDE DEF got
<1>9. /\ start.lru = got.lru /\ start.fault = got.fault /\ start.root = got.root
      /\ start.items = items[pid] /\ start.bases = bases[pid]
  OBVIOUS
<1> HIDE DEF start
<1>10. IsSeq(items[pid]) /\ Len(items[pid]) \in Nat
  BY SeqFacts DEF StoreOk, PageStored, ItemsFit
<1>11. LoopOk(w[0], pid) /\ NewNibbles(pid, w[0].items) = {}
  <2>1. \A i \in 1..Len(got.lru) :
            got.lru[i].version = 0 => got.lru[i].pid = pid /\ PageVersion(pid) = 0
    BY <1>6, <1>8
  <2>2. PageIs(got.root, pid, items[pid], Len(items[pid]))
    BY <1>5, <1>8 DEF PageAt
  <2>3. PageStored(pid, items[pid], bases[pid])
    BY DEF StoreOk
  <2>4. (Len(items[pid]) + 1)..Len(items[pid]) = {}
    BY <1>10
  <2>5. LoopOk(start, pid)
    BY <1>8, <1>9, <1>10, <2>1, <2>2, <2>3, <2>4 DEF LoopOk
  <2>6. NewNibbles(pid, items[pid]) = {}
    BY <2>4 DEF NewNibbles
  <2> QED
    BY <1>4, <1>9, <2>5, <2>6
<1> HIDE DEF order, N, S, pv
<1> DEFINE T == {n \in 0..N : /\ LoopOk(w[n], pid)
                              /\ NewNibbles(pid, w[n].items) = {order[i] : i \in 1..n}}
<1>12. 0 \in T
  <2>1. {order[i] : i \in 1..0} = {}
    OBVIOUS
  <2> QED
    BY <1>3, <1>11, <2>1
<1>13. ASSUME NEW n \in 0..N, n \in T, n < N
       PROVE  /\ n + 1 \in T
              /\ order[n + 1] \in S /\ w[n + 1] = Step(w[n], pid, order[n + 1])
              /\ \A l \in Nat :
                    (d = 2 => AmongFirst(w[n].lru, l, pid \o order[n + 1], current_version)) =>
                       /\ w[n].fault = "none" => w[n + 1].fault = "none"
                       /\ \A q, v : AmongFirst(w[n].lru, l, q, v) => AmongFirst(w[n + 1].lru, l, q, v)
  <2> DEFINE m == order[n + 1]
             before == w[n]
  <2>1. n + 1 \in 1..N /\ (n + 1) - 1 = n /\ n + 1 \in 0..N
    BY <1>3, <1>13
  <2>2. m \in S /\ m \in Paths(d) /\ (d = 2 => pid \o m \in Pid)
    BY <1>2, <1>3, <2>1
  <2>3. w[n + 1] = Step(before, pid, m)
    BY <1>4, <2>1
  <2>4. LoopOk(before, pid)
    BY <1>13
  <2> HIDE DEF before, m
  <2>5. /\ LoopOk(Step(before, pid, m), pid)
        /\ NewNibbles(pid, Step(before, pid, m).items) = NewNibbles(pid, before.items) \cup {m}
        /\ \A l \in Nat :
              (d = 2 => AmongFirst(before.lru, l, pid \o m, current_version)) =>
                 /\ before.fault = "none" => Step(before, pid, m).fault = "none"
                 /\ \A q, v : AmongFirst(before.lru, l, q, v)
                                 => AmongFirst(Step(before, pid, m).lru, l, q, v)
    BY <2>2, <2>4, StepDone
  <2>6. {order[i] : i \in 1..(n + 1)} = {order[i] : i \in 1..n} \cup {m}
    <3>1. 1..(n + 1) = 1..n \cup {n + 1}
      BY <2>1
    <3> QED
      BY <3>1 DEF m
  <2>7. NewNibbles(pid, before.items) = {order[i] : i \in 1..n}
    BY <1>13 DEF before
  <2>8. n + 1 \in T
    BY <2>1, <2>3, <2>5, <2>6, <2>7
  <2> HIDE DEF T
  <2> QED
    BY <2>2, <2>3, <2>5, <2>8 DEF before, m
<1>14. N \in T
  <2>1. \A n \in 0..N : n \in T /\ n < N => n + 1 \in T
    BY <1>13
  <2> HIDE DEF T
  <2> QED
    BY <1>3, <1>12, <2>1, CountUp
<1>15. {order[i] : i \in 1..N} = S
  BY <1>3
<1>16. ASSUME NEW n \in Nat, n < MaxCacheSize,
              d = 2 => \A m \in S : AmongFirst(pagekeys, n, pid \o m, current_version)
       PROVE  /\ w[N].fault = "none"
              /\ AmongFirst(w[N].lru, n + 1, pid, pv)
              /\ \A q, v : AmongFirst(pagekeys, n, q, v) => AmongFirst(w[N].lru, n + 1, q, v)
  <2> DEFINE Kept(l) ==
                 /\ w[l].fault = "none"
                 /\ AmongFirst(w[l].lru, n + 1, pid, pv)
                 /\ \A q, v : AmongFirst(pagekeys, n, q, v) => AmongFirst(w[l].lru, n + 1, q, v)
             U == {l \in T : Kept(l)}
  <2>1. ASSUME NEW q, NEW v, AmongFirst(pagekeys, n, q, v) PROVE AmongFirst(got.lru, n + 1, q, v)
    <3>1. PICK k \in 1..Len(pagekeys) : k <= n /\ pagekeys[k].pid = q /\ pagekeys[k].version = v
      BY <2>1 DEF AmongFirst
    <3>2. k < MaxCacheSize /\ k + 1 <= n + 1
      BY <1>16, <3>1, CacheAssumption
    <3>3. PICK j \in 1..Len(got.lru) : j <= k + 1 /\ got.lru[j] = pagekeys[k]
      BY <1>8, <3>2
    <3>4. j <= n + 1
      <4>1. j \in Int /\ k \in Int
        OBVIOUS
      <4> QED
        BY <3>2, <3>3, <4>1
    <3> QED
      BY <3>1, <3>3, <3>4 DEF AmongFirst
  <2>2. AmongFirst(got.lru, n + 1, pid, pv)
    <3>1. 1 <= n + 1
      OBVIOUS
    <3> QED
      BY <1>8, <3>1 DEF AmongFirst, Entry
  <2>3. Kept(0)
    BY <1>4, <1>8, <1>9, <2>1, <2>2
  <2>4. 0 \in U
    BY <1>12, <2>3
  <2>5. ASSUME NEW l \in 0..N, l \in U, l < N PROVE l + 1 \in U
    <3>1. l \in T /\ Kept(l) /\ n + 1 \in Nat
      BY <2>5
    <3>2. /\ l + 1 \in T /\ order[l + 1] \in S
          /\ (d = 2 => AmongFirst(w[l].lru, n + 1, pid \o order[l + 1], current_version)) =>
                /\ w[l].fault = "none" => w[l + 1].fault = "none"
                /\ \A q, v : AmongFirst(w[l].lru, n + 1, q, v) => AmongFirst(w[l + 1].lru, n + 1, q, v)
      BY <1>13, <2>5, <3>1
    <3>3. d = 2 => AmongFirst(w[l].lru, n + 1, pid \o order[l + 1], current_version)
      BY <1>16, <3>1, <3>2
    <3>4. Kept(l + 1)
      BY <3>1, <3>2, <3>3
    <3> QED
      BY <3>2, <3>4
  <2> HIDE DEF U, T
  <2>6. N \in U
    BY <1>3, <2>4, <2>5, CountUp
  <2> QED
    BY <2>6 DEF U
<1>17. LoopOk(w[N], pid) /\ NewNibbles(pid, w[N].items) = S
  BY <1>14, <1>15
<1>18. ASSUME BeneathReady(pid, S), Hashed(pid, items[pid])
       PROVE  Hashed(pid, w[N].items)
  <2> DEFINE U == {l \in T : Hashed(pid, w[l].items)}
  <2>1. 0 \in U
    BY <1>4, <1>9, <1>12, <1>18
  <2>2. ASSUME NEW l \in 0..N, l \in U, l < N PROVE l + 1 \in U
    <3> DEFINE m == order[l + 1]
               before == w[l]
    <3>1. /\ l \in T /\ l + 1 \in T /\ m \in S /\ w[l + 1] = Step(before, pid, m)
          /\ LoopOk(before, pid) /\ Hashed(pid, before.items)
      BY <1>13, <2>2
    <3> HIDE DEF m, before, T
    <3>2. /\ m \in Paths(d) /\ (d = 2 => pid \o m \in Pid)
          /\ Unwritten
          /\ d = 2 => Exactly(pid \o m, current_version)
          /\ d # 2 => put_cache[pid \o m] = value_store[current_version][pid \o m]
      BY <1>2, <1>18, <3>1 DEF BeneathReady
    <3>3. Hashed(pid, Step(before, pid, m).items)
      BY <3>1, <3>2, StepHashed
    <3> QED
      BY <3>1, <3>3
  <2> HIDE DEF U, T
  <2>3. N \in U
    BY <1>3, <2>1, <2>2, CountUp
  <2> QED
    BY <2>3 DEF U
<1> QED
  BY <1>4, <1>16, <1>17, <1>18 DEF S, pv

-----------------------------------------------------------------------------
(* The store has what was written *)

\* A key below the path was written at this version.
Wrote(path, v) == \E k \in DOMAIN value_store[v] : StartsWith(k, path)

\* The last version up to v that wrote below the path, 0 if none did.
IsLast(w, path, v) ==
    /\ w \in 0..v
    /\ w # 0 => Wrote(path, w)
    /\ \A x \in (w + 1)..v : ~Wrote(path, x)

HasGroup(pid, s, m, v) ==
    \E i \in 1..Len(s) : Whole(pid, i) /\ NibblesAt(pid, s, i) = m /\ s[i].version = v

\* The items of a page are about the nibbles written below it, version by
\* version; the pages that a commit still has to update lack its own.
Written ==
    \A pid \in Pid : \A m \in Paths(Depth(pid)), v \in 1..current_version :
        HasGroup(pid, items[pid], m, v)
            <=> (pid \notin todo \/ v < current_version) /\ Wrote(pid \o m, v)

Basics ==
    /\ current_version \in 0..LastVersion
    /\ DOMAIN put_cache \subseteq Key
    /\ todo \subseteq Pid
    /\ reads \in 0..LastRead
    /\ value_store = [v \in Version |-> value_store[v]]
    /\ \A v \in Version : DOMAIN value_store[v] \subseteq Key
    /\ \A v \in 1..current_version : DOMAIN value_store[v] # {}

CommitOk ==
    todo # {} => /\ current_version # 0
                 /\ put_cache = value_store[current_version]
                 /\ \A pid \in todo : Wrote(pid, current_version)

\* The inductive invariant.
IInv == Basics /\ StoreOk /\ Written /\ CommitOk /\ CacheInv

LEMMA VersionFacts ==
    ASSUME Basics
    PROVE  /\ current_version \in Nat /\ LastVersion \in Nat
           /\ \A v \in 1..current_version : v \in Version /\ v \in Nat \ {0}
           /\ \A v \in 1..current_version : DOMAIN value_store[v] \subseteq Key
           /\ \A v \in 1..current_version : DOMAIN value_store[v] # {}
BY BoundAssumption DEF Basics, Version

\* Below a page was written what was written below some of its nibbles.
LEMMA WroteBelow ==
    ASSUME Basics, NEW pid \in Pid, NEW v \in 1..current_version
    PROVE  /\ Wrote(pid, v) => \E m \in Paths(Depth(pid)) : Wrote(pid \o m, v)
           /\ \A m \in Paths(Depth(pid)) : Wrote(pid \o m, v) => Wrote(pid, v)
           /\ \A m \in Paths(Depth(pid)) :
                 Wrote(pid \o m, v) <=> m \in NibblesIn(pid, DOMAIN value_store[v])
<1>1. DOMAIN value_store[v] \subseteq Key
  BY VersionFacts
<1>2. \A k \in DOMAIN value_store[v] :
          /\ StartsWith(k, pid) <=> pid \in PagesOf(k)
          /\ \A m \in Paths(Depth(pid)) :
                StartsWith(k, pid \o m) <=> pid \in PagesOf(k) /\ NibblesAfter(pid, k) = m
          /\ pid \in PagesOf(k) => NibblesAfter(pid, k) \in Paths(Depth(pid))
  <2> TAKE k \in DOMAIN value_store[v]
  <2>1. k \in Key
    BY <1>1
  <2>2. pid \in PagesOf(k) => NibblesAfter(pid, k) \in Paths(Depth(pid))
    BY <2>1, NextPage
  <2> QED
    BY <2>1, <2>2, StartsWithPage, StartsBelow
<1> QED
  BY <1>2 DEF Wrote, NibblesIn

\* Two keys of which one begins with the other are the same.
LEMMA KeysApart ==
    ASSUME NEW k \in Key, NEW key \in Key
    PROVE  StartsWith(k, key) <=> k = key
<1>1. /\ k \in Seq(Nibble) /\ Len(k) \in Nat
      /\ key \in Seq(Nibble) /\ Len(key) \in Nat
  BY KeyFacts
<1>2. k = key => StartsWith(k, key)
  BY <1>1 DEF StartsWith
<1>3. ASSUME StartsWith(k, key) PROVE k = key
  <2> DEFINE n == Len(key) \div 2
             pid == Upto(key, 2 * n)
  <2>1. n \in Nat /\ 2 * n <= Len(key) /\ 2 * n + 2 > Len(key)
    BY <1>1
  <2>2. /\ pid \in PagesOf(key) /\ pid \in Pid /\ Len(pid) = 2 * n
        /\ Depth(pid) = Len(key) - 2 * n
    <3> HIDE DEF n
    <3> QED
      BY <2>1, PageNumbered
  <2> HIDE DEF n
  <2>3. StartsWith(key, pid)
    BY <2>2, StartsWithPage
  <2> HIDE DEF pid
  <2>4. StartsWith(k, pid)
    BY <1>1, <1>3, <2>1, <2>2, <2>3 DEF StartsWith
  <2>5. pid \in PagesOf(k)
    BY <2>2, <2>4, StartsWithPage
  <2>6. Depth(pid) = DepthFor(pid, k)
    BY <2>2, <2>5, PidFacts
  <2>7. Len(k) = Len(key)
    BY <1>1, <2>1, <2>2, <2>6 DEF DepthFor
  <2>8. \A i \in 1..Len(key) : k[i] = key[i]
    BY <1>3 DEF StartsWith
  <2> QED
    BY <1>1, <2>7, <2>8, SeqEqual
<1> QED
  BY <1>2, <1>3

LEMMA WroteKey ==
    ASSUME Basics, NEW key \in Key, NEW v \in 1..current_version
    PROVE  Wrote(key, v) <=> key \in DOMAIN value_store[v]
<1>1. DOMAIN value_store[v] \subseteq Key
  BY VersionFacts
<1>2. \A k \in DOMAIN value_store[v] : StartsWith(k, key) <=> k = key
  BY <1>1, KeysApart
<1> QED
  BY <1>2 DEF Wrote

-----------------------------------------------------------------------------
(* Going down from the root page of a version *)

LEMMA LastWritten ==
    ASSUME NEW path, NEW v \in Nat
    PROVE  /\ \E w \in 0..v : IsLast(w, path, v)
           /\ \A w, x : IsLast(w, path, v) /\ IsLast(x, path, v) => w = x
<1>1. \E w \in 0..v : IsLast(w, path, v)
  <2> DEFINE T == {w \in 0..v : w = 0 \/ Wrote(path, w)}
  <2>1. T \in SUBSET (0..v) /\ T # {}
    <3>1. 0 \in T
      OBVIOUS
    <3> QED
      BY <3>1
  <2>2. PICK w \in T : \A y \in T : y <= w
    <3> HIDE DEF T
    <3> QED
      BY <2>1, GreatestElement
  <2>3. \A x \in (w + 1)..v : ~Wrote(path, x)
    <3> TAKE x \in (w + 1)..v
    <3>1. w \in Nat /\ x \in 0..v /\ x > w
      BY <2>2
    <3>2. x \notin T
      BY <2>2, <3>1
    <3> QED
      BY <3>1, <3>2
  <2> QED
    BY <2>2, <2>3 DEF IsLast
<1>2. ASSUME NEW w, NEW x, IsLast(w, path, v), IsLast(x, path, v) PROVE w = x
  <2>1. /\ w \in 0..v /\ x \in 0..v
        /\ w # 0 => Wrote(path, w)
        /\ x # 0 => Wrote(path, x)
        /\ \A y \in (w + 1)..v : ~Wrote(path, y)
        /\ \A y \in (x + 1)..v : ~Wrote(path, y)
    BY <1>2 DEF IsLast
  <2>2. w < x => x \in (w + 1)..v /\ x # 0
    BY <2>1
  <2>3. x < w => w \in (x + 1)..v /\ w # 0
    BY <2>1
  <2> QED
    BY <2>1, <2>2, <2>3
<1> QED
  BY <1>1, <1>2

\* Where a page has items of a version, it is at that version.
LEMMA GroupHere ==
    ASSUME StoreOk, current_version \in Nat, NEW pid \in Pid, NEW v \in Nat,
           NEW i \in 1..Len(items[pid]), items[pid][i].version = v
    PROVE  Exactly(pid, v) /\ i <= UpdatesUpTo(pid, v)
<1> DEFINE s == items[pid]
           n == UpdatesUpTo(pid, v)
<1>1. /\ n \in 0..Len(s) /\ \A j \in 1..Len(s) : s[j].version <= v <=> j <= n
      /\ Len(s) \in Nat
  BY UpToFacts
<1>2. /\ \A j \in 1..Len(s) : s[j].version \in Nat
      /\ \A j, k \in 1..Len(s) : j <= k => s[j].version <= s[k].version
  BY DEF StoreOk, PageStored, ItemsFit
<1> HIDE DEF n
<1>3. i <= n
  BY <1>1
<1>4. n \in 1..Len(s) /\ n <= n
  BY <1>1, <1>3
<1>5. s[n].version <= v /\ v <= s[n].version /\ s[n].version \in Nat
  BY <1>1, <1>2, <1>3, <1>4
<1>6. VersionAt(s, n) = v
  BY <1>4, <1>5 DEF VersionAt
<1> QED
  BY <1>3, <1>6 DEF n, Exactly

\* A page is at every version that wrote below it, once a commit has updated it.
LEMMA PageThere ==
    ASSUME Basics, StoreOk, Written,
           NEW pid \in Pid, pid \notin todo, NEW v \in 1..current_version, Wrote(pid, v)
    PROVE  Exactly(pid, v)
<1>1. PICK m \in Paths(Depth(pid)) : Wrote(pid \o m, v)
  BY WroteBelow
<1>2. HasGroup(pid, items[pid], m, v)
  BY <1>1 DEF Written
<1>3. current_version \in Nat /\ v \in Nat
  BY VersionFacts
<1> QED
  BY <1>2, <1>3, GroupHere DEF HasGroup

\* The last item of a page that is about some nibbles has the last version that
\* wrote below them.
LEMMA GroupIsLast ==
    ASSUME Basics, StoreOk, Written, todo = {},
           NEW pid \in Pid, NEW m \in Paths(Depth(pid)),
           NEW u \in 1..current_version, NEW w \in 1..u, IsLast(w, pid, u)
    PROVE  LET n == UpdatesUpTo(pid, w)
           IN  \E j \in 0..n : /\ LastGroup(pid, items[pid], j, n, m)
                              /\ IsLast(VersionAt(items[pid], j), pid \o m, u)
<1> DEFINE s == items[pid]
           n == UpdatesUpTo(pid, w)
           path == pid \o m
<1>1. current_version \in Nat /\ u \in Nat /\ w \in Nat /\ w <= u /\ w <= current_version
  BY VersionFacts
<1>2. /\ n \in 0..Len(s) /\ n \in Nat /\ Len(s) \in Nat
      /\ \A i \in 1..Len(s) : s[i].version <= w <=> i <= n
  <2>1. /\ n \in 0..Len(s) /\ Len(s) \in Nat
        /\ \A i \in 1..Len(s) : s[i].version <= w <=> i <= n
    BY <1>1, UpToFacts
  <2> HIDE DEF n
  <2> QED
    BY <2>1
<1>3. /\ \A i \in 1..Len(s) : s[i].version \in Nat \ {0}
      /\ \A i, j \in 1..Len(s) : i <= j => s[i].version <= s[j].version
  BY DEF StoreOk, PageStored, ItemsFit
<1>4. \A v \in 1..current_version : HasGroup(pid, s, m, v) <=> Wrote(path, v)
  BY DEF Written
<1>5. \A y \in 1..u : Wrote(path, y) => y <= w
  <2> SUFFICES ASSUME NEW y \in 1..u, Wrote(path, y) PROVE y <= w
    OBVIOUS
  <2>1. y \in 1..current_version
    BY <1>1
  <2>2. Wrote(pid, y)
    BY <2>1, WroteBelow
  <2>3. y \notin (w + 1)..u
    BY <2>2 DEF IsLast
  <2> QED
    BY <1>1, <2>3
<1> HIDE DEF n, path
<1>6. PICK j \in 0..n : LastGroup(pid, s, j, n, m)
  <2> DEFINE T == {i \in 0..n : i = 0 \/ (Whole(pid, i) /\ NibblesAt(pid, s, i) = m)}
  <2>1. T \in SUBSET (0..n) /\ T # {}
    <3>1. 0 \in T
      BY <1>2
    <3> QED
      BY <3>1
  <2>2. PICK j \in T : \A y \in T : y <= j
    <3> HIDE DEF T
    <3> QED
      BY <1>2, <2>1, GreatestElement
  <2>3. \A i \in (j + 1)..n : Whole(pid, i) => NibblesAt(pid, s, i) # m
    <3> TAKE i \in (j + 1)..n
    <3>1. j \in Nat /\ i \in 0..n /\ i > j
      BY <1>2, <2>2
    <3>2. i \notin T
      BY <2>2, <3>1
    <3> QED
      BY <3>1, <3>2
  <2> QED
    BY <2>2, <2>3 DEF LastGroup
<1> DEFINE x == VersionAt(s, j)
<1>7. x \in 0..w /\ (x # 0 => Wrote(path, x)) /\ (j # 0 => j \in 1..Len(s) /\ x = s[j].version)
  <2>1. CASE j = 0
    BY <1>1, <2>1 DEF VersionAt
  <2>2. CASE j # 0
    <3>1. j \in 1..Len(s) /\ j <= n /\ x = s[j].version
      BY <1>2, <2>2 DEF VersionAt
    <3>2. x \in 1..w /\ x \in 1..current_version
      BY <1>1, <1>2, <1>3, <3>1
    <3>3. HasGroup(pid, s, m, x)
      BY <1>6, <2>2, <3>1 DEF LastGroup, HasGroup
    <3> QED
      BY <1>4, <3>1, <3>2, <3>3
  <2> QED
    BY <2>1, <2>2
<1>8. \A y \in (x + 1)..u : ~Wrote(path, y)
  <2> SUFFICES ASSUME NEW y \in (x + 1)..u, Wrote(path, y) PROVE FALSE
    OBVIOUS
  <2>1. y \in 1..u /\ y \in 1..current_version /\ y > x
    BY <1>1, <1>7
  <2>2. PICK i \in 1..Len(s) : Whole(pid, i) /\ NibblesAt(pid, s, i) = m /\ s[i].version = y
    BY <1>4, <2>1 DEF HasGroup
  <2>3. i <= n
    BY <1>2, <1>5, <2>1, <2>2
  <2>4. i \notin (j + 1)..n
    BY <1>6, <2>2 DEF LastGroup
  <2>5. i <= j /\ j # 0 /\ i \in Nat /\ j \in Nat
    BY <1>2, <2>3, <2>4
  <2>6. y <= x
    BY <1>3, <1>7, <2>2, <2>5
  <2> QED
    BY <1>1, <1>7, <2>1, <2>6
<1>9. IsLast(x, path, u)
  <2>1. x \in 0..u
    BY <1>1, <1>7
  <2> QED
    BY <1>7, <1>8, <2>1 DEF IsLast
<1> QED
  BY <1>6, <1>9 DEF path, n

\* What the page says of some nibbles is the last version that wrote below them.
LEMMA LinkIsLast ==
    ASSUME Basics, StoreOk, Written, todo = {},
           NEW pid \in Pid, NEW m \in Paths(Depth(pid)),
           NEW u \in 1..current_version, NEW w \in 1..u, IsLast(w, pid, u),
           NEW root, PageAt(root, pid, w)
    PROVE  \E x : IsLast(x, pid \o m, u) /\ Links(root, m, x, pid \o m)
<1> DEFINE n == UpdatesUpTo(pid, w)
<1>1. PICK j \in 0..n : /\ LastGroup(pid, items[pid], j, n, m)
                        /\ IsLast(VersionAt(items[pid], j), pid \o m, u)
  BY GroupIsLast
<1>2. Links(root, m, VersionAt(items[pid], j), pid \o m)
  BY <1>1 DEF PageAt, PageIs, Mirrors
<1> QED
  BY <1>1, <1>2

\* No entry of a page from before its first update.
Updated(lru) == \A i \in 1..Len(lru) : lru[i].version # 0

\* Going down to a key at version u, after n of its pages.
Walking(path, key, n, u) ==
    /\ path = [lru |-> path.lru, fault |-> path.fault, version |-> path.version,
               lost |-> path.lost, leaf |-> path.leaf, proofs |-> path.proofs]
    /\ path.lost \in BOOLEAN
    /\ CacheOk(path.lru)
    /\ path.lost => ~Put(u, key)
    /\ ~path.lost /\ 2 * n <= Len(key) => IsLast(path.version, Upto(key, 2 * n), u)
    /\ ~path.lost /\ 2 * n > Len(key) =>
          \E x \in 1..u : /\ IsLast(x, key, u)
                          /\ path.leaf.location = [version |-> x, key |-> key]
    /\ Put(u, key) => Updated(path.lru) /\ path.fault = "none"

\* What was never written below a part of the key was not written for the key.
LEMMA NeverPut ==
    ASSUME NEW key \in Key, NEW path, StartsWith(key, path), NEW u, IsLast(0, path, u)
    PROVE  ~Put(u, key)
BY DEF Put, IsLast, Wrote

\* The last page of the way: the leaf has the location of the value.
\* What a page with this link leads to.
LeadsTo(root, m, x, path, d, i, child) ==
    /\ d = 0 => root.is_leaf /\ x # 0 /\ root.location = [version |-> x, key |-> path]
    /\ d # 0 => ~root.is_leaf /\ (~HasChild(root, i) => x = 0)
    /\ d = 1 /\ HasChild(root, i) =>
          child.is_leaf /\ x # 0 /\ child.location = [version |-> x, key |-> path]
    /\ d = 2 /\ HasChild(root, i) => ~child.is_leaf /\ child.children[m[2]].version = x

LEMMA LeafFound ==
    ASSUME NEW pid \in Pid, NEW root, NEW m \in Paths(Depth(pid)), NEW x, NEW path,
           PageShape(root, Depth(pid)), root # NoNode, Links(root, m, x, path),
           NEW i, i = m[1], NEW child, child = root.children[i].node
    PROVE  LeadsTo(root, m, x, path, Depth(pid), i, child)
<1>1. /\ Depth(pid) \in 0..2 /\ Len(m) = Depth(pid)
      /\ \A n \in 1..Depth(pid) : m[n] \in Nibble
  BY PidFacts, PathsAreSequences
<1>2. ASSUME Depth(pid) = 0
      PROVE  root.is_leaf /\ x # 0 /\ root.location = [version |-> x, key |-> path]
  <2>1. LeafNode(root) /\ LeafLinks(root, x, path)
    BY <1>1, <1>2 DEF PageShape, PageRoot, Links
  <2> QED
    BY <2>1 DEF LeafNode, LeafLinks
<1>3. Depth(pid) # 0 => i \in Nibble /\ ~root.is_leaf /\ SecondLevel(root, Depth(pid))
  <2> SUFFICES ASSUME Depth(pid) # 0
               PROVE  i \in Nibble /\ ~root.is_leaf /\ SecondLevel(root, Depth(pid))
    OBVIOUS
  <2>1. i \in Nibble
    BY <1>1
  <2>2. IndexNode(root) /\ SecondLevel(root, Depth(pid))
    BY DEF PageShape, PageRoot
  <2> QED
    BY <2>1, <2>2 DEF IndexNode
<1>4. Depth(pid) # 0 /\ ~HasChild(root, i) => x = 0
  BY <1>1 DEF Links
<1>5. ASSUME HasChild(root, i), Depth(pid) = 1
      PROVE  child.is_leaf /\ x # 0 /\ child.location = [version |-> x, key |-> path]
  <2>1. LeafNode(child)
    BY <1>3, <1>5 DEF SecondLevel
  <2>2. LeafLinks(child, x, path)
    BY <1>1, <1>5 DEF Links
  <2> QED
    BY <2>1, <2>2 DEF LeafNode, LeafLinks
<1>6. ASSUME HasChild(root, i), Depth(pid) = 2
      PROVE  ~child.is_leaf /\ child.children[m[2]].version = x
  <2>1. IndexNode(child)
    BY <1>3, <1>6 DEF SecondLevel
  <2>2. child.children[m[2]].version = x
    BY <1>1, <1>6 DEF Links
  <2> QED
    BY <2>1, <2>2 DEF IndexNode
<1> QED
  BY <1>2, <1>3, <1>4, <1>5, <1>6 DEF LeadsTo

LEMMA WalkedOn ==
    ASSUME NEW lru, NEW fault_so_far, NEW version, NEW lost \in BOOLEAN, NEW leaf, NEW proofs,
           NEW path, path = [lru |-> lru, fault |-> fault_so_far, version |-> version,
                             lost |-> lost, leaf |-> leaf, proofs |-> proofs],
           NEW key, NEW n, NEW u, CacheOk(lru),
           lost => ~Put(u, key),
           ~lost /\ 2 * n <= Len(key) => IsLast(version, Upto(key, 2 * n), u),
           ~lost /\ 2 * n > Len(key) =>
              \E x \in 1..u : IsLast(x, key, u) /\ leaf.location = [version |-> x, key |-> key],
           Put(u, key) => Updated(lru) /\ fault_so_far = "none"
    PROVE  Walking(path, key, n, u)
<1>1. /\ path.lru = lru /\ path.fault = fault_so_far /\ path.version = version
      /\ path.lost = lost /\ path.leaf = leaf /\ path.proofs = proofs
  OBVIOUS
<1> QED
  BY <1>1 DEF Walking

\* One page of the way, when there is such a page.
LEMMA BelowDone ==
    ASSUME NEW key \in Key, NEW n \in Nat, 2 * n <= Len(key), NEW u \in Nat,
           NEW pid, pid = Upto(key, 2 * n),
           NEW path, Walking(path, key, n, u), ~path.lost,
           NEW root, PageShape(root, Depth(pid)), root # NoNode,
           NEW x, NEW m, m = NibblesAfter(pid, key),
           IsLast(x, pid \o m, u), Links(root, m, x, pid \o m)
    PROVE  Walking(Below(path, key, pid, root), key, n + 1, u)
<1> DEFINE d == Depth(pid)
           new == Below(path, key, pid, root)
           l == path.lru
           f == path.fault
           v == path.version
           lf == path.leaf
           pf == path.proofs
           i == key[Len(pid) + 1]
           j == key[Len(pid) + 2]
           child == root.children[i].node
           one == Append(pf, NodeProof(Len(pid), root, i))
           two == pf \o <<NodeProof(Len(pid), root, i), NodeProof(Len(pid) + 1, child, j)>>
<1>1. /\ pid \in PagesOf(key) /\ pid \in Pid /\ Len(pid) = 2 * n
      /\ 2 * n + 2 <= Len(key) =>
            /\ d = 2 /\ Upto(key, 2 * (n + 1)) = pid \o m
      /\ 2 * n + 2 > Len(key) => d = Len(key) - 2 * n
  BY PageNumbered
<1>2. /\ Len(key) \in Nat /\ d \in 0..2 /\ d = DepthFor(pid, key)
  BY <1>1, KeyFacts, PidFacts
<1>3. /\ m \in Paths(d) /\ Len(m) = d
      /\ \A c \in 1..d : m[c] = key[Len(pid) + c]
      /\ d # 2 => pid \o m = key
      /\ d = 2 => pid \o m \in PagesOf(key) /\ pid \o m \in Pid
  BY <1>1, <1>2, NibblesBelow, NextPage, ZenonT(60)
<1>4. d # 2 <=> 2 * (n + 1) > Len(key)
  BY <1>1, <1>2
<1>5. x = 0 => ~Put(u, key)
  <2>1. StartsWith(key, pid \o m)
    <3>1. StartsWith(key, key)
      BY KeyFacts DEF StartsWith
    <3>2. d = 2 => StartsWith(key, pid \o m)
      BY <1>3, StartsWithPage
    <3> QED
      BY <1>3, <3>1, <3>2
  <2> QED
    BY <2>1, NeverPut
<1>6. /\ d # 0 => i = m[1]
      /\ d = 2 => j = m[2]
      /\ d = 0 => root.is_leaf /\ x # 0 /\ root.location = [version |-> x, key |-> pid \o m]
      /\ d # 0 => ~root.is_leaf /\ (~HasChild(root, i) => x = 0)
      /\ d = 1 /\ HasChild(root, i) =>
            child.is_leaf /\ x # 0 /\ child.location = [version |-> x, key |-> pid \o m]
      /\ d = 2 /\ HasChild(root, i) => ~child.is_leaf /\ child.children[j].version = x
  <2> DEFINE y == pid \o m
             a == m[1]
             c == root.children[a].node
  <2>1. Links(root, m, x, y) /\ a = m[1] /\ c = root.children[a].node
    OBVIOUS
  <2> HIDE DEF y, a, c
  <2>2. /\ d = 0 => root.is_leaf /\ x # 0 /\ root.location = [version |-> x, key |-> y]
        /\ d # 0 => ~root.is_leaf /\ (~HasChild(root, a) => x = 0)
        /\ d = 1 /\ HasChild(root, a) =>
              c.is_leaf /\ x # 0 /\ c.location = [version |-> x, key |-> y]
        /\ d = 2 /\ HasChild(root, a) => ~c.is_leaf /\ c.children[m[2]].version = x
    <3>1. LeadsTo(root, m, x, y, d, a, c)
      BY <1>1, <1>3, <2>1, LeafFound
    <3> QED
      BY <3>1 DEF LeadsTo
  <2>3. (d # 0 => i = m[1]) /\ (d = 2 => j = m[2])
    BY <1>2, <1>3
  <2>4. d # 0 => i = a /\ child = c
    BY <2>3 DEF a, c
  <2> HIDE DEF i, j, child
  <2> QED
    BY <1>2, <2>2, <2>3, <2>4 DEF y
<1>7. new = IF root.is_leaf THEN [path EXCEPT !.leaf = root]
             ELSE IF ~HasChild(root, i) THEN [path EXCEPT !.lost = TRUE]
             ELSE IF child.is_leaf THEN [path EXCEPT !.leaf = child, !.proofs = one]
             ELSE [path EXCEPT !.version = child.children[j].version, !.proofs = two]
  BY DEF Below
<1> SUFFICES Walking(new, key, n + 1, u)
  OBVIOUS
<1> HIDE DEF new, i, j, child, one, two
<1>8. /\ path = [lru |-> l, fault |-> f, version |-> v,
                 lost |-> FALSE, leaf |-> lf, proofs |-> pf]
      /\ path.lost = FALSE /\ CacheOk(l)
      /\ Put(u, key) => Updated(l) /\ f = "none"
  BY DEF Walking
<1> HIDE DEF l, f, v, lf, pf
<1>9. x \in 0..u /\ (x # 0 => x \in 1..u)
  BY DEF IsLast
<1>10. d # 2 => IsLast(x, key, u)
  BY <1>3
<1>11. CASE d = 0
  <2>1. /\ new = [lru |-> l, fault |-> f, version |-> v,
                  lost |-> FALSE, leaf |-> root, proofs |-> pf]
    BY <1>6, <1>8, <1>11, <1>7
  <2>2. x \in 1..u /\ IsLast(x, key, u) /\ root.location = [version |-> x, key |-> key]
    <3>1. root.location = [version |-> x, key |-> pid \o m] /\ pid \o m = key /\ x # 0
      BY <1>3, <1>6, <1>11
    <3> QED
      BY <1>9, <1>11, <1>10, <3>1
  <2>3. ~(2 * (n + 1) <= Len(key))
    BY <1>2, <1>4, <1>11
  <2> QED
    BY <1>8, <2>1, <2>2, <2>3, WalkedOn
<1>12. CASE d # 0 /\ ~HasChild(root, i)
  <2>1. /\ new = [lru |-> l, fault |-> f, version |-> v,
                  lost |-> TRUE, leaf |-> lf, proofs |-> pf]
    BY <1>6, <1>8, <1>12, <1>7
  <2>2. ~Put(u, key)
    BY <1>5, <1>6, <1>12
  <2> QED
    BY <1>8, <2>1, <2>2, WalkedOn
<1>13. CASE d = 1 /\ HasChild(root, i)
  <2>1. /\ new = [lru |-> l, fault |-> f, version |-> v,
                  lost |-> FALSE, leaf |-> child, proofs |-> one]
    BY <1>6, <1>8, <1>13, <1>7
  <2>2. x \in 1..u /\ IsLast(x, key, u) /\ child.location = [version |-> x, key |-> key]
    <3>1. child.location = [version |-> x, key |-> pid \o m] /\ pid \o m = key /\ x # 0
      BY <1>3, <1>6, <1>13
    <3> QED
      BY <1>9, <1>13, <1>10, <3>1
  <2>3. ~(2 * (n + 1) <= Len(key))
    BY <1>2, <1>4, <1>13
  <2> QED
    BY <1>8, <2>1, <2>2, <2>3, WalkedOn
<1>14. CASE d = 2 /\ HasChild(root, i)
  <2>1. new = [lru |-> l, fault |-> f, version |-> x,
               lost |-> FALSE, leaf |-> lf, proofs |-> two]
    <3>1. new = [path EXCEPT !.version = x, !.proofs = two]
      <4> DEFINE version == child.children[j].version
      <4>1. ~root.is_leaf /\ ~child.is_leaf /\ version = x
        BY <1>6, <1>14
      <4>2. new = [path EXCEPT !.version = version, !.proofs = two]
        BY <1>14, <1>7, <4>1
      <4> HIDE DEF version
      <4> QED
        BY <4>1, <4>2
    <3> QED
      BY <1>8, <3>1
  <2>2. 2 * n + 2 <= Len(key) /\ 2 * (n + 1) <= Len(key)
    BY <1>2, <1>4, <1>14
  <2>3. IsLast(x, Upto(key, 2 * (n + 1)), u)
    BY <1>1, <2>2
  <2>4. ~(2 * (n + 1) > Len(key))
    BY <1>2, <2>2
  <2> QED
    BY <1>8, <2>1, <2>3, <2>4, WalkedOn
<1>15. d = 0 \/ d = 1 \/ d = 2
  BY <1>2
<1> QED
  BY <1>11, <1>12, <1>13, <1>14, <1>15 DEF new

LEMMA VisitDone ==
    ASSUME Markers, Basics, StoreOk, Written, todo = {},
           NEW key \in Key, NEW n \in Nat, 2 * n <= Len(key), NEW u \in 1..current_version,
           NEW path, Walking(path, key, n, u)
    PROVE  Walking(Visit(path, key, Upto(key, 2 * n)), key, n + 1, u)
<1> DEFINE pid == Upto(key, 2 * n)
           w == path.version
           got == GetPage(path.lru, pid, w)
           kept == [path EXCEPT !.lru = got.lru, !.fault = Worse(@, got.fault)]
           new == Visit(path, key, pid)
<1>1. CASE path.lost
  <2>1. new = path
    BY <1>1 DEF Visit
  <2> HIDE DEF new
  <2>2. Walking(path, key, n + 1, u)
    BY <1>1 DEF Walking
  <2> QED
    BY <2>1, <2>2 DEF new
<1>2. CASE ~path.lost
  <2>1. /\ pid \in PagesOf(key) /\ pid \in Pid
        /\ Len(key) \in Nat /\ current_version \in Nat /\ u \in Nat
    BY PageNumbered, KeyFacts, VersionFacts
  <2>2. /\ path = [lru |-> path.lru, fault |-> path.fault, version |-> path.version,
                   lost |-> path.lost, leaf |-> path.leaf, proofs |-> path.proofs]
        /\ path.lost = FALSE /\ CacheOk(path.lru)
        /\ Put(u, key) => Updated(path.lru) /\ path.fault = "none"
        /\ IsLast(w, pid, u)
    BY <1>2 DEF Walking
  <2>3. w \in 0..u /\ w \in Nat /\ (w # 0 => Wrote(pid, w))
    BY <2>1, <2>2 DEF IsLast
  <2>4. w = 0 => ~Put(u, key)
    BY <2>1, <2>2, StartsWithPage, NeverPut
  <2> DEFINE lru == path.lru
  <2>5. /\ CacheOk(got.lru)
        /\ \A j \in 1..Len(got.lru) :
              \/ \E k \in 1..Len(lru) : got.lru[j] = lru[k]
              \/ got.lru[j].pid = pid /\ got.lru[j].version = w
        /\ got.root # NoPage <=> Exactly(pid, w)
        /\ got.root # NoPage => PageAt(got.root, pid, w)
        /\ (\A k \in 1..Len(lru) : lru[k].root # NoNode) => got.fault = "none"
    <3> HIDE DEF pid, w, lru
    <3>1. CacheOk(lru)
      BY <2>2 DEF lru
    <3> QED
      BY <2>1, <2>3, <3>1, GotPage, SMTT(30) DEF lru
  <2>6. Updated(lru) => got.fault = "none"
    <3> SUFFICES ASSUME Updated(lru), NEW k \in 1..Len(lru) PROVE lru[k].root # NoNode
      BY <2>5
    <3>1. EntryOk(lru[k]) /\ lru[k].version # 0
      BY <2>2 DEF CacheOk, Updated
    <3> HIDE DEF lru
    <3> QED
      BY <2>1, <3>1, EntryFacts
  <2>7. Put(u, key) => Updated(got.lru) /\ Worse(path.fault, got.fault) = "none"
    <3>1. Put(u, key) => Updated(lru) /\ path.fault = "none" /\ w # 0
      BY <2>2, <2>4
    <3> HIDE DEF got, w, pid, lru
    <3> QED
      BY <2>5, <2>6, <3>1 DEF Updated, Worse
  <2>8. kept = [lru |-> got.lru, fault |-> Worse(path.fault, got.fault), version |-> w,
                lost |-> FALSE, leaf |-> path.leaf, proofs |-> path.proofs]
    <3> DEFINE after == got.lru
               f == Worse(path.fault, got.fault)
    <3>1. kept = [path EXCEPT !.lru = after, !.fault = f]
      OBVIOUS
    <3> HIDE DEF after, f, kept
    <3>2. kept = [lru |-> after, fault |-> f, version |-> w,
                  lost |-> FALSE, leaf |-> path.leaf, proofs |-> path.proofs]
      BY <2>2, <3>1
    <3> QED
      BY <3>2 DEF after, f
  <2>9. new = IF got.root \in {NoPage, NoNode} THEN [kept EXCEPT !.lost = TRUE]
              ELSE Below(kept, key, pid, got.root)
    BY <1>2 DEF Visit
  <2>10. w # 0 => Exactly(pid, w) /\ got.root # NoPage
    <3>1. w # 0 => w \in 1..current_version
      BY <2>1, <2>3
    <3> HIDE DEF pid, w, got
    <3> QED
      BY <2>1, <2>3, <2>5, <3>1, PageThere
  <2>11. got.root # NoPage => (got.root = NoNode <=> w = 0)
    <3> SUFFICES ASSUME got.root # NoPage PROVE got.root = NoNode <=> w = 0
      OBVIOUS
    <3>1. EntryOk(Entry(pid, w, got.root))
      <4>1. w \in 0..current_version
        BY <2>1, <2>3
      <4> HIDE DEF pid, w, got
      <4> QED
        BY <2>1, <2>5, <4>1 DEF EntryOk, Entry
    <3> HIDE DEF pid, w, got
    <3>2. Entry(pid, w, got.root).root = NoNode <=> Entry(pid, w, got.root).version = 0
      BY <2>1, <3>1, EntryFacts
    <3> QED
      BY <3>2 DEF Entry
  <2> HIDE DEF new, got, kept
  <2>12. CASE got.root \in {NoPage, NoNode}
    <3>1. ~Put(u, key)
      BY <2>4, <2>10, <2>11, <2>12
    <3>2. new = [lru |-> got.lru, fault |-> Worse(path.fault, got.fault), version |-> w,
                 lost |-> TRUE, leaf |-> path.leaf, proofs |-> path.proofs]
      BY <2>8, <2>9, <2>12
    <3>3. Walking(new, key, n + 1, u)
      BY <2>5, <3>1, <3>2 DEF Walking
    <3> QED
      BY <3>3 DEF new
  <2>13. CASE got.root \notin {NoPage, NoNode}
    <3>1. /\ new = Below(kept, key, pid, got.root)
          /\ got.root # NoNode /\ got.root # NoPage /\ w \in 1..u
      BY <2>1, <2>3, <2>9, <2>11, <2>13
    <3>2. Walking(kept, key, n, u) /\ ~kept.lost
      <4>1. ~(2 * n > Len(key))
        BY <2>1
      <4> QED
        BY <2>2, <2>5, <2>7, <2>8, <4>1 DEF Walking
    <3> DEFINE m == NibblesAfter(pid, key)
    <3>3. m \in Paths(Depth(pid))
      BY <2>1, NextPage
    <3> HIDE DEF pid, w, m
    <3>4. PICK x : IsLast(x, pid \o m, u) /\ Links(got.root, m, x, pid \o m)
      <4>1. PageAt(got.root, pid, w) /\ IsLast(w, pid, u)
        BY <2>2, <2>5, <3>1
      <4> DEFINE root == got.root
      <4>2. PageAt(root, pid, w)
        BY <4>1
      <4> HIDE DEF root
      <4>3. \E x : IsLast(x, pid \o m, u) /\ Links(root, m, x, pid \o m)
        BY <2>1, <3>1, <3>3, <4>1, <4>2, LinkIsLast
      <4> QED
        BY <4>3 DEF root
    <3>5. PageShape(got.root, Depth(pid))
      BY <2>5, <3>1 DEF PageAt, PageIs, Mirrors
    <3> DEFINE root == got.root
    <3>6. /\ pid = Upto(key, 2 * n) /\ m = NibblesAfter(pid, key)
          /\ PageShape(root, Depth(pid)) /\ root # NoNode /\ Links(root, m, x, pid \o m)
      BY <3>1, <3>4, <3>5 DEF pid, m
    <3> HIDE DEF root
    <3>7. Walking(Below(kept, key, pid, root), key, n + 1, u)
      BY <2>1, <3>2, <3>4, <3>6, BelowDone
    <3> QED
      BY <3>1, <3>7 DEF root, new, pid
  <2> QED
    BY <2>12, <2>13
<1> QED
  BY <1>1, <1>2

\* The way begins at the root page.
LEMMA WalkStarts ==
    ASSUME IInv, NEW key \in Key, NEW u \in 1..current_version
    PROVE  Walking(PathFrom(pagekeys, u), key, 0, u)
<1>1. Len(key) \in Nat
  BY KeyFacts
<1>2. /\ Basics /\ CacheOk(pagekeys) /\ Updated(pagekeys) /\ current_version \in Nat /\ u \in Nat
  BY VersionFacts DEF IInv, CacheInv, Updated
<1>3. IsLast(u, Upto(key, 2 * 0), u)
  <2>1. Upto(key, 2 * 0) = <<>>
    BY <1>1, KeyFacts, EmptySeq, Prefix
  <2>2. DOMAIN value_store[u] # {} /\ DOMAIN value_store[u] \subseteq Key
    BY <1>2, VersionFacts
  <2>3. Wrote(<<>>, u)
    BY <2>2, KeyFacts DEF Wrote, StartsWith
  <2>4. (u + 1)..u = {} /\ u \in 0..u
    BY <1>2
  <2> QED
    BY <2>1, <2>3, <2>4 DEF IsLast
<1>4. ~(2 * 0 > Len(key))
  BY <1>1
<1> QED
  BY <1>2, <1>3, <1>4 DEF Walking, PathFrom

\* The way down from the root page of a version: it ends at the location of the
\* last value of the key up to the version, or finds that there is none.
LEMMA Descended ==
    ASSUME Markers, IInv, todo = {}, NEW key \in Key, NEW u \in 1..current_version
    PROVE  LET path == Descend(pagekeys, u, key)
           IN  /\ CacheOk(path.lru)
               /\ path.lost => ~Put(u, key)
               /\ ~path.lost => \E x \in 1..u :
                     /\ IsLast(x, key, u)
                     /\ path.leaf.location = [version |-> x, key |-> key]
               /\ Put(u, key) => Updated(path.lru) /\ path.fault = "none"
<1> DEFINE N == PageCount(key)
<1>1. Len(key) \in Nat /\ N \in Nat /\ 2 * N > Len(key) /\ \A n \in 0..N : n < N => 2 * n <= Len(key)
  BY KeyFacts DEF PageCount
<1>2. PICK w : /\ w[0] = PathFrom(pagekeys, u)
               /\ \A n \in 1..PageCount(key) :
                     w[n] = Visit(w[n - 1], key, Upto(key, 2 * (n - 1)))
               /\ Descend(pagekeys, u, key) = w[PageCount(key)]
  <2>1. PageCount(key) \in Nat
    BY <1>1
  <2> QED
    BY <2>1, DescendSteps
<1> HIDE DEF N
<1>3. /\ Basics /\ StoreOk /\ Written /\ CacheOk(pagekeys) /\ Updated(pagekeys)
      /\ current_version \in Nat /\ u \in Nat
  BY VersionFacts DEF IInv, CacheInv, Updated
<1> DEFINE T == {n \in 0..N : Walking(w[n], key, n, u)}
<1>4. 0 \in T
  <2>1. Walking(PathFrom(pagekeys, u), key, 0, u)
    BY WalkStarts
  <2> QED
    BY <1>1, <1>2, <2>1
<1>5. ASSUME NEW n \in 0..N, n \in T, n < N PROVE n + 1 \in T
  <2>1. n + 1 \in 1..N /\ (n + 1) - 1 = n /\ n + 1 \in 0..N /\ 2 * n <= Len(key) /\ n \in Nat
    BY <1>1, <1>5
  <2> DEFINE before == w[n]
             pid == Upto(key, 2 * n)
  <2>2. w[n + 1] = Visit(before, key, pid)
    <3>1. w[n + 1] = Visit(w[(n + 1) - 1], key, Upto(key, 2 * ((n + 1) - 1)))
      BY <1>2, <2>1 DEF N
    <3> QED
      BY <2>1, <3>1
  <2>3. Walking(before, key, n, u)
    BY <1>5
  <2> HIDE DEF before
  <2>4. Walking(Visit(before, key, pid), key, n + 1, u)
    BY <1>3, <2>1, <2>3, VisitDone
  <2> HIDE DEF pid
  <2> QED
    BY <2>1, <2>2, <2>4
<1>6. N \in T
  <2> HIDE DEF T
  <2> QED
    BY <1>1, <1>4, <1>5, CountUp
<1> DEFINE path == w[N]
<1>7. Walking(path, key, N, u)
  BY <1>6
<1> HIDE DEF path
<1>8. /\ CacheOk(path.lru)
      /\ path.lost => ~Put(u, key)
      /\ ~path.lost => \E x \in 1..u :
            /\ IsLast(x, key, u)
            /\ path.leaf.location = [version |-> x, key |-> key]
      /\ Put(u, key) => Updated(path.lru) /\ path.fault = "none"
  BY <1>1, <1>7 DEF Walking
<1>9. path = Descend(pagekeys, u, key)
  BY <1>2 DEF path, N
<1> QED
  BY <1>8, <1>9

-----------------------------------------------------------------------------
(* The invariant, step by step *)

LEMMA NothingStored ==
    ASSUME NEW pid \in Pid
    PROVE  PageStored(pid, <<>>, <<>>)
<1>1. IsSeq(<<>>) /\ Len(<<>>) = 0
  BY DEF IsSeq
<1>2. ItemsFit(pid, <<>>)
  BY <1>1, SizeFacts DEF ItemsFit
<1>3. 0 * Tb <= 0 /\ 0 < (0 + 1) * Tb
  BY Divided
<1>4. Len(<<>>) * Tb <= Len(<<>>) /\ Len(<<>>) < (Len(<<>>) + 1) * Tb
  BY <1>1, <1>3
<1> QED
  BY <1>1, <1>2, <1>4 DEF PageStored

LEMMA InitIInv == Init => IInv
<1> SUFFICES ASSUME Init PROVE IInv
  OBVIOUS
<1>1. Basics
  BY BoundAssumption DEF Init, Basics, Version
<1>2. StoreOk
  <2>1. /\ DOMAIN items = Pid /\ items = [pid \in Pid |-> items[pid]]
        /\ DOMAIN bases = Pid /\ bases = [pid \in Pid |-> bases[pid]]
        /\ flushed \in [Pid -> Nat]
        /\ \A pid \in Pid : items[pid] = <<>> /\ bases[pid] = <<>> /\ flushed[pid] = 0
    BY DEF Init
  <2>2. \A pid \in Pid : PageStored(pid, items[pid], bases[pid]) /\ flushed[pid] \in 0..Len(items[pid])
    <3> TAKE pid \in Pid
    <3>1. PageStored(pid, <<>>, <<>>)
      BY NothingStored
    <3>2. Len(<<>>) = 0
      OBVIOUS
    <3> QED
      BY <2>1, <3>1, <3>2
  <2> QED
    BY <2>1, <2>2 DEF StoreOk
<1>3. Written
  BY DEF Init, Written
<1>4. CommitOk
  BY DEF Init, CommitOk
<1>5. CacheInv
  <2>1. pagekeys = <<>> /\ Len(pagekeys) = 0 /\ IsSeq(pagekeys)
    BY DEF Init, IsSeq
  <2>2. 0 <= MaxCacheSize
    BY CacheAssumption
  <2>3. LruOk(pagekeys)
    BY <2>1, <2>2 DEF LruOk, Distinct
  <2> QED
    BY <2>1, <2>3 DEF CacheInv, CacheOk
<1> QED
  BY <1>1, <1>2, <1>3, <1>4, <1>5 DEF IInv

\* A page and an entry of the cache stay right while no items are added.
LEMMA StoreSame ==
    ASSUME UNCHANGED <<items, bases>>, current_version \in Nat,
           current_version' \in Nat, current_version <= current_version',
           flushed' \in [Pid -> Nat],
           \A pid \in Pid : flushed'[pid] \in {flushed[pid], Len(items[pid])}
    PROVE  /\ StoreOk => StoreOk'
           /\ StoreOk => \A e : EntryOk(e) => EntryOk(e)'
           /\ StoreOk => \A lru : CacheOk(lru) => CacheOk(lru)'
<1> SUFFICES ASSUME StoreOk
             PROVE  /\ StoreOk'
                    /\ \A e : EntryOk(e) => EntryOk(e)'
                    /\ \A lru : CacheOk(lru) => CacheOk(lru)'
  OBVIOUS
<1>1. \A pid \in Pid : /\ Len(items[pid]) \in Nat /\ flushed[pid] \in 0..Len(items[pid])
                       /\ flushed'[pid] \in 0..Len(items[pid])
  <2> TAKE pid \in Pid
  <2>1. Len(items[pid]) \in Nat /\ flushed[pid] \in 0..Len(items[pid])
    BY SeqFacts DEF StoreOk, PageStored, ItemsFit
  <2> QED
    BY <2>1
<1>2. Unwritten' => Unwritten
  <2> SUFFICES ASSUME Unwritten', NEW pid \in Pid PROVE flushed[pid] = 0
    BY DEF Unwritten
  <2>1. flushed'[pid] = 0
    BY DEF Unwritten
  <2> QED
    BY <1>1, <2>1
<1>3. \A root, pid, s, n : PageIs(root, pid, s, n) => PageIs(root, pid, s, n)'
  BY <1>2 DEF PageIs
<1>4. StoreOk'
  <2>1. ASSUME NEW pid, NEW s, NEW bs, PageStored(pid, s, bs) PROVE PageStored(pid, s, bs)'
    <3>1. \A i \in 1..Len(s) : s[i].version <= current_version'
      <4> TAKE i \in 1..Len(s)
      <4>1. s[i].version <= current_version /\ s[i].version \in Nat
        BY <2>1 DEF PageStored, ItemsFit
      <4> QED
        BY <4>1
    <3>2. \A b \in 1..Len(bs) : PageIs(bs[b], pid, s, b * Tb)'
      BY <1>3, <2>1 DEF PageStored
    <3> QED
      BY <2>1, <3>1, <3>2 DEF PageStored
  <2>2. \A pid \in Pid : PageStored(pid, items[pid], bases[pid])'
    BY <2>1 DEF StoreOk
  <2>3. /\ DOMAIN items' = Pid /\ items' = [pid \in Pid |-> items'[pid]]
        /\ DOMAIN bases' = Pid /\ bases' = [pid \in Pid |-> bases'[pid]]
        /\ flushed' \in [Pid -> Nat]
        /\ \A pid \in Pid : flushed'[pid] \in 0..Len(items'[pid])
    BY <1>1 DEF StoreOk
  <2> QED
    BY <2>2, <2>3 DEF StoreOk
<1>5. ASSUME NEW e, EntryOk(e) PROVE EntryOk(e)'
  <2>1. e.version \in 0..current_version'
    BY <1>5 DEF EntryOk
  <2>2. Exactly(e.pid, e.version)'
    BY <1>5 DEF EntryOk, Exactly, UpdatesUpTo
  <2>3. PageAt(e.root, e.pid, e.version)'
    BY <1>3, <1>5 DEF EntryOk, PageAt, UpdatesUpTo
  <2> QED
    BY <1>5, <2>1, <2>2, <2>3 DEF EntryOk
<1>6. \A lru : CacheOk(lru) => CacheOk(lru)'
  BY <1>5 DEF CacheOk
<1> QED
  BY <1>4, <1>5, <1>6

\* The pages that a commit has to update are those it writes below.
LEMMA PagesWritten ==
    ASSUME NEW keys \in SUBSET Key, NEW pid \in Pid
    PROVE  pid \in UNION {PagesOf(k) : k \in keys} <=> \E k \in keys : StartsWith(k, pid)
<1>1. \A k \in keys : StartsWith(k, pid) <=> pid \in PagesOf(k)
  BY StartsWithPage
<1> QED
  BY <1>1

LEMMA BeginInv ==
    ASSUME IInv, NEW updates \in Updates, BeginCommit(updates)
    PROVE  /\ IInv'
           /\ \A pid \in Pid : Wrote(pid, current_version)' <=> pid \in todo'
<1> DEFINE cv == current_version
           nv == current_version + 1
<1>1. /\ Basics /\ StoreOk /\ Written /\ CacheInv
      /\ cv \in Nat /\ nv \in Nat /\ LastVersion \in Nat /\ cv < nv
      /\ nv \in Version /\ nv \in 0..LastVersion
  <2>1. Basics /\ cv \in Nat /\ LastVersion \in Nat
    BY VersionFacts DEF IInv
  <2>2. nv \in 1..LastVersion
    BY <2>1 DEF BeginCommit, Basics
  <2> QED
    BY <2>1, <2>2 DEF IInv, Version
<1>2. /\ cv' = nv /\ put_cache' = updates
      /\ todo' = UNION {PagesOf(k) : k \in DOMAIN updates}
      /\ value_store' = [value_store EXCEPT ![nv] = updates]
      /\ reads' = 0 /\ todo = {}
      /\ UNCHANGED <<pagekeys, items, bases, flushed>>
  BY DEF BeginCommit, Idle, storeVars
<1>3. DOMAIN updates \subseteq Key /\ DOMAIN updates # {}
  BY UpdatesAssumption
<1>4. /\ value_store' = [v \in Version |-> value_store'[v]]
      /\ value_store'[nv] = updates
      /\ \A v \in Version : v # nv => value_store'[v] = value_store[v]
  BY <1>1, <1>2 DEF Basics
<1>5. todo' \subseteq Pid
  <2> SUFFICES ASSUME NEW pid \in todo' PROVE pid \in Pid
    OBVIOUS
  <2> QED
    BY <1>2, <1>3 DEF Pid
<1>6. Basics'
  <2>1. \A v \in Version : DOMAIN value_store'[v] \subseteq Key
    BY <1>1, <1>3, <1>4 DEF Basics
  <2>2. \A v \in 1..nv : DOMAIN value_store'[v] # {}
    <3> TAKE v \in 1..nv
    <3>1. v # nv => v \in 1..cv /\ v \in Version
      BY <1>1, VersionFacts
    <3> QED
      BY <1>1, <1>3, <1>4, <3>1 DEF Basics
  <2>3. 0 \in 0..LastRead
    BY BoundAssumption
  <2> QED
    BY <1>1, <1>2, <1>3, <1>4, <1>5, <2>1, <2>2, <2>3 DEF Basics
<1>7. StoreOk' /\ CacheInv'
  <2>1. CacheOk(pagekeys)
    BY <1>1 DEF CacheInv
  <2>2. StoreOk' /\ CacheOk(pagekeys)'
    <3>1. flushed' \in [Pid -> Nat] /\ \A pid \in Pid : flushed'[pid] = flushed[pid]
      BY <1>1, <1>2 DEF StoreOk
    <3> QED
      BY <1>1, <1>2, <2>1, <3>1, StoreSame DEF CacheOk
  <2> QED
    BY <1>1, <1>2, <2>2 DEF CacheInv
<1>8. \A path : \A v \in 1..cv : Wrote(path, v)' <=> Wrote(path, v)
  <2> TAKE path
  <2> TAKE v \in 1..cv
  <2>1. v \in Version /\ v # nv
    BY <1>1, VersionFacts
  <2> QED
    BY <1>4, <2>1 DEF Wrote
<1>9. \A path : Wrote(path, current_version)' <=> \E k \in DOMAIN updates : StartsWith(k, path)
  <2>1. value_store'[current_version'] = updates
    BY <1>2, <1>4
  <2> QED
    BY <2>1 DEF Wrote
<1>10. \A pid \in Pid : Wrote(pid, current_version)' <=> pid \in todo'
  BY <1>2, <1>3, <1>9, PagesWritten
<1>11. CommitOk'
  <2>1. current_version' # 0 /\ put_cache' = value_store'[current_version']
    BY <1>1, <1>2, <1>4
  <2> QED
    BY <1>5, <1>10, <2>1 DEF CommitOk
<1>12. Written'
  <2> SUFFICES ASSUME NEW pid \in Pid, NEW m \in Paths(Depth(pid)), NEW v \in 1..nv
               PROVE  HasGroup(pid, items[pid], m, v)
                        <=> (pid \notin todo' \/ v < nv) /\ Wrote(pid \o m, v)'
    BY <1>2 DEF Written
  <2>1. CASE v = nv
    <3>1. ~HasGroup(pid, items[pid], m, nv)
      <4>1. \A i \in 1..Len(items[pid]) : items[pid][i].version <= cv /\ items[pid][i].version \in Nat
        BY <1>1 DEF StoreOk, PageStored, ItemsFit
      <4> QED
        BY <1>1, <4>1 DEF HasGroup
    <3>2. Wrote(pid \o m, current_version)' => pid \in todo'
      <4>1. \A k \in DOMAIN updates : StartsWith(k, pid \o m) => StartsWith(k, pid)
        BY <1>3, StartsWithPage, StartsBelow
      <4>2. Wrote(pid \o m, current_version)' => Wrote(pid, current_version)'
        BY <1>9, <4>1
      <4> QED
        BY <1>10, <4>2
    <3>3. ~(nv < nv)
      BY <1>1
    <3>4. Wrote(pid \o m, v)' <=> Wrote(pid \o m, current_version)'
      BY <1>2, <2>1
    <3> QED
      BY <2>1, <3>1, <3>2, <3>3, <3>4
  <2>2. CASE v # nv
    <3>1. v \in 1..cv /\ v < nv
      BY <1>1, <2>2
    <3>2. HasGroup(pid, items[pid], m, v) <=> Wrote(pid \o m, v)
      BY <1>1, <1>2, <3>1 DEF Written
    <3> QED
      BY <1>8, <3>1, <3>2
  <2> QED
    BY <2>1, <2>2
<1>13. IInv'
  BY <1>6, <1>7, <1>11, <1>12 DEF IInv
<1> QED
  BY <1>10, <1>13

\* The items of the commit under way do not count for the versions before.
LEMMA CountKept ==
    ASSUME StoreOk, current_version \in Nat \ {0}, NEW pid \in Pid, NEW t, ItemsFit(pid, t),
           Len(items[pid]) <= Len(t), \A i \in 1..Len(items[pid]) : t[i] = items[pid][i],
           \A i \in (Len(items[pid]) + 1)..Len(t) : t[i].version = current_version,
           items' = [items EXCEPT ![pid] = t],
           NEW v \in 0..current_version, v # current_version
    PROVE  UpdatesUpTo(pid, v)' = UpdatesUpTo(pid, v)
<1> DEFINE s == items[pid]
<1>1. items'[pid] = t
  BY DEF StoreOk
<1>2. v < current_version /\ v \in Nat
  OBVIOUS
<1>3. IsSeq(s) /\ IsSeq(t) /\ Len(s) \in Nat /\ Len(t) \in Nat /\ DOMAIN s = 1..Len(s) /\ DOMAIN t = 1..Len(t)
  BY SeqFacts DEF StoreOk, PageStored, ItemsFit
<1>4. {i \in DOMAIN t : t[i].version <= v} = {i \in DOMAIN s : s[i].version <= v}
  <2>1. \A i \in 1..Len(t) : i \in 1..Len(s) \/ (i \in (Len(s) + 1)..Len(t) /\ ~(t[i].version <= v))
    <3> TAKE i \in 1..Len(t)
    <3>1. i \in 1..Len(s) \/ i \in (Len(s) + 1)..Len(t)
      BY <1>3
    <3>2. i \in (Len(s) + 1)..Len(t) => t[i].version = current_version
      OBVIOUS
    <3> QED
      BY <1>2, <3>1, <3>2
  <2>2. \A i \in 1..Len(s) : i \in 1..Len(t) /\ t[i] = s[i]
    BY <1>3
  <2> HIDE DEF s
  <2> QED
    BY <1>3, <2>1, <2>2
<1> QED
  BY <1>1, <1>4 DEF UpdatesUpTo

\* The items of a page get those of the commit under way.
LEMMA EntryKept ==
    ASSUME StoreOk, current_version \in Nat \ {0}, NEW pid \in Pid, NEW t, ItemsFit(pid, t),
           Len(items[pid]) <= Len(t), \A i \in 1..Len(items[pid]) : t[i] = items[pid][i],
           \A i \in (Len(items[pid]) + 1)..Len(t) : t[i].version = current_version,
           items' = [items EXCEPT ![pid] = t], UNCHANGED <<flushed, current_version>>,
           NEW e, EntryOk(e), e.pid # pid \/ e.version # current_version
    PROVE  EntryOk(e)'
<1>1. Unwritten' <=> Unwritten
  BY DEF Unwritten
<1>2. /\ e = Entry(e.pid, e.version, e.root) /\ e.pid \in Pid
      /\ e.version \in 0..current_version /\ e.version \in Nat
      /\ VersionAt(items[e.pid], UpdatesUpTo(e.pid, e.version)) = e.version
      /\ PageIs(e.root, e.pid, items[e.pid], UpdatesUpTo(e.pid, e.version))
  BY DEF EntryOk, Exactly, PageAt
<1>3. CASE e.pid # pid
  <2>1. items'[e.pid] = items[e.pid]
    BY <1>2, <1>3
  <2>2. UpdatesUpTo(e.pid, e.version)' = UpdatesUpTo(e.pid, e.version)
    BY <2>1 DEF UpdatesUpTo
  <2> QED
    BY <1>1, <1>2, <2>1, <2>2 DEF EntryOk, Exactly, PageAt, PageIs
<1>4. CASE e.pid = pid
  <2> DEFINE s == items[pid]
             v == e.version
  <2>1. items'[pid] = t
    BY DEF StoreOk
  <2>2. v < current_version
    BY <1>2, <1>4
  <2>3. IsSeq(s) /\ IsSeq(t) /\ Len(s) \in Nat /\ Len(t) \in Nat /\ DOMAIN s = 1..Len(s) /\ DOMAIN t = 1..Len(t)
    BY SeqFacts DEF StoreOk, PageStored, ItemsFit
  <2>5. PICK n : n = UpdatesUpTo(pid, v)
    OBVIOUS
  <2>6. UpdatesUpTo(pid, v)' = n
    <3>1. v \in 0..current_version /\ v # current_version
      BY <1>2, <2>2
    <3> HIDE DEF v
    <3> QED
      BY <2>5, <3>1, CountKept
  <2>7. n \in 0..Len(s)
    BY <1>2, <2>5, UpToFacts
  <2>8. PICK root : root = e.root
    OBVIOUS
  <2>9. PageIs(root, pid, t, n)
    <3>1. PageIs(root, pid, s, n)
      BY <1>2, <1>4, <2>5, <2>8
    <3> HIDE DEF s
    <3> QED
      BY <2>3, <2>7, <3>1, Extended DEF s
  <2>10. VersionAt(t, n) = v
    <3>1. n # 0 => t[n] = s[n]
      BY <2>3, <2>7
    <3> QED
      BY <1>2, <1>4, <2>5, <3>1 DEF VersionAt
  <2>11. PageIs(root, pid, t, n)'
    BY <1>1, <2>9 DEF PageIs
  <2>12. Exactly(pid, v)'
    BY <2>1, <2>6, <2>10 DEF Exactly
  <2>13. PageAt(root, pid, v)'
    BY <2>1, <2>6, <2>11 DEF PageAt
  <2> QED
    BY <1>2, <1>4, <2>8, <2>12, <2>13 DEF EntryOk
<1> QED
  BY <1>3, <1>4

\* A page that the commit has still to update has no items of it.
LEMMA NoneYet ==
    ASSUME IInv, NEW pid \in todo
    PROVE  /\ pid \in Pid /\ current_version \in Nat \ {0}
           /\ current_version \in 1..current_version
           /\ \A i \in 1..Len(items[pid]) : items[pid][i].version < current_version
           /\ ~Exactly(pid, current_version)
<1> DEFINE s == items[pid]
           N == Len(s)
           cv == current_version
<1>1. /\ Basics /\ StoreOk /\ Written /\ pid \in Pid
      /\ cv \in Nat \ {0} /\ cv \in 1..cv
  BY VersionFacts DEF IInv, Basics, CommitOk
<1>2. /\ IsSeq(s) /\ N \in Nat /\ Whole(pid, N)
      /\ \A i \in 1..N : Whole(pid, i) => NibblesAt(pid, s, i) \in Paths(Depth(pid))
      /\ \A i \in 1..N : s[i].version \in Nat \ {0} /\ s[i].version <= cv
      /\ \A i, j \in 1..N : i <= j => s[i].version <= s[j].version
  BY <1>1, SeqFacts DEF StoreOk, PageStored, ItemsFit, Recorded
<1>3. N # 0 => s[N].version # cv
  <2> SUFFICES ASSUME N # 0, s[N].version = cv PROVE FALSE
    OBVIOUS
  <2>1. N \in 1..N
    BY <1>2
  <2>2. HasGroup(pid, s, NibblesAt(pid, s, N), cv)
    BY <1>2, <2>1 DEF HasGroup
  <2>3. NibblesAt(pid, s, N) \in Paths(Depth(pid))
    BY <1>2, <2>1
  <2> QED
    BY <1>1, <2>2, <2>3 DEF Written
<1>4. ASSUME NEW i \in 1..N PROVE s[i].version < cv
  <2>1. N \in 1..N /\ i <= N /\ N # 0
    BY <1>2
  <2> QED
    BY <1>1, <1>2, <1>3, <2>1
<1>5. ~Exactly(pid, cv)
  <2> DEFINE n == UpdatesUpTo(pid, cv)
  <2>1. n \in 0..N
    BY <1>1, UpToFacts
  <2> HIDE DEF n
  <2>2. VersionAt(s, n) # cv
    <3>1. n # 0 => n \in 1..N
      BY <1>2, <2>1
    <3> QED
      BY <1>1, <1>4, <3>1 DEF VersionAt
  <2> QED
    BY <2>2 DEF Exactly, n
<1> QED
  BY <1>1, <1>4, <1>5

\* The items, base pages and root of a page after the work on it.
LEMMA PageUpdated ==
    ASSUME IInv, NEW pid \in todo, NEW work, LoopOk(work, pid),
           NewNibbles(pid, work.items) = NibblesIn(pid, DOMAIN put_cache),
           items' = [items EXCEPT ![pid] = work.items],
           bases' = [bases EXCEPT ![pid] = work.bases],
           UNCHANGED <<flushed, current_version, value_store>>, todo' = todo \ {pid}
    PROVE  /\ StoreOk' /\ Written'
           /\ EntryOk(Entry(pid, current_version, work.root))'
<1> DEFINE s == items[pid]
           t == work.items
           cv == current_version
<1>1. /\ Basics /\ StoreOk /\ Written /\ CommitOk /\ pid \in Pid
      /\ cv \in Nat \ {0} /\ cv \in Nat /\ cv \in 1..cv
      /\ \A i \in 1..Len(s) : s[i].version < cv
  BY NoneYet DEF IInv
<1>2. /\ put_cache = value_store[cv] /\ Wrote(pid, cv)
  BY DEF IInv, CommitOk
<1>3. /\ PageStored(pid, t, work.bases)
      /\ PageIs(work.root, pid, t, Len(t))
      /\ Len(s) <= Len(t)
      /\ \A i \in 1..Len(s) : t[i] = s[i]
      /\ \A i \in (Len(s) + 1)..Len(t) : t[i].version = cv
  BY DEF LoopOk
<1>4. /\ ItemsFit(pid, t) /\ IsSeq(s) /\ IsSeq(t) /\ Len(s) \in Nat /\ Len(t) \in Nat
      /\ \A i \in 1..Len(t) : t[i].version <= cv /\ t[i].version \in Nat
  BY <1>1, <1>3, SeqFacts DEF StoreOk, PageStored, ItemsFit
<1>5. /\ items'[pid] = t /\ bases'[pid] = work.bases
      /\ \A q \in Pid : q # pid => items'[q] = items[q] /\ bases'[q] = bases[q]
      /\ DOMAIN items' = Pid /\ items' = [q \in Pid |-> items'[q]]
      /\ DOMAIN bases' = Pid /\ bases' = [q \in Pid |-> bases'[q]]
  BY <1>1 DEF StoreOk
<1>6. Unwritten' <=> Unwritten
  BY DEF Unwritten
<1>7. \A q, u, b : PageStored(q, u, b) => PageStored(q, u, b)'
  BY <1>6 DEF PageStored, PageIs
<1>8. StoreOk'
  <2>1. ASSUME NEW q \in Pid
        PROVE  PageStored(q, items[q], bases[q])' /\ flushed'[q] \in 0..Len(items'[q])
    <3>1. CASE q = pid
      <4>1. flushed[pid] \in 0..Len(s)
        BY <1>1 DEF StoreOk
      <4>2. flushed'[pid] \in 0..Len(t)
        BY <1>3, <1>4, <4>1
      <4>3. PageStored(pid, t, work.bases)'
        BY <1>3, <1>7
      <4> QED
        BY <1>5, <3>1, <4>2, <4>3
    <3>2. CASE q # pid
      <4>1. PageStored(q, items[q], bases[q]) /\ flushed[q] \in 0..Len(items[q])
        BY <1>1 DEF StoreOk
      <4>2. items'[q] = items[q] /\ bases'[q] = bases[q]
        BY <1>5, <3>2
      <4> QED
        BY <1>7, <4>1, <4>2
    <3> QED
      BY <3>1, <3>2
  <2>2. flushed' \in [Pid -> Nat]
    BY <1>1 DEF StoreOk
  <2> QED
    BY <1>5, <2>1, <2>2 DEF StoreOk
<1>9. \A m : HasGroup(pid, t, m, cv) <=> m \in NewNibbles(pid, t)
  <2>1. \A i \in 1..Len(t) : t[i].version = cv <=> i \in (Len(s) + 1)..Len(t)
    <3> TAKE i \in 1..Len(t)
    <3>1. i \in 1..Len(s) \/ i \in (Len(s) + 1)..Len(t)
      BY <1>4
    <3>2. i \in 1..Len(s) => t[i].version # cv /\ i \notin (Len(s) + 1)..Len(t)
      BY <1>1, <1>3, <1>4
    <3> QED
      BY <1>3, <3>1, <3>2
  <2>2. \A i \in (Len(s) + 1)..Len(t) : i \in 1..Len(t)
    BY <1>4
  <2> HIDE DEF t, s
  <2> QED
    BY <2>1, <2>2 DEF HasGroup, NewNibbles, s
<1>10. \A m : \A v \in 1..cv : v # cv => (HasGroup(pid, t, m, v) <=> HasGroup(pid, s, m, v))
  <2> TAKE m
  <2> TAKE v \in 1..cv
  <2> SUFFICES ASSUME v # cv PROVE HasGroup(pid, t, m, v) <=> HasGroup(pid, s, m, v)
    OBVIOUS
  <2>1. \A i \in 1..Len(t) : t[i].version = v => i \in 1..Len(s)
    <3> TAKE i \in 1..Len(t)
    <3>1. i \in 1..Len(s) \/ i \in (Len(s) + 1)..Len(t)
      BY <1>4
    <3> QED
      BY <1>3, <3>1
  <2>2. ASSUME NEW i \in 1..Len(s)
        PROVE  /\ i \in 1..Len(t) /\ t[i] = s[i]
               /\ Whole(pid, i) => NibblesAt(pid, t, i) = NibblesAt(pid, s, i)
    <3>1. i \in 1..Len(t) /\ t[i] = s[i]
      BY <1>3, <1>4
    <3>2. Whole(pid, i) /\ Depth(pid) # 0 => i - 1 \in 1..Len(s)
      BY <1>4 DEF Whole
    <3>3. Whole(pid, i) /\ Depth(pid) # 0 => t[i - 1] = s[i - 1]
      BY <1>3, <3>2
    <3>4. Depth(pid) \in 0..2
      BY <1>1, PidFacts
    <3>5. Depth(pid) = 0 => 1..Depth(pid) = {}
      OBVIOUS
    <3>6. Whole(pid, i) => NibblesAt(pid, t, i) = NibblesAt(pid, s, i)
      <4> HIDE DEF t, s
      <4> QED
        BY <3>1, <3>3, <3>5 DEF NibblesAt
    <3> QED
      BY <3>1, <3>6
  <2> HIDE DEF t, s
  <2> QED
    BY <2>1, <2>2 DEF HasGroup
<1>11. Written'
  <2> SUFFICES ASSUME NEW q \in Pid, NEW m \in Paths(Depth(q)), NEW v \in 1..cv
               PROVE  HasGroup(q, items'[q], m, v)
                        <=> (q \notin todo' \/ v < cv) /\ Wrote(q \o m, v)'
    BY DEF Written
  <2>1. Wrote(q \o m, v)' <=> Wrote(q \o m, v)
    BY DEF Wrote
  <2>2. HasGroup(q, items[q], m, v) <=> (q \notin todo \/ v < cv) /\ Wrote(q \o m, v)
    BY <1>1 DEF Written
  <2>3. CASE q # pid
    BY <1>5, <2>1, <2>2, <2>3
  <2>4. CASE q = pid /\ v = cv
    <3>1. HasGroup(pid, t, m, cv) <=> m \in NibblesIn(pid, DOMAIN value_store[cv])
      BY <1>2, <1>9
    <3>2. Wrote(pid \o m, cv) <=> m \in NibblesIn(pid, DOMAIN value_store[cv])
      BY <1>1, <2>4, WroteBelow
    <3> QED
      BY <1>5, <2>1, <2>4, <3>1, <3>2
  <2>5. CASE q = pid /\ v # cv
    <3>1. v < cv
      BY <1>1, <2>5
    <3> QED
      BY <1>5, <1>10, <2>1, <2>2, <2>5, <3>1
  <2> QED
    BY <2>3, <2>4, <2>5
<1>12. EntryOk(Entry(pid, cv, work.root))'
  <2> DEFINE root == work.root
             e == Entry(pid, cv, root)
             n == UpdatesUpTo(pid, cv)
  <2>1. Len(t) # 0 /\ t[Len(t)].version = cv
    <3>1. PICK m \in Paths(Depth(pid)) : m \in NibblesIn(pid, DOMAIN value_store[cv])
      BY <1>1, <1>2, WroteBelow
    <3>2. PICK i \in (Len(s) + 1)..Len(t) : Whole(pid, i)
      BY <1>2, <3>1 DEF NewNibbles
    <3>3. Len(t) \in (Len(s) + 1)..Len(t) /\ Len(t) # 0
      BY <1>4, <3>2
    <3> QED
      BY <1>3, <3>3
  <2>2. CountUpTo(t, cv) = Len(t)
    <3>1. /\ CountUpTo(t, cv) \in 0..Len(t)
          /\ \A i \in 1..Len(t) : t[i].version <= cv <=> i <= CountUpTo(t, cv)
      <4> HIDE DEF t
      <4> QED
        BY <1>1, <1>4, CountFacts
    <3>2. Len(t) \in 1..Len(t)
      BY <1>4, <2>1
    <3> QED
      BY <1>4, <3>1, <3>2
  <2>3. n' = Len(t)
    BY <1>5, <2>2, ZenonT(60) DEF CountUpTo, UpdatesUpTo
  <2>4. VersionAt(t, Len(t)) = cv
    BY <2>1 DEF VersionAt
  <2>5. PageIs(root, pid, t, Len(t))
    BY <1>3
  <2> HIDE DEF root
  <2>6. PageIs(root, pid, t, Len(t))'
    BY <1>6, <2>5 DEF PageIs
  <2>7. Exactly(pid, cv)'
    BY <1>5, <2>3, <2>4 DEF Exactly
  <2>8. PageAt(root, pid, cv)'
    BY <1>5, <2>3, <2>6 DEF PageAt
  <2>9. cv \in 0..cv
    BY <1>1
  <2>10. EntryOk(Entry(pid, cv, root))'
    BY <1>1, <2>7, <2>8, <2>9 DEF EntryOk, Entry
  <2> QED
    BY <2>10 DEF root
<1> QED
  BY <1>8, <1>11, <1>12

\* The cache after the work on a page: the page has its new version, unless it
\* was dropped for a child page.
LEMMA CacheCommitted ==
    ASSUME Markers, IInv, NEW pid \in todo, NEW work, LoopOk(work, pid),
           Apply(pid, work), EntryOk(Entry(pid, current_version, work.root))',
           UNCHANGED <<flushed, current_version>>
    PROVE  /\ CacheInv'
           /\ Cached(work.lru, pid, PageVersion(pid)) # {} =>
                 \A n \in Nat \ {0} : AmongFirst(work.lru, n, pid, PageVersion(pid)) =>
                    /\ AmongFirst(pagekeys', n, pid, current_version)
                    /\ \A q, v : q # pid /\ AmongFirst(work.lru, n, q, v)
                                   => AmongFirst(pagekeys', n, q, v)
<1> DEFINE cv == current_version
<1>1. PICK pv : pv = PageVersion(pid)
  OBVIOUS
<1>2. PICK lru : lru = work.lru
  OBVIOUS
<1>3. PICK root : root = work.root
  OBVIOUS
<1>4. PICK e : e = Entry(pid, cv, root)
  OBVIOUS
<1>5. PICK t : t = UpdatePageKey(lru, pid, pv, root)
  OBVIOUS
<1> DEFINE lost == Cached(lru, pid, pv) = {}
<1>6. /\ StoreOk /\ pid \in Pid /\ cv \in Nat \ {0} /\ cv \in Nat /\ ~Exactly(pid, cv)
      /\ CacheOk(lru) /\ LruOk(lru) /\ IsSeq(lru)
      /\ \A i \in 1..Len(lru) : EntryOk(lru[i])
      /\ \A i \in 1..Len(lru) : lru[i].version = 0 => lru[i].pid = pid /\ pv = 0
  BY <1>1, <1>2, NoneYet DEF IInv, LoopOk, CacheOk, LruOk
<1>7. /\ items' = [items EXCEPT ![pid] = work.items]
      /\ pagekeys' = IF lost THEN lru ELSE t
  BY <1>1, <1>2, <1>3, <1>5 DEF Apply
<1>8. \A i \in 1..Len(lru) : ~ (lru[i].pid = pid /\ lru[i].version = cv)
  <2> TAKE i \in 1..Len(lru)
  <2>1. Exactly(lru[i].pid, lru[i].version)
    BY <1>6 DEF EntryOk
  <2> QED
    BY <1>6, <2>1
<1>9. \A i \in 1..Len(lru) : EntryOk(lru[i])'
  <2> TAKE i \in 1..Len(lru)
  <2> DEFINE its == work.items
  <2>5. PICK f : f = lru[i]
    OBVIOUS
  <2>1. /\ EntryOk(f) /\ (f.pid # pid \/ f.version # cv)
    BY <1>6, <1>8, <2>5
  <2>2. /\ ItemsFit(pid, its) /\ Len(items[pid]) <= Len(its)
        /\ \A j \in 1..Len(items[pid]) : its[j] = items[pid][j]
        /\ \A j \in (Len(items[pid]) + 1)..Len(its) : its[j].version = cv
    BY DEF LoopOk, PageStored
  <2>3. items' = [items EXCEPT ![pid] = its]
    BY <1>7
  <2> HIDE DEF its
  <2>4. EntryOk(f)'
    BY <1>6, <2>1, <2>2, <2>3, EntryKept
  <2> QED
    BY <2>4, <2>5
<1>10. lost <=> \A i \in 1..Len(lru) : ~ (lru[i].pid = pid /\ lru[i].version = pv)
  <2>1. DOMAIN lru = 1..Len(lru)
    BY <1>6, SeqFacts
  <2> QED
    BY <2>1 DEF Cached
<1>11. CASE lost
  <2>1. \A i \in 1..Len(lru) : lru[i].version # 0
    BY <1>6, <1>10, <1>11
  <2>2. pagekeys' = lru
    BY <1>7, <1>11
  <2>3. CacheInv'
    BY <1>6, <1>9, <2>1, <2>2 DEF CacheInv, CacheOk
  <2> QED
    BY <1>11, <1>1, <1>2, <2>3
<1>12. CASE ~lost
  <2>1. /\ LruOk(t) /\ 1 \in 1..Len(t) /\ t[1] = e
        /\ \A j \in 1..Len(t) :
              \/ t[j] = e
              \/ \E k \in 1..Len(lru) :
                    t[j] = lru[k] /\ ~ (lru[k].pid = pid /\ lru[k].version = pv)
        /\ \A n \in Nat :
              (\E k \in 1..Len(lru) :
                  k <= n /\ lru[k].pid = pid /\ lru[k].version = pv)
              => \A k \in 1..Len(lru) :
                    k <= n /\ ~ (lru[k].pid = pid /\ lru[k].version = pv)
                       => \E j \in 1..Len(t) : j <= n /\ t[j] = lru[k]
    <3>1. /\ LruOk(lru) /\ Cached(lru, pid, pv) # {}
          /\ \A k \in 1..Len(lru) : ~ (lru[k].pid = pid /\ lru[k].version = current_version)
      BY <1>6, <1>8, <1>12
    <3>2. KeyMoved(lru, t, pid, pv, e)
      BY <1>4, <1>5, <3>1, KeyUpdated
    <3> QED
      BY <3>2 DEF KeyMoved
  <2>2. pagekeys' = t
    BY <1>7, <1>12
  <2>3. EntryOk(e)'
    BY <1>3, <1>4
  <2>4. \A j \in 1..Len(t) : EntryOk(t[j])' /\ t[j].version # 0
    <3> TAKE j \in 1..Len(t)
    <3>1. CASE t[j] = e
      <4>1. e.version = cv
        BY <1>4 DEF Entry
      <4> QED
        BY <1>6, <2>3, <3>1, <4>1
    <3>2. CASE t[j] # e
      <4>1. PICK k \in 1..Len(lru) : t[j] = lru[k] /\ ~ (lru[k].pid = pid /\ lru[k].version = pv)
        BY <2>1, <3>2
      <4>2. lru[k].version # 0
        BY <1>6, <4>1
      <4> QED
        BY <1>9, <4>1, <4>2
    <3> QED
      BY <3>1, <3>2
  <2>5. CacheInv'
    BY <2>1, <2>2, <2>4 DEF CacheInv, CacheOk
  <2>6. ASSUME NEW n \in Nat \ {0}, AmongFirst(lru, n, pid, pv)
        PROVE  /\ AmongFirst(t, n, pid, cv)
               /\ \A q, v : q # pid /\ AmongFirst(lru, n, q, v) => AmongFirst(t, n, q, v)
    <3>1. AmongFirst(t, n, pid, cv)
      <4>1. 1 <= n /\ t[1].pid = pid /\ t[1].version = cv
        BY <1>4, <2>1 DEF Entry
      <4> QED
        BY <2>1, <4>1 DEF AmongFirst
    <3>2. ASSUME NEW q, NEW v, q # pid, AmongFirst(lru, n, q, v) PROVE AmongFirst(t, n, q, v)
      <4>1. PICK k \in 1..Len(lru) : k <= n /\ lru[k].pid = q /\ lru[k].version = v
        BY <3>2 DEF AmongFirst
      <4>2. \E i \in 1..Len(lru) : i <= n /\ lru[i].pid = pid /\ lru[i].version = pv
        BY <2>6 DEF AmongFirst
      <4>3. \E j \in 1..Len(t) : j <= n /\ t[j] = lru[k]
        BY <2>1, <3>2, <4>1, <4>2
      <4> QED
        BY <4>1, <4>3 DEF AmongFirst
    <3> QED
      BY <3>1, <3>2
  <2> QED
    BY <1>1, <1>2, <2>2, <2>5, <2>6
<1> QED
  BY <1>11, <1>12

LEMMA CommitInv ==
    ASSUME Markers, IInv, NEW pid \in todo, CommitPage(pid)
    PROVE  IInv'
<1>1. PICK W : W = WorkOn(pid)
  OBVIOUS
<1>2. /\ Apply(pid, W)
      /\ todo' = todo \ {pid}
      /\ put_cache' = IF todo' = {} THEN <<>> ELSE put_cache
      /\ UNCHANGED <<current_version, flushed, value_store, reads>>
  BY <1>1 DEF CommitPage
<1>3. /\ Basics /\ StoreOk /\ Written /\ CommitOk /\ CacheInv
      /\ pid \in Pid /\ current_version \in Nat \ {0} /\ DOMAIN put_cache \subseteq Key
  BY NoneYet DEF IInv, Basics
<1>4. LoopOk(W, pid) /\ NewNibbles(pid, W.items) = NibblesIn(pid, DOMAIN put_cache)
  BY <1>3, <1>1, WorkDone
<1>5. StoreOk' /\ Written' /\ EntryOk(Entry(pid, current_version, W.root))'
  <2>1. /\ items' = [items EXCEPT ![pid] = W.items]
        /\ bases' = [bases EXCEPT ![pid] = W.bases]
    BY <1>2 DEF Apply
  <2> QED
    BY <1>2, <1>4, <2>1, PageUpdated
<1>6. CacheInv'
  BY <1>2, <1>4, <1>5, CacheCommitted
<1>7. Basics'
  <2>1. DOMAIN <<>> = {}
    OBVIOUS
  <2>2. DOMAIN put_cache' \subseteq Key
    BY <1>2, <1>3, <2>1
  <2> QED
    BY <1>2, <1>3, <2>2 DEF Basics
<1>8. CommitOk'
  BY <1>2, <1>3 DEF CommitOk, Wrote
<1> QED
  BY <1>5, <1>6, <1>7, <1>8 DEF IInv

\* Flush and Get store nothing.
LEMMA FlushInv == IInv /\ Flush => IInv'
<1> SUFFICES ASSUME IInv, Flush PROVE IInv'
  OBVIOUS
<1>1. /\ Basics /\ StoreOk /\ Written /\ CommitOk /\ CacheInv /\ current_version \in Nat
  BY VersionFacts DEF IInv
<1>2. /\ flushed' = [pid \in Pid |-> Len(items[pid])]
      /\ UNCHANGED <<current_version, put_cache, todo, pagekeys, items, bases, value_store,
                     fault, reads>>
  BY DEF Flush
<1>3. /\ flushed' \in [Pid -> Nat]
      /\ \A pid \in Pid : flushed'[pid] \in {flushed[pid], Len(items[pid])}
  <2>1. \A pid \in Pid : Len(items[pid]) \in Nat
    BY <1>1, SeqFacts DEF StoreOk, PageStored, ItemsFit
  <2> QED
    BY <1>2, <2>1
<1>4. StoreOk' /\ CacheOk(pagekeys)'
  <2>1. CacheOk(pagekeys)
    BY <1>1 DEF CacheInv
  <2> QED
    BY <1>1, <1>2, <1>3, <2>1, StoreSame DEF CacheOk
<1>5. CacheInv'
  BY <1>1, <1>2, <1>4 DEF CacheInv
<1>6. Basics' /\ CommitOk'
  BY <1>1, <1>2 DEF Basics, CommitOk, Wrote
<1>7. Written'
  BY <1>1, <1>2 DEF Written, Wrote
<1> QED
  BY <1>4, <1>5, <1>6, <1>7 DEF IInv

LEMMA GetInv ==
    ASSUME Markers, IInv, Get
    PROVE  IInv' /\ fault' = "none"
<1>1. PICK u \in 1..current_version, key \in Key : Put(u, key) /\ Read(u, key)
  BY DEF Get
<1> DEFINE path == Descend(pagekeys, u, key)
<1>2. /\ todo = {} /\ reads < LastRead /\ reads' = reads + 1
      /\ pagekeys' = path.lru /\ fault' = path.fault
      /\ UNCHANGED <<current_version, put_cache, todo, items, bases, flushed, value_store>>
  BY <1>1 DEF Read, Idle, storeVars
<1>3. /\ Basics /\ StoreOk /\ Written /\ CommitOk /\ CacheInv /\ current_version \in Nat
  BY VersionFacts DEF IInv
<1>4. CacheOk(path.lru) /\ Updated(path.lru) /\ path.fault = "none"
  BY <1>1, <1>2, Descended
<1>5. PICK lru : lru = path.lru
  OBVIOUS
<1>6. CacheOk(lru) /\ Updated(lru) /\ pagekeys' = lru
  BY <1>2, <1>4, <1>5
<1>7. StoreOk' /\ CacheOk(lru)'
  <2>1. /\ flushed' \in [Pid -> Nat]
        /\ \A pid \in Pid : flushed'[pid] \in {flushed[pid], Len(items[pid])}
    BY <1>2, <1>3 DEF StoreOk
  <2> QED
    BY <1>2, <1>3, <1>6, <2>1, StoreSame
<1>8. CacheInv'
  BY <1>6, <1>7 DEF CacheInv, Updated
<1>9. Basics' /\ CommitOk'
  <2>1. reads' \in 0..LastRead
    BY <1>2, <1>3, BoundAssumption DEF Basics
  <2> QED
    BY <1>2, <1>3, <2>1 DEF Basics, CommitOk, Wrote
<1>10. Written'
  BY <1>2, <1>3 DEF Written, Wrote
<1> QED
  BY <1>2, <1>4, <1>7, <1>8, <1>9, <1>10 DEF IInv

\* Every step keeps the invariant.
LEMMA NextInv ==
    ASSUME Markers, IInv, [Next]_vars
    PROVE  IInv'
<1>1. ASSUME NEW updates \in Updates, BeginCommit(updates) PROVE IInv'
  BY <1>1, BeginInv
<1>2. ASSUME NEW pid \in todo, CommitPage(pid) PROVE IInv'
  BY <1>2, CommitInv
<1>3. CASE Get
  BY <1>3, GetInv
<1>4. CASE Flush
  BY <1>4, FlushInv
<1>5. CASE UNCHANGED vars
  <2>1. /\ UNCHANGED <<current_version, put_cache, todo, pagekeys>>
        /\ UNCHANGED <<items, bases, flushed, value_store, reads>>
    BY <1>5 DEF vars
  <2>2. Basics /\ StoreOk /\ Written /\ CommitOk /\ CacheInv
    BY DEF IInv
  <2>3. StoreOk' /\ CacheOk(pagekeys)'
    <3>1. CacheOk(pagekeys) /\ current_version \in Nat
      BY <2>2, VersionFacts DEF CacheInv
    <3>2. flushed' \in [Pid -> Nat] /\ \A pid \in Pid : flushed'[pid] = flushed[pid]
      BY <2>1, <2>2 DEF StoreOk
    <3> QED
      BY <2>1, <2>2, <3>1, <3>2, StoreSame DEF CacheOk
  <2>4. CacheInv'
    BY <2>1, <2>2, <2>3 DEF CacheInv
  <2>5. Basics' /\ CommitOk' /\ Written'
    BY <2>1, <2>2 DEF Basics, CommitOk, Written, Wrote
  <2> QED
    BY <2>3, <2>4, <2>5 DEF IInv
<1> QED
  BY <1>1, <1>2, <1>3, <1>4, <1>5 DEF Next

\* What the store and the cache hold after any steps.
THEOREM Invariant == Markers => (Spec => []IInv)
<1> SUFFICES ASSUME Markers PROVE Spec => []IInv
  OBVIOUS
<1>1. Init => IInv
  BY InitIInv
<1>2. IInv /\ [Next]_vars => IInv'
  BY NextInv
<1> QED
  BY <1>1, <1>2, PTL DEF Spec

-----------------------------------------------------------------------------
(* Types, the pages in the cache, the values of the versions *)

LEMMA TypesFollow == IInv => TypeOK
<1> SUFFICES ASSUME IInv PROVE TypeOK
  OBVIOUS
<1>1. /\ Basics /\ StoreOk /\ LruOk(pagekeys) /\ current_version \in Nat
      /\ \A i \in 1..Len(pagekeys) : EntryOk(pagekeys[i])
  BY VersionFacts DEF IInv, CacheInv, CacheOk
<1> DEFINE R == {e.root : e \in Range(pagekeys)}
           E == [pid : Pid, version : 0..LastVersion, root : R]
<1>2. /\ IsSeq(pagekeys) /\ Len(pagekeys) <= MaxCacheSize
      /\ Range(pagekeys) = {pagekeys[i] : i \in 1..Len(pagekeys)}
  BY <1>1, SeqFacts DEF LruOk
<1>3. \A i \in 1..Len(pagekeys) : pagekeys[i].root \in R
  BY <1>2
<1>4. current_version <= LastVersion /\ LastVersion \in Nat
  BY <1>1, BoundAssumption DEF Basics
<1>5. \A i \in 1..Len(pagekeys) : pagekeys[i] \in E
  <2> TAKE i \in 1..Len(pagekeys)
  <2>1. PICK e : e = pagekeys[i]
    OBVIOUS
  <2>2. /\ e = Entry(e.pid, e.version, e.root)
        /\ e.pid \in Pid /\ e.version \in 0..current_version
    BY <1>1, <2>1 DEF EntryOk
  <2>3. e.root \in R
    BY <1>3, <2>1
  <2>4. e.version \in 0..LastVersion
    BY <1>1, <1>4, <2>2
  <2> HIDE DEF R
  <2>5. Entry(e.pid, e.version, e.root) \in E
    BY <2>2, <2>3, <2>4 DEF Entry
  <2> QED
    BY <2>1, <2>2, <2>5
<1>6. pagekeys \in Seq(E)
  <2> HIDE DEF E
  <2> QED
    BY <1>2, <1>5, SeqInSet
<1> QED
  BY <1>1, <1>2, <1>6 DEF TypeOK, Basics, StoreOk

\* Every state is of its type: the cache holds pages of versions there are and
\* is never over its size, and what is left of a commit are pages of the trie.
THEOREM TypeCorrect == Markers => (Spec => []TypeOK)
<1> SUFFICES ASSUME Markers PROVE Spec => []TypeOK
  OBVIOUS
<1>1. IInv => TypeOK
  BY TypesFollow
<1> QED
  BY <1>1, Invariant, PTL

LEMMA PagesCoherent ==
    ASSUME Markers, IInv
    PROVE  CacheCoherent
<1> SUFFICES ASSUME Unwritten, NEW e \in Range(pagekeys)
             PROVE  e.root = LoadPage(e.pid, e.version)
  BY DEF CacheCoherent
<1>1. /\ StoreOk /\ current_version \in Nat /\ IsSeq(pagekeys)
      /\ \A i \in 1..Len(pagekeys) : EntryOk(pagekeys[i])
  BY VersionFacts DEF IInv, CacheInv, CacheOk, LruOk
<1>2. PICK i \in 1..Len(pagekeys) : e = pagekeys[i]
  BY <1>1, SeqFacts
<1>3. PICK pid : pid = e.pid
  OBVIOUS
<1>4. PICK version : version = e.version
  OBVIOUS
<1>5. /\ pid \in Pid /\ version \in Nat /\ Exactly(pid, version)
      /\ PageAt(e.root, pid, version)
  BY <1>1, <1>2, <1>3, <1>4 DEF EntryOk
<1>6. PICK root : root = LoadPage(pid, version)
  OBVIOUS
<1>7. root # NoPage /\ EntryOk(Entry(pid, version, root))
  BY <1>1, <1>5, <1>6, PageLoaded
<1>8. PageAt(root, pid, version)
  BY <1>7 DEF EntryOk, Entry
<1> QED
  BY <1>3, <1>4, <1>5, <1>6, <1>8 DEF PageAt, PageIs

\* The page that the commits update in place in the cache, one pair of nibbles
\* after the other and evicting others, is what the delta items and base pages
\* stored for it rebuild: a page dropped by the cache and loaded again from
\* memory is the same page.
THEOREM CacheIsStore == Markers => (Spec => []CacheCoherent)
<1> SUFFICES ASSUME Markers PROVE Spec => []CacheCoherent
  OBVIOUS
<1>1. IInv => CacheCoherent
  BY PagesCoherent
<1> QED
  BY <1>1, Invariant, PTL

LEMMA KeysServed ==
    ASSUME Markers, IInv
    PROVE  Served
<1> SUFFICES ASSUME Idle, NEW u \in 1..current_version, NEW k \in Key
             PROVE  Answer(Descend(pagekeys, u, k)) = Contents(u, k)
  BY DEF Served
<1>1. /\ Basics /\ todo = {} /\ current_version \in Nat /\ u \in Nat
  BY VersionFacts DEF IInv, Idle
<1> DEFINE T == {v \in 1..u : k \in DOMAIN value_store[v]}
<1>2. PICK path : path = Descend(pagekeys, u, k)
  OBVIOUS
<1>3. /\ path.lost => ~Put(u, k)
      /\ ~path.lost => \E x \in 1..u :
            /\ IsLast(x, k, u)
            /\ path.leaf.location = [version |-> x, key |-> k]
  BY <1>1, <1>2, Descended
<1>4. CASE path.lost
  <2>1. T = {}
    BY <1>3, <1>4 DEF Put
  <2>2. Contents(u, k) = Deleted
    BY <2>1 DEF Contents
  <2> QED
    BY <1>2, <1>4, <2>2 DEF Answer, Deleted
<1>5. CASE ~path.lost
  <2>1. PICK x \in 1..u : IsLast(x, k, u) /\ path.leaf.location = [version |-> x, key |-> k]
    BY <1>3, <1>5
  <2>2. \A v \in 1..u : Wrote(k, v) <=> k \in DOMAIN value_store[v]
    BY <1>1, WroteKey
  <2>3. x \in T /\ \A y \in T : x >= y
    BY <1>1, <2>1, <2>2 DEF IsLast
  <2>4. Max(T) \in T /\ \A y \in T : Max(T) >= y
    BY <2>3 DEF Max
  <2>5. Max(T) = x
    BY <2>3, <2>4
  <2>6. Contents(u, k) = value_store[x][k]
    BY <2>3, <2>5 DEF Contents
  <2>7. Answer(path) = value_store[x][k]
    BY <1>5, <2>1 DEF Answer, ReadValue
  <2> QED
    BY <1>2, <2>6, <2>7
<1> QED
  BY <1>4, <1>5

\* Get at a version answers every key with what the last commit up to that
\* version wrote to it, whatever the number of commits, the keys they updated,
\* what the cache holds, and the reads and flushes in between: GetPage finds at
\* each page of the path the version that the page above names, and no later one.
THEOREM ServedCorrect == Markers => (Spec => []Served)
<1> SUFFICES ASSUME Markers PROVE Spec => []Served
  OBVIOUS
<1>1. IInv => Served
  BY KeysServed
<1> QED
  BY <1>1, Invariant, PTL

-----------------------------------------------------------------------------
(* A commit whose pages fit the cache *)

\* The pages a commit updates are no more than the cache holds.
CommitsFit ==
    \A updates \in Updates :
        LET pages == UNION {PagesOf(k) : k \in DOMAIN updates}
        IN  IsFiniteSet(pages) /\ Cardinality(pages) <= MaxCacheSize

\* The pages of the latest commit, and those of them it has updated.
CommitPages == {pid \in Pid : Wrote(pid, current_version)}
Done == CommitPages \ todo

\* The pages the commit has updated are the ones used last.
InFront ==
    todo # {} =>
        /\ IsFiniteSet(CommitPages) /\ Cardinality(CommitPages) <= MaxCacheSize
        /\ \A pid \in Done : AmongFirst(pagekeys, Cardinality(Done), pid, current_version)

\* The inductive invariant of commits that fit.
FitInv == IInv /\ fault = "none" /\ InFront

\* The child pages of the next page are updated already: page ids go from the
\* longest to the shortest.
LEMMA ChildrenDone ==
    ASSUME IInv, NEW pid \in todo, IsNext(pid), Depth(pid) = 2,
           NEW m \in NibblesIn(pid, DOMAIN put_cache)
    PROVE  pid \o m \in Done
<1>1. /\ Basics /\ pid \in Pid /\ current_version \in 1..current_version
      /\ put_cache = value_store[current_version]
  BY NoneYet DEF IInv, CommitOk
<1>2. PICK k \in DOMAIN put_cache : pid \in PagesOf(k) /\ m = NibblesAfter(pid, k)
  BY DEF NibblesIn
<1>3. k \in Key
  BY <1>1, <1>2, VersionFacts
<1>4. PICK q : q = pid \o m
  OBVIOUS
<1>5. q \in PagesOf(k) /\ q \in Pid /\ Len(q) = Len(pid) + 2
  BY <1>1, <1>2, <1>3, <1>4, NextPage
<1>6. Wrote(q, current_version)
  BY <1>1, <1>2, <1>3, <1>5, StartsWithPage DEF Wrote
<1>7. q \notin todo
  <2>1. Len(pid) \in Nat
    BY <1>1, PidFacts
  <2>2. ~Before(pid, q) /\ q # pid
    BY <1>5, <2>1 DEF Before
  <2> QED
    BY <2>2 DEF IsNext
<1> QED
  BY <1>4, <1>5, <1>6, <1>7 DEF Done, CommitPages

LEMMA CommitFits ==
    ASSUME Markers, FitInv, NEW pid \in todo, CommitPage(pid)
    PROVE  FitInv'
<1>1. PICK W : W = WorkOn(pid)
  OBVIOUS
<1>2. PICK n : n = Cardinality(Done)
  OBVIOUS
<1>3. /\ Apply(pid, W) /\ IsNext(pid)
      /\ todo' = todo \ {pid}
      /\ UNCHANGED <<current_version, flushed, value_store>>
  BY <1>1 DEF CommitPage
<1>4. /\ IInv /\ StoreOk /\ CacheInv /\ CommitOk
      /\ pid \in Pid /\ current_version \in Nat \ {0} /\ DOMAIN put_cache \subseteq Key
  BY NoneYet DEF FitInv, IInv, Basics
<1>5. /\ IsFiniteSet(CommitPages) /\ Cardinality(CommitPages) <= MaxCacheSize
      /\ \A q \in Done : AmongFirst(pagekeys, n, q, current_version)
  BY <1>2 DEF FitInv, InFront
<1>6. /\ Done' = Done \cup {pid} /\ pid \notin Done /\ CommitPages' = CommitPages
  <2>1. pid \in CommitPages
    BY <1>4 DEF CommitPages, CommitOk
  <2>2. CommitPages' = CommitPages
    BY <1>3 DEF CommitPages, Wrote
  <2> QED
    BY <1>3, <2>1, <2>2 DEF Done
<1>7. n \in Nat /\ n + 1 = Cardinality(Done)' /\ n < MaxCacheSize
  <2>1. Done \cup {pid} \subseteq CommitPages /\ IsFiniteSet(Done)
    <3>1. pid \in CommitPages
      BY <1>4 DEF CommitPages, CommitOk
    <3>2. Done \subseteq CommitPages
      BY DEF Done
    <3> QED
      BY <1>5, <3>1, <3>2, FS_Subset
  <2>2. n \in Nat /\ Cardinality(Done \cup {pid}) = n + 1
    BY <1>2, <1>6, <2>1, FS_AddElement, FS_CardinalityType
  <2>3. Cardinality(Done \cup {pid}) <= Cardinality(CommitPages)
    BY <1>5, <2>1, FS_Subset
  <2>4. Cardinality(CommitPages) \in Nat /\ MaxCacheSize \in Nat
    BY <1>5, FS_CardinalityType, CacheAssumption
  <2> QED
    BY <1>5, <1>6, <2>2, <2>3, <2>4
<1>8. /\ LoopOk(W, pid)
      /\ W.fault = "none"
      /\ AmongFirst(W.lru, n + 1, pid, PageVersion(pid))
      /\ \A q, v : AmongFirst(pagekeys, n, q, v) => AmongFirst(W.lru, n + 1, q, v)
  <2>1. Depth(pid) = 2 =>
            \A m \in NibblesIn(pid, DOMAIN put_cache) :
                AmongFirst(pagekeys, n, pid \o m, current_version)
    BY <1>3, <1>4, <1>5, ChildrenDone
  <2> QED
    BY <1>1, <1>4, <1>7, <2>1, WorkDone
<1>9. IInv'
  BY <1>4, CommitInv
<1>10. Cached(W.lru, pid, PageVersion(pid)) # {}
  <2>1. DOMAIN W.lru = 1..Len(W.lru)
    BY <1>8, SeqFacts DEF LoopOk, CacheOk, LruOk
  <2> QED
    BY <1>8, <2>1 DEF AmongFirst, Cached
<1>11. fault' = "none"
  BY <1>3, <1>8, <1>10 DEF Apply, Worse
<1>12. EntryOk(Entry(pid, current_version, W.root))'
  <2>1. /\ items' = [items EXCEPT ![pid] = W.items]
        /\ bases' = [bases EXCEPT ![pid] = W.bases]
    BY <1>3 DEF Apply
  <2>2. NewNibbles(pid, W.items) = NibblesIn(pid, DOMAIN put_cache)
    BY <1>1, <1>4, WorkDone
  <2> QED
    BY <1>3, <1>4, <1>8, <2>1, <2>2, PageUpdated
<1>13. \A q \in Done' : AmongFirst(pagekeys', n + 1, q, current_version)
  <2>1. n + 1 \in Nat \ {0}
    BY <1>7
  <2>2. /\ AmongFirst(pagekeys', n + 1, pid, current_version)
        /\ \A q, v : q # pid /\ AmongFirst(W.lru, n + 1, q, v)
                       => AmongFirst(pagekeys', n + 1, q, v)
    BY <1>3, <1>4, <1>8, <1>10, <1>12, <2>1, CacheCommitted
  <2>3. ASSUME NEW q \in Done PROVE AmongFirst(pagekeys', n + 1, q, current_version)
    BY <1>5, <1>6, <1>8, <2>2
  <2> QED
    BY <1>6, <2>2, <2>3
<1>14. InFront'
  <2>1. \A q \in Done' : AmongFirst(pagekeys', Cardinality(Done)', q, current_version')
    BY <1>3, <1>7, <1>13
  <2> QED
    BY <1>5, <1>6, <2>1 DEF InFront, AmongFirst
<1> QED
  BY <1>9, <1>11, <1>14 DEF FitInv

LEMMA FitNext ==
    ASSUME Markers, CommitsFit, FitInv, [Next]_vars
    PROVE  FitInv'
<1>1. IInv' /\ IInv /\ fault = "none"
  BY NextInv DEF FitInv
<1>2. ASSUME NEW updates \in Updates, BeginCommit(updates) PROVE FitInv'
  <2>1. /\ todo' = UNION {PagesOf(k) : k \in DOMAIN updates}
        /\ fault' = fault
    BY <1>2 DEF BeginCommit
  <2>2. \A pid \in Pid : Wrote(pid, current_version)' <=> pid \in todo'
    BY <1>1, <1>2, BeginInv
  <2>3. CommitPages' = todo'
    <3>1. todo' \subseteq Pid
      BY <1>1 DEF IInv, Basics
    <3> QED
      BY <2>2, <3>1 DEF CommitPages
  <2>4. IsFiniteSet(todo') /\ Cardinality(todo') <= MaxCacheSize
    BY <2>1 DEF CommitsFit
  <2>5. Done' = {}
    BY <2>3 DEF Done
  <2> QED
    BY <1>1, <2>1, <2>3, <2>4, <2>5 DEF FitInv, InFront
<1>3. ASSUME NEW pid \in todo, CommitPage(pid) PROVE FitInv'
  BY <1>3, CommitFits
<1>4. CASE Get
  <2>1. fault' = "none"
    BY <1>1, <1>4, GetInv
  <2>2. todo' = {}
    BY <1>4 DEF Get, Read, Idle
  <2> QED
    BY <1>1, <2>1, <2>2 DEF FitInv, InFront
<1>5. CASE Flush
  BY <1>1, <1>5 DEF Flush, Idle, FitInv, InFront
<1>6. CASE UNCHANGED vars
  <2>1. /\ UNCHANGED <<current_version, todo, pagekeys, value_store, fault>>
    BY <1>6 DEF vars
  <2> QED
    BY <1>1, <2>1 DEF FitInv, InFront, AmongFirst, Done, CommitPages, Wrote
<1> QED
  BY <1>2, <1>3, <1>4, <1>5, <1>6 DEF Next

\* No commit deletes a page it still works on, none finds a child page gone, and
\* no page without a root is deleted, when the cache has room for the pages of
\* one commit: what other pages it holds, and what was read before, is no matter.
THEOREM NeverFaults == Markers /\ CommitsFit => (Spec => []NoFault)
<1> SUFFICES ASSUME Markers, CommitsFit PROVE Spec => []NoFault
  OBVIOUS
<1>1. Init => FitInv
  BY InitIInv DEF Init, FitInv, InFront
<1>2. FitInv /\ [Next]_vars => FitInv'
  BY FitNext
<1>3. FitInv => NoFault
  BY DEF FitInv, NoFault
<1> QED
  BY <1>1, <1>2, <1>3, PTL DEF Spec

-----------------------------------------------------------------------------
(* The root hash of a version is the hash of its contents *)

\* The pages of a commit that are updated are no shorter than those that are not.
Ordered ==
    \A p \in todo, q \in Pid :
        q \notin todo /\ Wrote(q, current_version) => Len(p) <= Len(q)

HashInv == Unwritten => \A pid \in Pid : Hashed(pid, items[pid])

\* The inductive invariant of the hashes.
MerkleInv == IInv /\ Ordered /\ HashInv

LEMMA OrderedKept ==
    ASSUME IInv, Ordered, [Next]_vars
    PROVE  Ordered'
<1>1. ASSUME NEW updates \in Updates, BeginCommit(updates) PROVE Ordered'
  <2>1. \A pid \in Pid : Wrote(pid, current_version)' <=> pid \in todo'
    BY <1>1, BeginInv
  <2> QED
    BY <2>1 DEF Ordered
<1>2. ASSUME NEW pid \in todo, CommitPage(pid) PROVE Ordered'
  <2>1. /\ todo' = todo \ {pid} /\ IsNext(pid)
        /\ UNCHANGED <<current_version, value_store>>
    BY <1>2 DEF CommitPage
  <2>2. todo \subseteq Pid
    BY DEF IInv, Basics
  <2>3. \A p \in todo : Len(p) \in Nat
    BY <2>2, PidFacts
  <2>4. \A p \in todo : Len(p) <= Len(pid)
    BY <2>1, <2>3 DEF IsNext, Before
  <2>5. \A q : Wrote(q, current_version)' <=> Wrote(q, current_version)
    BY <2>1 DEF Wrote
  <2> QED
    BY <2>1, <2>4, <2>5 DEF Ordered
<1>3. ASSUME Get \/ Flush \/ UNCHANGED vars PROVE Ordered'
  <2>1. UNCHANGED <<todo, current_version, value_store>>
    BY <1>3 DEF Get, Read, Flush, vars
  <2> QED
    BY <2>1 DEF Ordered, Wrote
<1> QED
  BY <1>1, <1>2, <1>3 DEF Next

\* The next page's child pages are updated, and its values are those of the commit.
LEMMA BeneathDone ==
    ASSUME IInv, NEW pid \in todo, IsNext(pid), Unwritten
    PROVE  BeneathReady(pid, NibblesIn(pid, DOMAIN put_cache))
<1>1. /\ Basics /\ StoreOk /\ Written /\ current_version \in 1..current_version
      /\ put_cache = value_store[current_version]
  BY NoneYet DEF IInv, CommitOk
<1>2. ASSUME NEW m \in NibblesIn(pid, DOMAIN put_cache), Depth(pid) = 2
      PROVE  Exactly(pid \o m, current_version)
  <2>1. PICK q : q = pid \o m
    OBVIOUS
  <2>2. q \in Pid /\ q \notin todo /\ Wrote(q, current_version)
    BY <1>2, <2>1, ChildrenDone DEF Done, CommitPages
  <2>3. Exactly(q, current_version)
    BY <1>1, <2>2, PageThere
  <2> QED
    BY <2>1, <2>3
<1> QED
  BY <1>1, <1>2 DEF BeneathReady

\* The hashes of a page stay right while those below it do.
LEMMA HashedKept ==
    ASSUME NEW pid \in Pid, NEW s, IsSeq(s), Hashed(pid, s),
           \A m \in Paths(Depth(pid)), j \in 0..Len(s) :
              (j # 0 => Whole(pid, j) /\ NibblesAt(pid, s, j) = m)
                 => HashBeneath(pid, m, VersionAt(s, j))' = HashBeneath(pid, m, VersionAt(s, j))
    PROVE  Hashed(pid, s)'
<1>1. Len(s) \in Nat
  BY SeqFacts
<1>2. ASSUME NEW n \in 0..Len(s), Whole(pid, n) PROVE HashedAfter(pid, s, n)'
  <2>1. HashedAfter(pid, s, n)
    BY <1>2 DEF Hashed
  <2>2. ASSUME NEW m \in Paths(Depth(pid)), NEW j \in 0..n, LastGroup(pid, s, j, n, m)
        PROVE  HashAt(PageAfter(s, n), m) = HashBeneath(pid, m, VersionAt(s, j))'
    <3>1. j \in 0..Len(s)
      BY <1>1
    <3>2. j # 0 => Whole(pid, j) /\ NibblesAt(pid, s, j) = m
      BY <2>2 DEF LastGroup
    <3>3. HashAt(PageAfter(s, n), m) = HashBeneath(pid, m, VersionAt(s, j))
      BY <2>1, <2>2 DEF HashedAfter
    <3> QED
      BY <3>1, <3>2, <3>3
  <2> QED
    BY <2>1, <2>2 DEF HashedAfter
<1> QED
  BY <1>2 DEF Hashed

LEMMA HashKept ==
    ASSUME StoreOk, current_version \in Nat \ {0}, NEW pid \in Pid, NEW t, ItemsFit(pid, t),
           Len(items[pid]) <= Len(t), \A i \in 1..Len(items[pid]) : t[i] = items[pid][i],
           \A i \in (Len(items[pid]) + 1)..Len(t) : t[i].version = current_version,
           items' = [items EXCEPT ![pid] = t],
           NEW q, NEW v \in 0..current_version, q # pid \/ v # current_version
    PROVE  HashOf(q, v)' = HashOf(q, v)
<1>1. CASE q \notin Pid
  BY <1>1 DEF HashOf
<1>2. CASE q \in Pid /\ q # pid
  <2>1. items'[q] = items[q]
    BY <1>2 DEF StoreOk
  <2>2. UpdatesUpTo(q, v)' = UpdatesUpTo(q, v)
    BY <2>1 DEF UpdatesUpTo
  <2> QED
    BY <2>1, <2>2 DEF HashOf
<1>3. CASE q = pid
  <2> DEFINE s == items[pid]
  <2>1. PICK n : n = UpdatesUpTo(pid, v)
    OBVIOUS
  <2>2. UpdatesUpTo(pid, v)' = n
    BY <1>3, <2>1, CountKept
  <2>3. n \in 0..Len(s)
    <3>1. v \in Nat
      OBVIOUS
    <3> QED
      BY <2>1, <3>1, UpToFacts
  <2>4. items'[pid] = t
    BY DEF StoreOk
  <2>5. IsSeq(s) /\ IsSeq(t)
    BY DEF StoreOk, PageStored, ItemsFit
  <2>6. PageAfter(t, n) = PageAfter(s, n)
    BY <2>3, <2>5, PrefixSame DEF PageAfter
  <2> QED
    BY <1>3, <2>1, <2>2, <2>4, <2>6 DEF HashOf
<1> QED
  BY <1>1, <1>2, <1>3

\* The page just updated has the hashes of what is below it; no other page refers
\* to its new version yet.
LEMMA CommitHashed ==
    ASSUME Markers, MerkleInv, NEW pid \in todo, CommitPage(pid)
    PROVE  HashInv'
<1>1. PICK W : W = WorkOn(pid)
  OBVIOUS
<1>2. /\ items' = [items EXCEPT ![pid] = W.items]
      /\ UNCHANGED <<current_version, flushed, value_store>>
      /\ IsNext(pid)
  BY <1>1 DEF CommitPage, Apply
<1>3. /\ IInv /\ Ordered /\ HashInv /\ Basics /\ StoreOk /\ Written /\ CacheInv
      /\ pid \in Pid /\ current_version \in Nat \ {0} /\ current_version \in 1..current_version
      /\ DOMAIN put_cache \subseteq Key
  BY NoneYet DEF MerkleInv, IInv, Basics
<1> SUFFICES ASSUME Unwritten' PROVE \A q \in Pid : Hashed(q, items[q])'
  BY DEF HashInv
<1>4. Unwritten /\ \A q \in Pid : Hashed(q, items[q])
  BY <1>2, <1>3 DEF Unwritten, HashInv
<1> DEFINE t == W.items
<1>5. LoopOk(W, pid) /\ Hashed(pid, t)
  <2>1. BeneathReady(pid, NibblesIn(pid, DOMAIN put_cache))
    BY <1>2, <1>3, <1>4, BeneathDone
  <2> QED
    BY <1>1, <1>3, <1>4, <2>1, WorkDone
<1>6. /\ ItemsFit(pid, t) /\ Len(items[pid]) <= Len(t)
      /\ \A i \in 1..Len(items[pid]) : t[i] = items[pid][i]
      /\ \A i \in (Len(items[pid]) + 1)..Len(t) : t[i].version = current_version
      /\ \A i \in 1..Len(t) : t[i].version \in 0..current_version
  BY <1>5 DEF LoopOk, PageStored, ItemsFit
<1>7. \A q : \A v \in 0..current_version :
          q # pid \/ v # current_version => HashOf(q, v)' = HashOf(q, v)
  <2> HIDE DEF t
  <2> QED
    BY <1>2, <1>3, <1>6, HashKept DEF t
<1>8. ASSUME NEW q \in Pid, NEW m \in Paths(Depth(q)), NEW v \in 0..current_version,
             q \o m # pid \/ v # current_version
      PROVE  HashBeneath(q, m, v)' = HashBeneath(q, m, v)
  BY <1>2, <1>7, <1>8 DEF HashBeneath
<1>9. ASSUME NEW q \in Pid PROVE Hashed(q, items[q])'
  <2>1. CASE q = pid
    <3>1. items'[q] = t /\ IsSeq(t)
      BY <1>2, <1>3, <1>6, <2>1 DEF StoreOk, ItemsFit
    <3>2. PICK s : s = t
      OBVIOUS
    <3>3. ASSUME NEW m \in Paths(Depth(pid)), NEW j \in 0..Len(s)
          PROVE  HashBeneath(pid, m, VersionAt(s, j))' = HashBeneath(pid, m, VersionAt(s, j))
      <4>1. PICK v : v = VersionAt(s, j)
        OBVIOUS
      <4>2. v \in 0..current_version
        <5>1. j # 0 => j \in 1..Len(t)
          BY <3>2
        <5> QED
          BY <1>3, <1>6, <3>2, <4>1, <5>1 DEF VersionAt
      <4>3. Depth(pid) = 2 => pid \o m # pid
        <5>1. Len(pid \o m) = Len(pid) + Depth(pid) /\ Len(pid) \in Nat
          BY <1>3, PathFacts, PidFacts
        <5> QED
          BY <5>1
      <4>4. HashBeneath(pid, m, v)' = HashBeneath(pid, m, v)
        <5>1. CASE Depth(pid) = 2
          BY <1>3, <1>8, <4>2, <4>3, <5>1
        <5>2. CASE Depth(pid) # 2
          BY <1>2, <5>2 DEF HashBeneath
        <5> QED
          BY <5>1, <5>2
      <4> QED
        BY <4>1, <4>4
    <3>4. Hashed(pid, s)'
      BY <1>3, <1>5, <3>1, <3>2, <3>3, HashedKept
    <3> QED
      BY <2>1, <3>1, <3>2, <3>4
  <2>2. CASE q # pid
    <3>1. items'[q] = items[q]
      BY <1>2, <1>3, <2>2 DEF StoreOk
    <3>2. PICK s : s = items[q]
      OBVIOUS
    <3>3. /\ IsSeq(s) /\ Len(s) \in Nat
          /\ \A i \in 1..Len(s) : s[i].version \in 0..current_version
      BY <1>3, <3>2, SeqFacts DEF StoreOk, PageStored, ItemsFit
    <3>4. ASSUME NEW m \in Paths(Depth(q)), NEW j \in 0..Len(s),
                 j # 0 => Whole(q, j) /\ NibblesAt(q, s, j) = m
          PROVE  HashBeneath(q, m, VersionAt(s, j))' = HashBeneath(q, m, VersionAt(s, j))
      <4>1. PICK v : v = VersionAt(s, j)
        OBVIOUS
      <4>2. v \in 0..current_version /\ (j # 0 => j \in 1..Len(s) /\ v = s[j].version)
        BY <1>3, <3>3, <4>1 DEF VersionAt
      <4>3. CASE Depth(q) # 2
        <5>1. HashBeneath(q, m, v)' = HashBeneath(q, m, v)
          BY <1>2, <4>3 DEF HashBeneath
        <5> QED
          BY <4>1, <5>1
      <4>4. CASE Depth(q) = 2
        <5>1. q \o m # pid \/ v # current_version
          <6> SUFFICES ASSUME q \o m = pid, v = current_version PROVE FALSE
            OBVIOUS
          <6>1. j # 0
            BY <1>3, <4>1 DEF VersionAt
          <6>2. HasGroup(q, items[q], m, current_version)
            BY <3>2, <3>4, <4>2, <6>1 DEF HasGroup
          <6>3. q \notin todo /\ Wrote(q \o m, current_version)
            <7>1. ~ (current_version < current_version)
              BY <1>3
            <7>2. HasGroup(q, items[q], m, current_version) <=>
                     (Wrote(q \o m, current_version)
                        /\ (current_version < current_version \/ q \notin todo))
              BY ONLY <1>3, q \in Pid, m \in Paths(Depth(q)) DEF Written
            <7> QED
              BY <6>2, <7>1, <7>2
          <6>4. Wrote(q, current_version)
            BY <1>3, <6>3, WroteBelow
          <6>5. Len(pid) <= Len(q)
            BY <1>3, <6>3, <6>4 DEF Ordered
          <6>6. Len(q \o m) = Len(q) + Depth(q) /\ Len(q) \in Nat
            BY PathFacts, PidFacts
          <6> QED
            BY <4>4, <6>5, <6>6
        <5>2. HashBeneath(q, m, v)' = HashBeneath(q, m, v)
          BY <1>8, <4>2, <5>1
        <5> QED
          BY <4>1, <5>2
      <4> QED
        BY <4>3, <4>4
    <3>5. Hashed(q, s)
      BY <1>4, <3>2
    <3>6. Hashed(q, s)'
      BY <3>3, <3>4, <3>5, HashedKept
    <3> QED
      BY <3>1, <3>2, <3>6
  <2> QED
    BY <2>1, <2>2
<1> QED
  BY <1>9

LEMMA MerkleNext ==
    ASSUME Markers, MerkleInv, [Next]_vars
    PROVE  MerkleInv'
<1>1. /\ IInv /\ Ordered /\ HashInv /\ StoreOk
      /\ current_version \in Nat
  BY VersionFacts DEF MerkleInv, IInv
<1>2. IInv' /\ Ordered'
  BY <1>1, NextInv, OrderedKept
<1>3. ASSUME UNCHANGED items, flushed' \in [Pid -> Nat],
             \A pid \in Pid : flushed'[pid] \in {flushed[pid], Len(items[pid])},
             \A v \in 1..current_version : value_store'[v] = value_store[v]
      PROVE  HashInv'
  <2>1. Unwritten' => Unwritten
    <3> SUFFICES ASSUME Unwritten', NEW pid \in Pid PROVE flushed[pid] = 0
      BY DEF Unwritten
    <3>1. /\ flushed'[pid] = 0 /\ flushed'[pid] \in {flushed[pid], Len(items[pid])}
          /\ Len(items[pid]) \in Nat /\ flushed[pid] \in 0..Len(items[pid])
      BY <1>1, <1>3, SeqFacts DEF Unwritten, StoreOk, PageStored, ItemsFit
    <3> QED
      BY <3>1
  <2> SUFFICES ASSUME Unwritten', NEW q \in Pid PROVE Hashed(q, items[q])'
    BY DEF HashInv
  <2>2. Hashed(q, items[q])
    BY <1>1, <2>1 DEF HashInv
  <2>3. PICK s : s = items[q]
    OBVIOUS
  <2>4. /\ IsSeq(s) /\ Len(s) \in Nat
        /\ \A i \in 1..Len(s) : s[i].version \in Nat \ {0} /\ s[i].version <= current_version
    BY <1>1, <2>3, SeqFacts DEF StoreOk, PageStored, ItemsFit
  <2>5. \A path, v : HashOf(path, v)' = HashOf(path, v)
    BY <1>3 DEF HashOf, UpdatesUpTo
  <2>6. ASSUME NEW m \in Paths(Depth(q)), NEW j \in 0..Len(s)
        PROVE  HashBeneath(q, m, VersionAt(s, j))' = HashBeneath(q, m, VersionAt(s, j))
    <3>1. PICK v : v = VersionAt(s, j)
      OBVIOUS
    <3>2. v = 0 \/ v \in 1..current_version
      <4>1. j # 0 => j \in 1..Len(s)
        OBVIOUS
      <4> QED
        BY <1>1, <2>4, <3>1, <4>1 DEF VersionAt
    <3>3. v # 0 => value_store'[v] = value_store[v]
      BY <1>3, <3>2
    <3>4. HashBeneath(q, m, v)' = HashBeneath(q, m, v)
      BY <2>5, <3>3 DEF HashBeneath
    <3> QED
      BY <3>1, <3>4
  <2>7. Hashed(q, s)'
    BY <2>2, <2>3, <2>4, <2>6, HashedKept
  <2>8. items'[q] = s
    BY <1>3, <2>3
  <2> QED
    BY <2>7, <2>8
<1>4. flushed \in [Pid -> Nat]
  BY <1>1 DEF StoreOk
<1>5. ASSUME NEW updates \in Updates, BeginCommit(updates) PROVE HashInv'
  <2>1. /\ value_store' = [value_store EXCEPT ![current_version + 1] = updates]
        /\ UNCHANGED <<items, flushed>>
    BY <1>5 DEF BeginCommit, storeVars
  <2>2. \A v \in 1..current_version : value_store'[v] = value_store[v]
    <3>1. value_store = [v \in Version |-> value_store[v]]
      BY <1>1 DEF IInv, Basics
    <3>2. \A v \in 1..current_version : v \in Version /\ v # current_version + 1
      BY <1>1, VersionFacts DEF IInv
    <3> QED
      BY <2>1, <3>1, <3>2
  <2> QED
    BY <1>3, <1>4, <2>1, <2>2
<1>6. ASSUME NEW pid \in todo, CommitPage(pid) PROVE HashInv'
  BY <1>6, CommitHashed
<1>7. ASSUME Flush PROVE HashInv'
  <2>1. flushed' = [pid \in Pid |-> Len(items[pid])] /\ UNCHANGED <<items, value_store>>
    BY <1>7 DEF Flush
  <2>2. \A pid \in Pid : Len(items[pid]) \in Nat
    BY <1>1, SeqFacts DEF StoreOk, PageStored, ItemsFit
  <2> QED
    BY <1>3, <2>1, <2>2
<1>8. ASSUME Get \/ UNCHANGED vars PROVE HashInv'
  <2>1. UNCHANGED <<items, flushed, value_store>>
    BY <1>8 DEF Get, Read, vars, storeVars
  <2> QED
    BY <1>3, <1>4, <2>1
<1>9. HashInv'
  BY <1>5, <1>6, <1>7, <1>8 DEF Next
<1> QED
  BY <1>2, <1>9 DEF MerkleInv

LEMMA MerkleHolds ==
    ASSUME Markers
    PROVE  Spec => []MerkleInv
<1>1. Init => MerkleInv
  <2> SUFFICES ASSUME Init PROVE MerkleInv
    OBVIOUS
  <2>1. IInv
    BY InitIInv
  <2>2. Ordered
    BY DEF Init, Ordered
  <2>3. HashInv
    <3>1. IsSeq(<<>>) /\ Len(<<>>) = 0
      BY DEF IsSeq
    <3>2. \A pid \in Pid : items[pid] = <<>>
      BY DEF Init
    <3> QED
      BY <3>1, <3>2, NothingHashed DEF HashInv
  <2> QED
    BY <2>1, <2>2, <2>3 DEF MerkleInv
<1>2. MerkleInv /\ [Next]_vars => MerkleInv'
  BY MerkleNext
<1> QED
  BY <1>1, <1>2, PTL DEF Spec

\* The last version up to u that wrote below this path.
Latest(path, u) == CHOOSE w \in 0..u : IsLast(w, path, u)

\* The hash of a page as version u has it.
HashAsOf(pid, u) == HashOf(pid, Latest(pid, u))

LEMMA LatestIsLast ==
    ASSUME NEW path, NEW u \in Nat
    PROVE  /\ Latest(path, u) \in 0..u /\ IsLast(Latest(path, u), path, u)
           /\ \A w : IsLast(w, path, u) => w = Latest(path, u)
<1>1. \E w \in 0..u : IsLast(w, path, u)
  BY LastWritten
<1>2. Latest(path, u) \in 0..u /\ IsLast(Latest(path, u), path, u)
  BY <1>1 DEF Latest
<1> QED
  BY <1>2, LastWritten

LEMMA PrefixStarts ==
    ASSUME NEW k \in Key, NEW path \in Seq(Nibble)
    PROVE  IsPrefix(path, k) <=> StartsWith(k, path)
<1>1. k \in Seq(Nibble) /\ Len(k) \in Nat /\ Len(path) \in Nat /\ path \in Seq(Nibble)
  BY KeyFacts, LenProperties
<1> DEFINE n == Len(path)
<1>2. CASE n <= Len(k)
  <2>1. n \in 0..Len(k) /\ n \in 0..Len(path)
    BY <1>1, <1>2
  <2>2. /\ Upto(k, n) \in Seq(Nibble) /\ Len(Upto(k, n)) = n
        /\ \A i \in 1..n : Upto(k, n)[i] = k[i]
    BY <1>1, <2>1, Prefix
  <2>3. /\ Upto(path, n) \in Seq(Nibble) /\ Len(Upto(path, n)) = n
        /\ \A i \in 1..n : Upto(path, n)[i] = path[i]
    BY <1>1, <2>1, Prefix
  <2>4. Upto(path, n) = Upto(k, n) <=> \A i \in 1..n : k[i] = path[i]
    BY <2>2, <2>3, SeqEqual
  <2> QED
    BY <1>2, <2>4 DEF IsPrefix, StartsWith, Upto
<1>3. CASE ~(n <= Len(k))
  BY <1>3 DEF IsPrefix, StartsWith
<1> QED
  BY <1>2, <1>3

\* A version has had keys below a path that some version wrote below.
LEMMA TouchedIsWritten ==
    ASSUME Basics, NEW u \in 1..current_version, NEW path \in Seq(Nibble)
    PROVE  Touched(u, path) <=> Latest(path, u) # 0
<1>1. u \in Nat /\ current_version \in Nat
  BY VersionFacts
<1>2. \A v \in 1..u : DOMAIN value_store[v] \subseteq Key
  <2>1. \A v \in 1..u : v \in 1..current_version
    BY <1>1
  <2> QED
    BY <2>1, VersionFacts
<1>3. Touched(u, path) <=> \E v \in 1..u : Wrote(path, v)
  <2>1. \A k \in Key : IsPrefix(path, k) <=> StartsWith(k, path)
    BY PrefixStarts
  <2> QED
    BY <1>2, <2>1 DEF Touched, Put, Wrote
<1>4. PICK w : w = Latest(path, u)
  OBVIOUS
<1>5. w \in 0..u /\ IsLast(w, path, u)
  BY <1>1, <1>4, LatestIsLast
<1>6. (\E v \in 1..u : Wrote(path, v)) <=> w # 0
  BY <1>1, <1>5 DEF IsLast
<1> QED
  BY <1>3, <1>4, <1>6

\* The hash of a leaf is the hash of what was written to its key last.
LEMMA LeafHashIs ==
    ASSUME Basics, NEW u \in 1..current_version, NEW k \in Key,
           NEW w, IsLast(w, k, u)
    PROVE  LeafHash(u, k) = IF w = 0 THEN EmptyString ELSE HashOfLeaf(value_store[w][k])
<1> DEFINE T == {v \in 1..u : k \in DOMAIN value_store[v]}
<1>1. u \in Nat /\ \A v \in 1..u : v \in 1..current_version
  BY VersionFacts
<1>2. \A v \in 1..u : Wrote(k, v) <=> v \in T
  BY <1>1, WroteKey
<1>3. /\ w \in 0..u /\ (w # 0 => Wrote(k, w))
      /\ \A y \in (w + 1)..u : ~Wrote(k, y)
  BY DEF IsLast
<1>4. CASE w = 0
  <2>1. T = {}
    BY <1>1, <1>2, <1>3, <1>4
  <2> QED
    BY <1>4, <2>1 DEF LeafHash, Contents
<1>5. CASE w # 0
  <2>1. w \in T /\ \A y \in T : w >= y
    BY <1>1, <1>2, <1>3, <1>5
  <2>2. Max(T) \in T /\ \A y \in T : Max(T) >= y
    BY <2>1 DEF Max
  <2>3. Max(T) = w
    BY <1>1, <2>1, <2>2
  <2>4. Contents(u, k) = value_store[w][k]
    BY <2>1, <2>3 DEF Contents
  <2> QED
    BY <1>5, <2>4 DEF LeafHash, HashOfLeaf, Deleted
<1> QED
  BY <1>4, <1>5

\* A page as a version has it: for each of its nibbles, the version that wrote
\* below them last, and the hash of what that is.
RootAsOf(root, pid, u) ==
    /\ root # NoNode /\ PageShape(root, Depth(pid)) /\ PageHashed(root, Depth(pid))
    /\ \A m \in Paths(Depth(pid)) :
          LET x == Latest(pid \o m, u)
          IN  Links(root, m, x, pid \o m) /\ HashAt(root, m) = HashBeneath(pid, m, x)

LEMMA RootIsAsOf ==
    ASSUME IInv, HashInv, Unwritten, todo = {},
           NEW u \in 1..current_version, NEW pid \in Pid,
           NEW w, w = Latest(pid, u), w # 0, NEW root, PageAt(root, pid, w)
    PROVE  HashOf(pid, w) = root.hash /\ RootAsOf(root, pid, u)
<1> DEFINE s == items[pid]
<1>1. /\ Basics /\ StoreOk /\ Written /\ current_version \in Nat /\ u \in Nat
  BY VersionFacts DEF IInv
<1>2. w \in 1..u /\ w \in Nat /\ w \in 1..current_version /\ IsLast(w, pid, u)
  <2>1. w \in 0..u /\ IsLast(w, pid, u)
    BY <1>1, LatestIsLast
  <2> QED
    BY <1>1, <2>1
<1>3. Exactly(pid, w)
  <2>1. Wrote(pid, w) /\ pid \notin todo
    BY <1>2 DEF IsLast
  <2> QED
    BY <1>1, <1>2, <2>1, PageThere
<1>4. PICK n : n = UpdatesUpTo(pid, w)
  OBVIOUS
<1>5. /\ n \in 0..Len(s) /\ Whole(pid, n) /\ n # 0
  BY <1>1, <1>2, <1>3, <1>4, UpToFacts DEF Exactly
<1>6. root = PageAfter(s, n) /\ Mirrors(root, pid, s, n)
  BY <1>4 DEF PageAt, PageIs, PageAfter
<1>7. HashOf(pid, w) = root.hash
  BY <1>4, <1>6, w # 0 DEF HashOf
<1>8. HashedAfter(pid, s, n)
  BY <1>5 DEF HashInv, Hashed
<1>9. /\ root # NoNode /\ PageShape(root, Depth(pid)) /\ PageHashed(root, Depth(pid))
  BY <1>5, <1>6, <1>8 DEF Mirrors, HashedAfter
<1>10. ASSUME NEW m \in Paths(Depth(pid)), NEW x, x = Latest(pid \o m, u)
       PROVE  Links(root, m, x, pid \o m) /\ HashAt(root, m) = HashBeneath(pid, m, x)
  <2>1. PICK j \in 0..n : /\ LastGroup(pid, s, j, n, m)
                          /\ IsLast(VersionAt(s, j), pid \o m, u)
    BY <1>1, <1>2, <1>4, GroupIsLast
  <2>2. VersionAt(s, j) = x
    BY <1>1, <1>10, <2>1, LatestIsLast
  <2>3. Links(root, m, x, pid \o m)
    BY <1>6, <2>1, <2>2 DEF Mirrors
  <2>4. HashAt(root, m) = HashBeneath(pid, m, x)
    BY <1>6, <1>8, <2>1, <2>2 DEF HashedAfter
  <2> QED
    BY <2>3, <2>4
<1> QED
  BY <1>7, <1>9, <1>10 DEF RootAsOf

\* The page of every version that wrote below it is stored.
LEMMA PageAsOf ==
    ASSUME Markers, IInv, HashInv, Unwritten, todo = {},
           NEW u \in 1..current_version, NEW pid \in Pid, Latest(pid, u) # 0
    PROVE  \E root : HashAsOf(pid, u) = root.hash /\ RootAsOf(root, pid, u)
<1>1. /\ Basics /\ StoreOk /\ Written /\ current_version \in Nat /\ u \in Nat
  BY VersionFacts DEF IInv
<1>2. PICK w : w = Latest(pid, u)
  OBVIOUS
<1>3. w \in 1..current_version /\ w \in Nat /\ w # 0 /\ IsLast(w, pid, u)
  <2>1. w \in 0..u /\ IsLast(w, pid, u)
    BY <1>1, <1>2, LatestIsLast
  <2> QED
    BY <1>1, <1>2, <2>1
<1>4. Exactly(pid, w)
  <2>1. Wrote(pid, w) /\ pid \notin todo
    BY <1>3 DEF IsLast
  <2> QED
    BY <1>1, <1>3, <2>1, PageThere
<1>5. PICK root : root = LoadPage(pid, w)
  OBVIOUS
<1>6. PageAt(root, pid, w)
  <2>1. EntryOk(Entry(pid, w, root))
    BY <1>1, <1>3, <1>4, <1>5, PageLoaded
  <2> QED
    BY <2>1 DEF EntryOk, Entry
<1>7. HashOf(pid, w) = root.hash /\ RootAsOf(root, pid, u)
  BY <1>2, <1>3, <1>6, RootIsAsOf
<1> QED
  BY <1>2, <1>7 DEF HashAsOf

\* How a page is hashed from the pages below it.
PageHashFrom(u, pid, pages) ==
    IF pid \in Key THEN LeafHash(u, pid)
    ELSE NodeHash(u, pid, [i \in Nibble |-> SecondHash(u, Append(pid, i), pages)])

\* A node that has the hashes of its children has the hash of them.
LEMMA NodeHashIs ==
    ASSUME NEW u, NEW path, Touched(u, path), NEW node, HashedNode(node), NEW hashes,
           \A i \in Nibble : node.children[i].hash = hashes[i]
    PROVE  NodeHash(u, path, hashes) = node.hash
<1>1. \A i \in 1..Fanout : i - 1 \in Nibble
  BY FanoutAssumption DEF Nibble
<1>2. [i \in 1..Fanout |-> node.children[i - 1].hash] = [i \in 1..Fanout |-> hashes[i - 1]]
  BY <1>1
<1> QED
  BY <1>2 DEF NodeHash, HashedNode, ConcatenatedHash

\* A key of a page goes on for as many nibbles as the page has.
LEMMA KeyOfPage ==
    ASSUME NEW pid \in Pid, NEW k \in Key, StartsWith(k, pid)
    PROVE  /\ pid \in PagesOf(k) /\ Len(pid) + Depth(pid) <= Len(k)
           /\ Depth(pid) # 2 => Len(k) = Len(pid) + Depth(pid)
<1>1. pid \in PagesOf(k)
  BY StartsWithPage
<1>2. Depth(pid) = DepthFor(pid, k) /\ Len(pid) \in Nat
  BY <1>1, PidFacts
<1>3. Len(k) \in Nat /\ Len(pid) <= Len(k)
  BY KeyFacts DEF StartsWith
<1> QED
  BY <1>1, <1>2, <1>3 DEF DepthFor

\* The pages that are leaf nodes are those whose id is a key.
LEMMA LeafPages ==
    ASSUME NEW pid \in Pid
    PROVE  pid \in Key <=> Depth(pid) = 0
<1>1. /\ pid \in Seq(Nibble) /\ Len(pid) \in Nat /\ Depth(pid) \in 0..2
  BY PidFacts
<1>2. ASSUME pid \in Key PROVE Depth(pid) = 0
  <2>1. StartsWith(pid, pid)
    BY <1>1 DEF StartsWith
  <2> QED
    BY <1>1, <1>2, <2>1, KeyOfPage
<1>3. ASSUME Depth(pid) = 0 PROVE pid \in Key
  <2>1. PICK k \in Key : pid \in PagesOf(k)
    BY PidFacts
  <2>2. StartsWith(k, pid)
    BY <2>1, StartsWithPage
  <2>3. Len(k) = Len(pid) /\ k \in Seq(Nibble)
    BY <1>1, <1>3, <2>2, KeyOfPage, KeyFacts
  <2>4. \A i \in 1..Len(k) : k[i] = pid[i]
    BY <2>2, <2>3 DEF StartsWith
  <2>5. k = pid
    BY <1>1, <2>3, <2>4, SeqEqual
  <2> QED
    BY <2>5
<1> QED
  BY <1>2, <1>3

\* One more nibble, and two.
LEMMA OneNibble ==
    ASSUME NEW pid \in Pid, Depth(pid) = 1, NEW i \in Nibble
    PROVE  \E m \in Paths(1) : Len(m) = 1 /\ m[1] = i /\ Append(pid, i) = pid \o m
<1> DEFINE m == [x \in 1..1 |-> i]
<1>1. m \in Paths(Depth(pid)) /\ m \in Paths(1)
  BY DEF Paths
<1>2. m[1] = i /\ Len(m) = 1
  BY <1>1, PathsAreSequences
<1> HIDE DEF m
<1>3. pid \in Seq(Nibble) /\ Len(pid) \in Nat
  BY PidFacts
<1>4. /\ pid \o m \in Seq(Nibble) /\ Len(pid \o m) = Len(pid) + 1
      /\ \A x \in 1..Len(pid) : (pid \o m)[x] = pid[x]
      /\ (pid \o m)[Len(pid) + 1] = m[1]
  BY <1>1, PathFacts
<1>5. /\ Append(pid, i) \in Seq(Nibble) /\ Len(Append(pid, i)) = Len(pid) + 1
      /\ \A x \in 1..Len(pid) : Append(pid, i)[x] = pid[x]
      /\ Append(pid, i)[Len(pid) + 1] = i
  BY <1>3, AppendProperties
<1>6. \A x \in 1..(Len(pid) + 1) : x \in 1..Len(pid) \/ x = Len(pid) + 1
  BY <1>3
<1>7. \A x \in 1..(Len(pid) + 1) : (pid \o m)[x] = Append(pid, i)[x]
  BY <1>2, <1>4, <1>5, <1>6
<1>8. pid \o m = Append(pid, i)
  BY <1>4, <1>5, <1>7, SeqEqual
<1> QED
  BY <1>1, <1>2, <1>8

LEMMA TwoNibbles ==
    ASSUME NEW pid \in Pid, Depth(pid) = 2, NEW i \in Nibble, NEW j \in Nibble
    PROVE  \E m \in Paths(2) : /\ Len(m) = 2 /\ m[1] = i /\ m[2] = j
                               /\ Append(Append(pid, i), j) = pid \o m
<1> DEFINE m == [x \in 1..2 |-> IF x = 1 THEN i ELSE j]
           one == Append(pid, i)
           two == Append(one, j)
<1>1. m \in Paths(Depth(pid)) /\ m \in Paths(2)
  BY DEF Paths
<1>2. m[1] = i /\ m[2] = j /\ Len(m) = 2
  BY <1>1, PathsAreSequences
<1> HIDE DEF m
<1>3. pid \in Seq(Nibble) /\ Len(pid) \in Nat
  BY PidFacts
<1>4. /\ pid \o m \in Seq(Nibble) /\ Len(pid \o m) = Len(pid) + 2
      /\ \A x \in 1..Len(pid) : (pid \o m)[x] = pid[x]
      /\ (pid \o m)[Len(pid) + 1] = m[1] /\ (pid \o m)[Len(pid) + 2] = m[2]
  BY <1>1, PathFacts
<1>5. /\ one \in Seq(Nibble) /\ Len(one) = Len(pid) + 1
      /\ \A x \in 1..Len(pid) : one[x] = pid[x]
      /\ one[Len(pid) + 1] = i
  BY <1>3, AppendProperties
<1> HIDE DEF one
<1>6. /\ two \in Seq(Nibble) /\ Len(two) = Len(one) + 1
      /\ \A x \in 1..Len(one) : two[x] = one[x]
      /\ two[Len(one) + 1] = j
  BY <1>5, AppendProperties
<1> HIDE DEF two
<1>7. /\ Len(two) = Len(pid) + 2
      /\ \A x \in 1..Len(pid) : two[x] = pid[x]
      /\ two[Len(pid) + 1] = i /\ two[Len(pid) + 2] = j
  BY <1>3, <1>5, <1>6
<1>8. \A x \in 1..(Len(pid) + 2) :
          x \in 1..Len(pid) \/ x = Len(pid) + 1 \/ x = Len(pid) + 2
  BY <1>3
<1>9. \A x \in 1..(Len(pid) + 2) : (pid \o m)[x] = two[x]
  BY <1>2, <1>4, <1>7, <1>8
<1>10. pid \o m = two
  BY <1>4, <1>6, <1>7, <1>9, SeqEqual
<1> QED
  BY <1>1, <1>2, <1>10 DEF one, two

\* A key below a page and a nibble of it is below the page.
LEMMA BelowNibble ==
    ASSUME NEW pid \in Pid, NEW i \in Nibble, NEW k \in Key
    PROVE  StartsWith(k, Append(pid, i)) <=>
               StartsWith(k, pid) /\ Len(pid) < Len(k) /\ k[Len(pid) + 1] = i
<1>1. pid \in Seq(Nibble) /\ Len(pid) \in Nat /\ Len(k) \in Nat
  BY PidFacts, KeyFacts
<1>2. /\ Len(Append(pid, i)) = Len(pid) + 1
      /\ \A x \in 1..Len(pid) : Append(pid, i)[x] = pid[x]
      /\ Append(pid, i)[Len(pid) + 1] = i
  BY <1>1, AppendProperties
<1>3. /\ \A x \in 1..(Len(pid) + 1) : x \in 1..Len(pid) \/ x = Len(pid) + 1
      /\ \A x \in 1..Len(pid) : x \in 1..(Len(pid) + 1)
      /\ Len(pid) + 1 \in 1..(Len(pid) + 1)
      /\ Len(pid) + 1 <= Len(k) <=> Len(pid) <= Len(k) /\ Len(pid) < Len(k)
  BY <1>1
<1> QED
  BY <1>2, <1>3 DEF StartsWith

\* A page that is a leaf node.
LEMMA NoLevelHash ==
    ASSUME Basics, NEW u \in 1..current_version, NEW pid \in Pid, Depth(pid) = 0,
           NEW root, RootAsOf(root, pid, u), NEW pages
    PROVE  root.hash = PageHashFrom(u, pid, pages)
<1> DEFINE m == [x \in 1..0 |-> 0]
<1>1. m \in Paths(Depth(pid)) /\ m \in Paths(0)
  BY DEF Paths
<1>2. Len(m) = 0
  BY <1>1, PathsAreSequences
<1> HIDE DEF m
<1>3. pid \o m = pid
  <2>1. pid \in Seq(Nibble) /\ Len(pid) \in Nat
    BY PidFacts
  <2>2. /\ pid \o m \in Seq(Nibble) /\ Len(pid \o m) = Len(pid)
        /\ \A i \in 1..Len(pid) : (pid \o m)[i] = pid[i]
    BY <1>1, <2>1, PathFacts
  <2> QED
    BY <2>1, <2>2, SeqEqual
<1>4. PICK x : x = Latest(pid, u)
  OBVIOUS
<1>5. HashAt(root, m) = HashBeneath(pid, m, x)
  BY <1>1, <1>3, <1>4 DEF RootAsOf
<1>6. root.hash = IF x = 0 THEN EmptyString ELSE HashOfLeaf(value_store[x][pid])
  BY <1>2, <1>3, <1>5 DEF RootAsOf, HashAt, HashBeneath
<1>7. pid \in Key /\ IsLast(x, pid, u)
  BY <1>4, LeafPages, LatestIsLast, VersionFacts
<1> QED
  BY <1>6, <1>7, LeafHashIs DEF PageHashFrom

\* A page of one level above its leaf nodes.
LEMMA OneLevelHash ==
    ASSUME Basics, NEW u \in 1..current_version, NEW pid \in Pid, Depth(pid) = 1,
           Touched(u, pid), NEW root, RootAsOf(root, pid, u), NEW pages
    PROVE  root.hash = PageHashFrom(u, pid, pages)
<1>1. /\ pid \notin Key /\ pid \in Seq(Nibble) /\ Len(pid) \in Nat
      /\ u \in Nat
  BY LeafPages, PidFacts, VersionFacts
<1>2. /\ HashedNode(root)
      /\ \A i \in Nibble : root.children[i].hash =
            IF HasChild(root, i) THEN root.children[i].node.hash ELSE EmptyString
  BY DEF RootAsOf, PageHashed
<1>3. ASSUME NEW i \in Nibble
      PROVE  root.children[i].hash = SecondHash(u, Append(pid, i), pages)
  <2>1. PICK m \in Paths(1) : Len(m) = 1 /\ m[1] = i /\ Append(pid, i) = pid \o m
    BY OneNibble
  <2>2. PICK path : path = Append(pid, i)
    OBVIOUS
  <2>3. path \in Seq(Nibble) /\ Len(path) = Len(pid) + 1
    BY <1>1, <2>2, AppendProperties
  <2>4. PICK x : x = Latest(path, u)
    OBVIOUS
  <2>5. HashAt(root, m) = HashBeneath(pid, m, x)
    BY <2>1, <2>2, <2>4 DEF RootAsOf
  <2>6. root.children[i].hash = IF x = 0 THEN EmptyString ELSE HashOfLeaf(value_store[x][path])
    BY <1>2, <2>1, <2>2, <2>5 DEF RootAsOf, HashAt, HashBeneath
  <2>7. IsLast(x, path, u)
    BY <1>1, <2>4, LatestIsLast
  <2>8. CASE path \in Key
    BY <2>2, <2>6, <2>7, <2>8, LeafHashIs DEF SecondHash
  <2>9. CASE path \notin Key
    <3>1. ~Touched(u, path)
      <4> SUFFICES ASSUME NEW k \in Key, IsPrefix(path, k) PROVE FALSE
        BY DEF Touched
      <4>1. StartsWith(k, path)
        BY <2>3, PrefixStarts
      <4>2. StartsWith(k, pid)
        BY <2>2, <4>1, BelowNibble
      <4>3. Len(k) = Len(path) /\ k \in Seq(Nibble)
        BY <2>3, <4>2, KeyOfPage, KeyFacts
      <4>4. \A n \in 1..Len(k) : k[n] = path[n]
        BY <4>1, <4>3 DEF StartsWith
      <4>5. k = path
        BY <2>3, <4>3, <4>4, SeqEqual
      <4> QED
        BY <2>9, <4>5
    <3>2. x = 0
      BY <2>3, <2>4, <3>1, TouchedIsWritten
    <3> QED
      BY <2>2, <2>6, <2>9, <3>1, <3>2 DEF SecondHash, NodeHash
  <2> QED
    BY <2>8, <2>9
<1> DEFINE hashes == [i \in Nibble |-> SecondHash(u, Append(pid, i), pages)]
<1>4. \A i \in Nibble : root.children[i].hash = hashes[i]
  BY <1>3
<1> HIDE DEF hashes
<1>5. NodeHash(u, pid, hashes) = root.hash
  BY <1>2, <1>4, NodeHashIs
<1> QED
  BY <1>1, <1>5 DEF PageHashFrom, hashes

\* What a node of the second level has, a nibble at a time.
LEMMA SecondNibble ==
    ASSUME Basics, NEW u \in 1..current_version, NEW pid \in Pid, Depth(pid) = 2,
           NEW root, RootAsOf(root, pid, u), NEW i \in Nibble, NEW j \in Nibble
    PROVE  LET path == Append(Append(pid, i), j)
               x == Latest(path, u)
               child == root.children[i].node
           IN  /\ path \in Seq(Nibble)
               /\ ~HasChild(root, i) => x = 0
               /\ HasChild(root, i) => /\ child.children[j].version = x
                                       /\ child.children[j].hash = HashOf(path, x)
<1>1. PICK m \in Paths(2) : /\ Len(m) = 2 /\ m[1] = i /\ m[2] = j
                            /\ Append(Append(pid, i), j) = pid \o m
  BY TwoNibbles
<1>2. PICK path : path = Append(Append(pid, i), j)
  OBVIOUS
<1>3. PICK x : x = Latest(path, u)
  OBVIOUS
<1>4. path \in Seq(Nibble)
  BY <1>1, <1>2, PathFacts
<1>5. /\ root # NoNode
      /\ Links(root, m, x, path) /\ HashAt(root, m) = HashBeneath(pid, m, x)
  BY <1>1, <1>2, <1>3 DEF RootAsOf
<1>6. HashBeneath(pid, m, x) = HashOf(path, x)
  BY <1>1, <1>2 DEF HashBeneath, HashOf
<1>7. ~HasChild(root, i) => x = 0
  BY <1>1, <1>5 DEF Links
<1>8. HasChild(root, i) => /\ root.children[i].node.children[j].version = x
                           /\ root.children[i].node.children[j].hash = HashOf(path, x)
  BY <1>1, <1>5, <1>6 DEF Links, HashAt
<1> QED
  BY <1>2, <1>3, <1>4, <1>7, <1>8

\* The root has a child where a key with these nibbles was written.
LEMMA ChildTouched ==
    ASSUME Basics, NEW u \in 1..current_version, NEW pid \in Pid, Depth(pid) = 2,
           NEW root, RootAsOf(root, pid, u), NEW i \in Nibble
    PROVE  HasChild(root, i) <=> Touched(u, Append(pid, i))
<1>1. /\ pid \in Seq(Nibble) /\ Len(pid) \in Nat /\ Append(pid, i) \in Seq(Nibble)
  BY PidFacts, AppendProperties
<1>2. ASSUME Touched(u, Append(pid, i)) PROVE HasChild(root, i)
  <2>1. PICK k \in Key : Put(u, k) /\ IsPrefix(Append(pid, i), k)
    BY <1>2 DEF Touched
  <2>2. /\ StartsWith(k, pid) /\ Len(pid) < Len(k) /\ k[Len(pid) + 1] = i
    BY <1>1, <2>1, PrefixStarts, BelowNibble
  <2>3. /\ pid \in PagesOf(k) /\ Len(pid) + 2 <= Len(k)
        /\ Len(k) \in Nat /\ \A n \in 1..Len(k) : k[n] \in Nibble
    BY <2>2, KeyOfPage, KeyFacts
  <2>4. PICK j \in Nibble : j = k[Len(pid) + 2]
    BY <1>1, <2>3
  <2>5. PICK path : path = Append(Append(pid, i), j)
    OBVIOUS
  <2>6. StartsWith(k, path)
    <3>1. PICK one : one = Append(pid, i)
      OBVIOUS
    <3>2. /\ one \in Seq(Nibble) /\ Len(one) = Len(pid) + 1 /\ StartsWith(k, one)
      BY <1>1, <2>2, <3>1, BelowNibble, AppendProperties
    <3>3. /\ Len(path) = Len(one) + 1 /\ path[Len(one) + 1] = j
          /\ \A n \in 1..Len(one) : path[n] = one[n]
      BY <2>5, <3>1, <3>2, AppendProperties
    <3>4. \A n \in 1..(Len(one) + 1) : n \in 1..Len(one) \/ n = Len(one) + 1
      BY <1>1, <3>2
    <3>5. k[Len(one) + 1] = j /\ Len(path) <= Len(k)
      BY <1>1, <2>3, <2>4, <3>2, <3>3
    <3> QED
      BY <3>2, <3>3, <3>4, <3>5 DEF StartsWith
  <2>7. path \in Seq(Nibble)
    BY <2>5, SecondNibble
  <2>8. Touched(u, path)
    BY <2>1, <2>6, <2>7, PrefixStarts DEF Touched
  <2>9. Latest(path, u) # 0
    BY <2>7, <2>8, TouchedIsWritten
  <2> QED
    BY <2>5, <2>9, SecondNibble
<1>3. ASSUME HasChild(root, i) PROVE Touched(u, Append(pid, i))
  <2>1. SecondHashed(root.children[i].node)
    BY <1>3 DEF RootAsOf, PageHashed
  <2>2. PICK j \in Nibble : root.children[i].node.children[j].version # 0
    BY <2>1 DEF SecondHashed
  <2>3. PICK path : path = Append(Append(pid, i), j)
    OBVIOUS
  <2>4. path \in Seq(Nibble) /\ Latest(path, u) # 0
    BY <1>3, <2>2, <2>3, SecondNibble
  <2>5. Touched(u, path)
    BY <2>4, TouchedIsWritten
  <2>6. PICK k \in Key : Put(u, k) /\ StartsWith(k, path)
    BY <2>4, <2>5, PrefixStarts DEF Touched
  <2>7. StartsWith(k, Append(pid, i))
    <3>1. PICK one : one = Append(pid, i)
      OBVIOUS
    <3>2. one \in Seq(Nibble) /\ Len(one) \in Nat
      BY <1>1, <3>1, LenProperties
    <3>3. Len(path) = Len(one) + 1 /\ \A n \in 1..Len(one) : path[n] = one[n]
      BY <2>3, <3>1, <3>2, AppendProperties
    <3>4. Len(k) \in Nat /\ \A n \in 1..Len(one) : n \in 1..Len(path)
      BY <3>2, <3>3, KeyFacts
    <3> QED
      BY <2>6, <3>1, <3>2, <3>3, <3>4 DEF StartsWith
  <2> QED
    BY <1>1, <2>6, <2>7, PrefixStarts DEF Touched
<1> QED
  BY <1>2, <1>3

\* A page of two levels, above other pages.
LEMMA TwoLevelHash ==
    ASSUME Basics, NEW u \in 1..current_version, NEW pid \in Pid, Depth(pid) = 2,
           Touched(u, pid), NEW root, RootAsOf(root, pid, u),
           NEW pages, \A p \in Pid : pages[p] = HashAsOf(p, u)
    PROVE  root.hash = PageHashFrom(u, pid, pages)
<1>1. /\ pid \notin Key /\ pid \in Seq(Nibble) /\ Len(pid) \in Nat
  BY LeafPages, PidFacts
<1>2. /\ HashedNode(root)
      /\ \A i \in Nibble : root.children[i].hash =
            IF HasChild(root, i) THEN root.children[i].node.hash ELSE EmptyString
      /\ \A i \in Nibble : HasChild(root, i) => HashedNode(root.children[i].node)
  BY DEF RootAsOf, PageHashed, SecondHashed
<1>3. ASSUME NEW i \in Nibble
      PROVE  root.children[i].hash = SecondHash(u, Append(pid, i), pages)
  <2>1. PICK one : one = Append(pid, i)
    OBVIOUS
  <2>2. one \in Seq(Nibble) /\ Len(one) = Len(pid) + 1
    BY <1>1, <2>1, AppendProperties
  <2>3. one \notin Key
    <3> SUFFICES ASSUME one \in Key PROVE FALSE
      OBVIOUS
    <3>1. StartsWith(one, one)
      BY <1>1, <2>2 DEF StartsWith
    <3>2. StartsWith(one, pid)
      BY <2>1, <3>1, BelowNibble
    <3>3. Len(pid) + 2 <= Len(one)
      BY <3>2, KeyOfPage
    <3> QED
      BY <1>1, <2>2, <3>3
  <2>4. HasChild(root, i) <=> Touched(u, one)
    BY <2>1, ChildTouched
  <2> DEFINE hashes == [j \in Nibble |->
                 IF Append(one, j) \in Pid THEN pages[Append(one, j)] ELSE EmptyString]
  <2>5. SecondHash(u, one, pages) = NodeHash(u, one, hashes)
    BY <2>3 DEF SecondHash
  <2>6. CASE ~HasChild(root, i)
    BY <1>2, <2>1, <2>4, <2>5, <2>6 DEF NodeHash
  <2>7. CASE HasChild(root, i)
    <3>1. PICK child : child = root.children[i].node
      OBVIOUS
    <3>2. ASSUME NEW j \in Nibble PROVE child.children[j].hash = hashes[j]
      <4>1. PICK path : path = Append(one, j)
        OBVIOUS
      <4>2. child.children[j].hash = HashAsOf(path, u)
        BY <2>1, <2>7, <3>1, <4>1, SecondNibble DEF HashAsOf
      <4>3. path \notin Pid => HashAsOf(path, u) = EmptyString
        BY DEF HashAsOf, HashOf
      <4> QED
        BY <4>1, <4>2, <4>3
    <3> HIDE DEF hashes
    <3>3. HashedNode(child) /\ Touched(u, one)
      BY <1>2, <2>4, <2>7, <3>1
    <3>4. NodeHash(u, one, hashes) = child.hash
      BY <3>2, <3>3, NodeHashIs
    <3> QED
      BY <1>2, <2>1, <2>5, <2>7, <3>1, <3>4
  <2> QED
    BY <2>6, <2>7
<1> DEFINE hashes == [i \in Nibble |-> SecondHash(u, Append(pid, i), pages)]
<1>4. \A i \in Nibble : root.children[i].hash = hashes[i]
  BY <1>3
<1> HIDE DEF hashes
<1>5. NodeHash(u, pid, hashes) = root.hash
  BY <1>2, <1>4, NodeHashIs
<1> QED
  BY <1>1, <1>5 DEF PageHashFrom, hashes

\* The hashes of the pages are hashed from each other as the reference says.
LEMMA PageHashIs ==
    ASSUME Markers, IInv, HashInv, Unwritten, todo = {},
           NEW u \in 1..current_version, NEW pid \in Pid,
           NEW pages, \A p \in Pid : pages[p] = HashAsOf(p, u)
    PROVE  HashAsOf(pid, u) = PageHashFrom(u, pid, pages)
<1>1. Basics /\ u \in Nat /\ pid \in Seq(Nibble) /\ Depth(pid) \in 0..2
  BY VersionFacts, PidFacts DEF IInv
<1>2. PICK w : w = Latest(pid, u)
  OBVIOUS
<1>3. IsLast(w, pid, u)
  BY <1>1, <1>2, LatestIsLast
<1>4. CASE w = 0
  <2>1. HashAsOf(pid, u) = EmptyString
    BY <1>2, <1>4 DEF HashAsOf, HashOf
  <2>2. pid \in Key => LeafHash(u, pid) = EmptyString
    BY <1>1, <1>3, <1>4, LeafHashIs
  <2>3. ~Touched(u, pid)
    BY <1>1, <1>2, <1>4, TouchedIsWritten
  <2> QED
    BY <2>1, <2>2, <2>3 DEF PageHashFrom, NodeHash
<1>5. CASE w # 0
  <2>1. PICK root : HashAsOf(pid, u) = root.hash /\ RootAsOf(root, pid, u)
    BY <1>2, <1>5, PageAsOf
  <2>2. Touched(u, pid)
    BY <1>1, <1>2, <1>5, TouchedIsWritten
  <2>3. root.hash = PageHashFrom(u, pid, pages)
    <3>1. CASE Depth(pid) = 0
      BY <1>1, <2>1, <3>1, NoLevelHash
    <3>2. CASE Depth(pid) = 1
      BY <1>1, <2>1, <2>2, <3>2, OneLevelHash
    <3>3. CASE Depth(pid) = 2
      BY <1>1, <2>1, <2>2, <3>3, TwoLevelHash
    <3> QED
      BY <1>1, <3>1, <3>2, <3>3
  <2> QED
    BY <2>1, <2>3
<1> QED
  BY <1>4, <1>5

\* The hash of a page depends on pages with longer ids only.
LEMMA FromLongerPages ==
    ASSUME NEW u, NEW pid \in Pid, NEW f, NEW g,
           \A p \in Pid : Len(p) > Len(pid) => f[p] = g[p]
    PROVE  PageHashFrom(u, pid, f) = PageHashFrom(u, pid, g)
<1>1. pid \in Seq(Nibble) /\ Len(pid) \in Nat
  BY PidFacts
<1>2. ASSUME NEW i \in Nibble
      PROVE  SecondHash(u, Append(pid, i), f) = SecondHash(u, Append(pid, i), g)
  <2>1. PICK one : one = Append(pid, i)
    OBVIOUS
  <2>2. one \in Seq(Nibble) /\ Len(one) = Len(pid) + 1
    BY <1>1, <2>1, AppendProperties
  <2>3. ASSUME NEW j \in Nibble, Append(one, j) \in Pid
        PROVE  f[Append(one, j)] = g[Append(one, j)]
    <3>1. Len(Append(one, j)) = Len(one) + 1
      BY <2>2, AppendProperties
    <3>2. Len(Append(one, j)) > Len(pid)
      BY <1>1, <2>2, <3>1
    <3> QED
      BY <2>3, <3>2
  <2>4. [j \in Nibble |-> IF Append(one, j) \in Pid THEN f[Append(one, j)] ELSE EmptyString]
        = [j \in Nibble |-> IF Append(one, j) \in Pid THEN g[Append(one, j)] ELSE EmptyString]
    BY <2>3
  <2> QED
    BY <2>1, <2>4 DEF SecondHash
<1>3. [i \in Nibble |-> SecondHash(u, Append(pid, i), f)]
      = [i \in Nibble |-> SecondHash(u, Append(pid, i), g)]
  BY <1>2
<1> QED
  BY <1>3 DEF PageHashFrom

\* No key is longer than some number: any finite set of keys.
KeysBounded == \E n \in Nat : \A k \in Key : Len(k) <= n

LEMMA IdsBounded ==
    ASSUME KeysBounded
    PROVE  \E n \in Nat : \A p \in Pid : Len(p) \in 0..n
<1>1. PICK n \in Nat : \A k \in Key : Len(k) <= n
  BY DEF KeysBounded
<1>2. \A p \in Pid : Len(p) \in 0..n
  <2> TAKE p \in Pid
  <2>1. PICK k \in Key : p \in PagesOf(k)
    BY PidFacts
  <2>2. Len(p) \in 0..Len(k) /\ Len(k) <= n /\ Len(k) \in Nat
    BY <1>1, <2>1, PageOfKey, KeyFacts
  <2> QED
    BY <2>2
<1> QED
  BY <1>2

\* So the hashes of the pages are determined, from the longest ids on.
LEMMA OneHash ==
    ASSUME KeysBounded, NEW u, NEW f, NEW g,
           \A p \in Pid : f[p] = PageHashFrom(u, p, f),
           \A p \in Pid : g[p] = PageHashFrom(u, p, g)
    PROVE  \A p \in Pid : f[p] = g[p]
<1> SUFFICES ASSUME NEW q \in Pid, f[q] # g[q] PROVE FALSE
  OBVIOUS
<1>1. PICK n \in Nat : \A p \in Pid : Len(p) \in 0..n
  BY IdsBounded
<1> DEFINE T == {x \in 0..n : \E p \in Pid : f[p] # g[p] /\ Len(p) = x}
<1>2. T \in SUBSET (0..n) /\ T # {}
  <2>1. Len(q) \in T
    BY <1>1
  <2> QED
    BY <2>1
<1>3. PICK x \in T : \A y \in T : y <= x
  <2> HIDE DEF T
  <2> QED
    BY <1>2, GreatestElement
<1>4. PICK pid \in Pid : f[pid] # g[pid] /\ Len(pid) = x
  BY <1>3
<1>5. ASSUME NEW p \in Pid, Len(p) > Len(pid) PROVE f[p] = g[p]
  <2>1. Len(p) \in 0..n /\ Len(p) \notin T
    BY <1>1, <1>3, <1>4, <1>5
  <2> QED
    BY <2>1
<1>6. PageHashFrom(u, pid, f) = PageHashFrom(u, pid, g)
  BY <1>5, FromLongerPages
<1> QED
  BY <1>4, <1>6

\* The root page is at every version.
LEMMA RootPageHash ==
    ASSUME Markers, MerkleInv, Unwritten, todo = {}, NEW u \in 1..current_version
    PROVE  /\ <<>> \in Pid /\ Latest(<<>>, u) = u
           /\ GetRootHash(pagekeys, u) = HashAsOf(<<>>, u)
<1>1. /\ IInv /\ HashInv /\ Basics /\ StoreOk /\ Written /\ CacheOk(pagekeys)
      /\ todo = {} /\ current_version \in Nat /\ u \in Nat
  BY VersionFacts DEF MerkleInv, IInv, CacheInv
<1>2. PICK top : top = <<>>
  OBVIOUS
<1>3. PICK k \in DOMAIN value_store[u] : k \in Key
  BY <1>1, VersionFacts
<1>4. top \in Pid /\ StartsWith(k, top)
  <2>1. top \in Seq(Nibble) /\ Len(top) = 0 /\ Len(k) \in Nat
    BY <1>2, <1>3, EmptySeq, KeyFacts
  <2>2. top \in PagesOf(k)
    <3>1. Len(top) \in 0..Len(k) /\ Len(top) % 2 = 0 /\ \A j \in 1..Len(top) : top[j] = k[j]
      BY <2>1
    <3> QED
      BY <1>3, <2>1, <3>1, PageOfKey
  <2> QED
    BY <1>3, <2>1, <2>2 DEF Pid, StartsWith
<1>5. Wrote(top, u)
  BY <1>3, <1>4 DEF Wrote
<1>6. Latest(top, u) = u
  <2>1. IsLast(u, top, u)
    BY <1>1, <1>5 DEF IsLast
  <2> QED
    BY <1>1, <2>1, LatestIsLast
<1>7. PICK root : root = GetPage(pagekeys, top, u).root
  OBVIOUS
<1>8. PageAt(root, top, u)
  <2>1. Exactly(top, u)
    BY <1>1, <1>4, <1>5, PageThere
  <2> QED
    BY <1>1, <1>4, <1>7, <2>1, GotPage
<1>9. GetRootHash(pagekeys, u) = HashAsOf(top, u)
  <2>1. root = PageAfter(items[top], UpdatesUpTo(top, u))
    BY <1>8 DEF PageAt, PageIs, PageAfter
  <2>2. HashOf(top, u) = root.hash
    BY <1>1, <1>4, <2>1 DEF HashOf
  <2> QED
    BY <1>2, <1>6, <1>7, <2>2 DEF GetRootHash, HashAsOf
<1> QED
  BY <1>2, <1>4, <1>6, <1>9

LEMMA RootsHashed ==
    ASSUME Markers, KeysBounded, MerkleInv
    PROVE  RootHashRight
<1> SUFFICES ASSUME Unwritten, Idle, NEW u \in 1..current_version
             PROVE  GetRootHash(pagekeys, u) = ReferenceHash(u)
  BY DEF RootHashRight, HashesRight
<1>1. IInv /\ HashInv /\ todo = {}
  BY DEF MerkleInv, Idle
<1>2. PICK top : top = <<>>
  OBVIOUS
<1>3. top \in Pid
  BY <1>1, <1>2, RootPageHash
<1>4. GetRootHash(pagekeys, u) = HashAsOf(top, u)
  BY <1>1, <1>2, RootPageHash
<1> DEFINE Body(f) == [pid \in Pid |-> PageHashFrom(u, pid, f)]
           r == CHOOSE f : f = Body(f)
           g == [pid \in Pid |-> HashAsOf(pid, u)]
<1>5. ReferenceHash(u) = r[top]
  BY <1>2 DEF ReferenceHash, PageHashFrom
<1>6. \A p \in Pid : g[p] = HashAsOf(p, u)
  OBVIOUS
<1>7. \A p \in Pid : g[p] = PageHashFrom(u, p, g)
  <2> HIDE DEF g
  <2> QED
    BY <1>1, <1>6, PageHashIs
<1>8. g = Body(g)
  <2>1. g = [pid \in Pid |-> g[pid]]
    OBVIOUS
  <2> HIDE DEF g
  <2> QED
    BY <1>7, <2>1
<1> HIDE DEF g
<1>9. r = Body(r)
  BY <1>8
<1> HIDE DEF r
<1>10. \A p \in Pid : r[p] = PageHashFrom(u, p, r)
  BY <1>9
<1>11. r[top] = g[top]
  BY <1>3, <1>7, <1>10, OneHash
<1> QED
  BY <1>3, <1>4, <1>5, <1>6, <1>11

\* The root hash of every version is the hash of what the version holds: of the
\* last value of each of its keys, by the nibbles of the keys, whatever the order
\* in which commits updated the pages, the updates that wrote a value again or
\* deleted it, the pages that stayed at older versions, and the pages that the
\* cache dropped and loaded again.
THEOREM RootHashCorrect == Markers /\ KeysBounded => (Spec => []RootHashRight)
<1> SUFFICES ASSUME Markers, KeysBounded PROVE Spec => []RootHashRight
  OBVIOUS
<1>1. MerkleInv => RootHashRight
  BY RootsHashed
<1> QED
  BY <1>1, MerkleHolds, PTL

-----------------------------------------------------------------------------
(* The hashes of a proof, from that of the value up *)

LEMMA EmptyString1 == IsSeq(<<>>) /\ Len(<<>>) = 0
  BY EmptySeq DEF IsSeq

\* Strings one after the other.
LEMMA FlattenSteps ==
    ASSUME NEW N \in Nat \ {0}, NEW S, NEW F \in [1..N -> S], \A i \in 1..N : IsSeq(F[i])
    PROVE  \E w : /\ w[0] = <<>>
                  /\ \A n \in 1..N : w[n] = w[n - 1] \o F[n]
                  /\ FlattenSeq(F) = w[N]
<1> DEFINE loop == [kind |-> "strings", start |-> <<>>, over |-> F]
           Body(f) == [i \in 1..N |-> IF i = 1 THEN F[i] ELSE f[i - 1] \o F[i]]
           r == CHOOSE f : f = Body(f)
<1>1. Len(F) = N
  OBVIOUS
<1>2. FlattenSeq(F) = r[N]
  <2>1. Len(F) # 0
    BY <1>1
  <2> QED
    BY <1>1, <2>1 DEF FlattenSeq
<1>3. PICK w : /\ w = [n \in 0..N |-> w[n]]
               /\ w[0] = loop.start
               /\ \A n \in 1..N : w[n] = Round(loop, w[n - 1], n)
  <2> HIDE DEF loop
  <2>1. N \in Nat
    OBVIOUS
  <2> QED
    BY ONLY <2>1, LoopExists, Zenon
<1>4. w[0] = <<>> /\ \A n \in 1..N : w[n] = w[n - 1] \o F[n]
  BY <1>3 DEF Round
<1>5. w[1] = F[1]
  <2>1. w[1] = <<>> \o F[1] /\ IsSeq(F[1])
    <3>1. 1 \in 1..N /\ 1 - 1 = 0
      OBVIOUS
    <3> QED
      BY <1>4, <3>1
  <2>2. F[1] \in Seq(Range(F[1]))
    BY <2>1 DEF IsSeq
  <2> QED
    BY <2>1, <2>2
<1> DEFINE g == [i \in 1..N |-> w[i]]
<1>6. \A i \in 1..N : g[i] = IF i = 1 THEN F[i] ELSE g[i - 1] \o F[i]
  <2> TAKE i \in 1..N
  <2>1. i # 1 => i - 1 \in 1..N
    OBVIOUS
  <2> QED
    BY <1>4, <1>5, <2>1
<1>7. g = Body(g)
  <2>1. g = [i \in 1..N |-> g[i]]
    OBVIOUS
  <2> HIDE DEF g
  <2> QED
    BY <1>6, <2>1
<1> HIDE DEF g
<1>8. r = Body(r)
  BY <1>7
<1> HIDE DEF r
<1>9. \A i \in 1..N : r[i] = IF i = 1 THEN F[i] ELSE r[i - 1] \o F[i]
  BY <1>8
<1> DEFINE T == {n \in 0..N : n # 0 => r[n] = w[n]}
<1>10. 0 \in T
  OBVIOUS
<1>11. ASSUME NEW n \in 0..N, n \in T, n < N PROVE n + 1 \in T
  <2>1. PICK i \in 1..N : i = n + 1 /\ i - 1 = n
    BY <1>11
  <2>2. CASE n = 0
    BY <1>5, <1>9, <2>1, <2>2
  <2>3. CASE n # 0
    <3>1. r[i] = r[i - 1] \o F[i] /\ w[i] = w[i - 1] \o F[i]
      <4>1. i # 1
        BY <2>1, <2>3
      <4> QED
        BY <1>4, <1>9, <4>1
    <3>2. r[n] = w[n]
      BY <1>11, <2>3
    <3>3. r[i] = w[i]
      BY <2>1, <3>1, <3>2
    <3> QED
      BY <2>1, <3>3
  <2> QED
    BY <2>2, <2>3
<1>12. N \in T
  <2> HIDE DEF T
  <2> QED
    BY <1>10, <1>11, CountUp
<1>13. r[N] = w[N]
  BY <1>12
<1> QED
  BY <1>2, <1>4, <1>13

\* Another string of one token in one place: the whole is another one.
LEMMA FlattenDiffer ==
    ASSUME NEW N \in Nat \ {0}, NEW S, NEW F \in [1..N -> S], NEW G \in [1..N -> S],
           \A i \in 1..N : IsSeq(F[i]) /\ IsSeq(G[i]),
           NEW j \in 1..N, \A i \in 1..N : i # j => F[i] = G[i],
           Len(F[j]) = 1, Len(G[j]) = 1, F[j][1] # G[j][1]
    PROVE  FlattenSeq(F) # FlattenSeq(G)
<1>1. PICK w : /\ w[0] = <<>>
               /\ \A n \in 1..N : w[n] = w[n - 1] \o F[n]
               /\ FlattenSeq(F) = w[N]
  <2>1. \A i \in 1..N : IsSeq(F[i])
    OBVIOUS
  <2> QED
    BY ONLY N \in Nat \ {0}, F \in [1..N -> S], <2>1, FlattenSteps
<1>2. PICK v : /\ v[0] = <<>>
               /\ \A n \in 1..N : v[n] = v[n - 1] \o G[n]
               /\ FlattenSeq(G) = v[N]
  <2>1. \A i \in 1..N : IsSeq(G[i])
    OBVIOUS
  <2> QED
    BY ONLY N \in Nat \ {0}, G \in [1..N -> S], <2>1, FlattenSteps
<1> DEFINE Differ(n) == \E p \in Nat \ {0} :
                           p <= Len(w[n]) /\ p <= Len(v[n]) /\ w[n][p] # v[n][p]
           Good(n) == /\ IsSeq(w[n]) /\ IsSeq(v[n])
                      /\ n < j => w[n] = v[n]
                      /\ n >= j => Differ(n)
           T == {n \in 0..N : Good(n)}
<1>3. 0 \in T
  BY <1>1, <1>2, EmptyString1
<1>4. ASSUME NEW n \in 0..N, n \in T, n < N PROVE n + 1 \in T
  <2>1. n + 1 \in 1..N /\ (n + 1) - 1 = n
    BY <1>4
  <2>2. PICK f : f = F[n + 1]
    OBVIOUS
  <2>3. PICK g : g = G[n + 1]
    OBVIOUS
  <2>4. PICK a : a = w[n]
    OBVIOUS
  <2>5. PICK b : b = v[n]
    OBVIOUS
  <2>6. w[n + 1] = a \o f /\ v[n + 1] = b \o g
    BY <1>1, <1>2, <2>1, <2>2, <2>3, <2>4, <2>5
  <2>7. IsSeq(a) /\ IsSeq(b) /\ IsSeq(f) /\ IsSeq(g)
    BY <1>4, <2>1, <2>2, <2>3, <2>4, <2>5
  <2>8. /\ IsSeq(a \o f) /\ Len(a \o f) = Len(a) + Len(f)
        /\ \A i \in 1..Len(a) : (a \o f)[i] = a[i]
        /\ \A i \in 1..Len(f) : (a \o f)[Len(a) + i] = f[i]
    BY ONLY <2>7, Concatenated
  <2>9. /\ IsSeq(b \o g) /\ Len(b \o g) = Len(b) + Len(g)
        /\ \A i \in 1..Len(b) : (b \o g)[i] = b[i]
        /\ \A i \in 1..Len(g) : (b \o g)[Len(b) + i] = g[i]
    BY ONLY <2>7, Concatenated
  <2>10. Len(a) \in Nat /\ Len(f) \in Nat /\ Len(b) \in Nat /\ Len(g) \in Nat
    BY <2>7, SeqFacts
  <2> HIDE DEF Differ
  <2> SUFFICES /\ n + 1 < j => w[n + 1] = v[n + 1]
               /\ n + 1 >= j => Differ(n + 1)
    <3>1. IsSeq(w[n + 1]) /\ IsSeq(v[n + 1])
      BY <2>6, <2>8, <2>9
    <3>2. Good(n + 1)
      BY <3>1
    <3> HIDE DEF Good
    <3> QED
      BY <2>1, <3>2
  <2>11. CASE n + 1 < j
    <3>1. a = b /\ f = g /\ ~(n + 1 >= j)
      BY <1>4, <2>1, <2>2, <2>3, <2>4, <2>5, <2>11
    <3> QED
      BY <2>6, <3>1
  <2>12. CASE n + 1 = j
    <3>1. a = b /\ Len(f) = 1 /\ Len(g) = 1 /\ f[1] # g[1]
      BY <1>4, <2>1, <2>2, <2>3, <2>4, <2>5, <2>12
    <3> DEFINE p == Len(a) + 1
    <3>2. /\ p \in Nat \ {0} /\ p <= Len(a \o f) /\ p <= Len(b \o g)
          /\ (a \o f)[p] # (b \o g)[p]
      BY <2>8, <2>9, <2>10, <3>1
    <3>3. Differ(n + 1)
      BY <2>6, <3>2 DEF Differ
    <3>4. ~(n + 1 < j)
      BY <2>12
    <3> QED
      BY <3>3, <3>4
  <2>13. CASE n + 1 > j
    <3>1. n >= j
      BY <2>13
    <3>2. PICK p \in Nat \ {0} : p <= Len(a) /\ p <= Len(b) /\ a[p] # b[p]
      BY <1>4, <2>4, <2>5, <3>1 DEF Differ
    <3>3. p <= Len(a \o f) /\ p <= Len(b \o g) /\ (a \o f)[p] # (b \o g)[p]
      BY <2>8, <2>9, <2>10, <3>2
    <3>4. Differ(n + 1)
      BY <2>6, <3>3 DEF Differ
    <3>5. ~(n + 1 < j)
      BY <2>13
    <3> QED
      BY <3>4, <3>5
  <2> QED
    BY <2>1, <2>11, <2>12, <2>13
<1>5. N \in T
  <2> HIDE DEF T
  <2> QED
    BY <1>3, <1>4, CountUp
<1>6. Differ(N)
  BY <1>5
<1> QED
  BY <1>1, <1>2, <1>6

\* The empty string, or a hash.
HashLike(h) == h = EmptyString \/ \E x : h = HashFunction(x)

LEMMA HashFacts ==
    /\ \A x, y : HashFunction(x) = HashFunction(y) => x = y
    /\ \A x : IsSeq(HashFunction(x)) /\ Len(HashFunction(x)) = 1
    /\ \A x, y : HashFunction(x)[1] = HashFunction(y)[1] => x = y
    /\ \A h : HashLike(h) => IsSeq(h)
<1>1. \A x : HashFunction(x) = <<[hash |-> x]>> /\ HashFunction(x)[1] = [hash |-> x]
  BY DEF HashFunction
<1>2. \A x, y : [hash |-> x] = [hash |-> y] => x = y
  <2> TAKE x, y
  <2>1. [hash |-> x].hash = x /\ [hash |-> y].hash = y
    OBVIOUS
  <2> QED
    BY <2>1
<1>3. ASSUME NEW x PROVE IsSeq(HashFunction(x)) /\ Len(HashFunction(x)) = 1
  <2> DEFINE e == [hash |-> x]
  <2>1. <<e>> \in Seq({e}) /\ Len(<<e>>) = 1
    <3> HIDE DEF e
    <3> QED
      OBVIOUS
  <2> QED
    BY <1>1, <2>1, SeqOfSet
<1> QED
  BY <1>1, <1>2, <1>3, EmptyString1 DEF HashLike, EmptyString

\* A node of a proof: the hash below it and the hash above it.
ProofNode(np, i, above, below) ==
    /\ i \in Nibble /\ np.index = i /\ np.sibling_hash[i] = below
    /\ \A j \in Nibble : HashLike(np.sibling_hash[j])
    /\ above = HashFunction(FlattenSeq([n \in 1..Fanout |-> np.sibling_hash[n - 1]]))

\* Entered with the hash below it, it gives the hash above it; with another hash
\* another one.
LEMMA HashAboveIs ==
    ASSUME NEW np, NEW i, NEW above, NEW below, ProofNode(np, i, above, below),
           NEW x, below = HashFunction(x), NEW h, NEW y, h = HashFunction(y)
    PROVE  HashAbove(h, np) = above <=> h = below
<1> DEFINE F == [n \in 1..Fanout |-> IF n - 1 = np.index THEN h ELSE np.sibling_hash[n - 1]]
           G == [n \in 1..Fanout |-> np.sibling_hash[n - 1]]
<1>1. HashAbove(h, np) = HashFunction(FlattenSeq(F)) /\ above = HashFunction(FlattenSeq(G))
  BY DEF HashAbove, ProofNode
<1>2. /\ Fanout \in Nat \ {0} /\ i + 1 \in 1..Fanout /\ (i + 1) - 1 = i
      /\ \A n \in 1..Fanout : n - 1 \in Nibble /\ (n - 1 = i <=> n = i + 1)
  BY FanoutAssumption DEF ProofNode, Nibble
<1>3. /\ \A n \in 1..Fanout : F[n] = IF n = i + 1 THEN h ELSE G[n]
      /\ G[i + 1] = below
  BY <1>2 DEF ProofNode
<1>4. h = below => F = G
  BY <1>2, <1>3
<1>5. ASSUME h # below PROVE FlattenSeq(F) # FlattenSeq(G)
  <2> DEFINE S == {F[n] : n \in 1..Fanout} \cup {G[n] : n \in 1..Fanout}
  <2>1. F \in [1..Fanout -> S] /\ G \in [1..Fanout -> S]
    OBVIOUS
  <2>2. \A n \in 1..Fanout : IsSeq(F[n]) /\ IsSeq(G[n])
    <3>1. \A n \in 1..Fanout : IsSeq(G[n])
      BY <1>2, HashFacts DEF ProofNode
    <3>2. IsSeq(h)
      BY HashFacts
    <3> HIDE DEF F, G
    <3> QED
      BY <1>3, <3>1, <3>2
  <2>3. /\ Len(h) = 1 /\ Len(below) = 1 /\ h[1] # below[1]
    BY <1>5, HashFacts
  <2> HIDE DEF F, G
  <2>4. /\ \A n \in 1..Fanout : n # i + 1 => F[n] = G[n]
        /\ F[i + 1] = h /\ G[i + 1] = below
    BY <1>2, <1>3
  <2>5. /\ Len(F[i + 1]) = 1 /\ Len(G[i + 1]) = 1 /\ F[i + 1][1] # G[i + 1][1]
    BY <2>3, <2>4
  <2> HIDE DEF S
  <2> QED
    BY ONLY <2>5, <1>2, <2>1, <2>2, <2>3, <2>4, FlattenDiffer
<1> QED
  BY <1>1, <1>4, <1>5, HashFacts

LEMMA HashesUpSteps ==
    ASSUME NEW value, NEW proofs, Len(proofs) \in Nat
    PROVE  /\ HashesUp(value, proofs)[0] = HashFunction(value)
           /\ \A n \in 1..Len(proofs) :
                 HashesUp(value, proofs)[n] = HashAbove(HashesUp(value, proofs)[n - 1], proofs[n])
<1> DEFINE N == Len(proofs)
           first == HashFunction(value)
           loop == [kind |-> "proofs", start |-> first, over |-> proofs]
           Body(w) == [i \in 0..N |-> IF i = 0 THEN first ELSE HashAbove(w[i - 1], proofs[i])]
           r == CHOOSE w : w = Body(w)
<1>1. HashesUp(value, proofs) = r
  BY DEF HashesUp
<1>2. PICK w : /\ w = [n \in 0..N |-> w[n]]
               /\ w[0] = loop.start
               /\ \A n \in 1..N : w[n] = Round(loop, w[n - 1], n)
  <2> HIDE DEF loop
  <2>1. N \in Nat
    OBVIOUS
  <2> QED
    BY ONLY <2>1, LoopExists, Zenon
<1>3. \A n \in 1..N : w[n] = HashAbove(w[n - 1], proofs[n])
  BY <1>2 DEF Round
<1>4. w[0] = first
  BY <1>2
<1>5. \A n \in 0..N : w[n] = IF n = 0 THEN first ELSE HashAbove(w[n - 1], proofs[n])
  BY <1>3, <1>4
<1>6. w = Body(w)
  BY <1>2, <1>5
<1>7. r = Body(r)
  BY <1>6
<1> HIDE DEF r, first
<1>8. \A n \in 0..N : r[n] = IF n = 0 THEN first ELSE HashAbove(r[n - 1], proofs[n])
  BY <1>7
<1>9. 0 \in 0..N /\ \A n \in 1..N : n \in 0..N /\ n # 0
  OBVIOUS
<1> QED
  BY <1>1, <1>8, <1>9 DEF first

-----------------------------------------------------------------------------
(* The nodes of a proof, from the root down *)

\* Hashes that the nodes hand on to each other, from this one to that one.
Chain(hs, proofs, key, top, bottom) ==
    /\ hs[0] = top /\ hs[Len(proofs)] = bottom
    /\ \A l \in 1..Len(proofs) : ProofNode(proofs[l], key[l], hs[l - 1], hs[l])

Chained(proofs, key, top, bottom) ==
    IsSeq(proofs) /\ \E hs : Chain(hs, proofs, key, top, bottom)

LEMMA ChainStarts ==
    ASSUME NEW key, NEW top
    PROVE  Chained(<<>>, key, top, top)
<1> DEFINE hs == [l \in 0..0 |-> top]
<1>1. hs[0] = top
  OBVIOUS
<1> HIDE DEF hs
<1>2. Chain(hs, <<>>, key, top, top)
  BY <1>1, EmptyString1 DEF Chain
<1> QED
  BY <1>2, EmptyString1 DEF Chained

\* One node more.
LEMMA ChainGrows ==
    ASSUME NEW proofs, NEW key, NEW top, NEW middle, Chained(proofs, key, top, middle),
           NEW np, NEW bottom, ProofNode(np, key[Len(proofs) + 1], middle, bottom)
    PROVE  Chained(Append(proofs, np), key, top, bottom) /\ Len(Append(proofs, np)) = Len(proofs) + 1
<1>1. PICK L \in Nat : L = Len(proofs)
  BY SeqFacts DEF Chained
<1>2. PICK more : more = Append(proofs, np)
  OBVIOUS
<1>3. /\ IsSeq(more) /\ Len(more) = L + 1 /\ more[L + 1] = np
      /\ \A i \in 1..L : more[i] = proofs[i]
  BY <1>1, <1>2, Appended DEF Chained
<1>4. PICK hs : /\ hs[0] = top /\ hs[L] = middle
                /\ \A l \in 1..L : ProofNode(proofs[l], key[l], hs[l - 1], hs[l])
  BY <1>1 DEF Chained, Chain
<1> DEFINE gs == [l \in 0..(L + 1) |-> IF l <= L THEN hs[l] ELSE bottom]
<1>5. gs[0] = top /\ gs[L + 1] = bottom /\ gs[L] = middle /\ \A l \in 0..L : gs[l] = hs[l]
  BY <1>4
<1> HIDE DEF gs
<1>6. ASSUME NEW l \in 1..(L + 1) PROVE ProofNode(more[l], key[l], gs[l - 1], gs[l])
  <2>1. CASE l \in 1..L
    <3>1. l - 1 \in 0..L /\ l \in 0..L
      BY <2>1
    <3> QED
      BY <1>3, <1>4, <1>5, <2>1, <3>1
  <2>2. CASE l = L + 1
    <3>1. l - 1 = L
      BY <2>2
    <3> QED
      BY <1>1, <1>3, <1>5, <2>2, <3>1
  <2> QED
    BY <2>1, <2>2
<1>7. Chain(gs, more, key, top, bottom)
  BY <1>3, <1>5, <1>6 DEF Chain
<1> QED
  BY <1>1, <1>2, <1>3, <1>7 DEF Chained

\* A proof and its hashes, turned round; the hashes meet for the one value only.
TurnedRound(proofs, rs, up, hs, L, value, contents) ==
    /\ IsSeq(rs) /\ Len(rs) = L
    /\ \A i \in 1..L : rs[i] = proofs[L + 1 - i]
    /\ \A n \in 0..L : up[n] = hs[L - n] <=> value = contents

\* From the leaf up the proof gives the hashes of the chain, and the uppermost
\* one for the one value only.
LEMMA ChainUp ==
    ASSUME NEW proofs, NEW key, NEW top, NEW contents, NEW value, NEW hs, IsSeq(proofs),
           Chain(hs, proofs, key, top, HashFunction(contents)),
           NEW rs, rs = Reverse(proofs), NEW up, up = HashesUp(value, rs),
           NEW L, L = Len(proofs)
    PROVE  TurnedRound(proofs, rs, up, hs, L, value, contents)
<1>1. L \in Nat
  BY SeqFacts
<1>2. /\ IsSeq(rs) /\ Len(rs) = L /\ \A i \in 1..L : rs[i] = proofs[L + 1 - i]
  <2>1. rs = [i \in 1..L |-> proofs[(L - i) + 1]]
    BY DEF Reverse
  <2>2. \A i \in 1..L : proofs[(L - i) + 1] \in Range(proofs)
    <3> TAKE i \in 1..L
    <3>1. (L - i) + 1 \in 1..L
      OBVIOUS
    <3> QED
      BY <1>1, <3>1, SeqFacts
  <2>3. rs \in Seq(Range(proofs)) /\ Len(rs) = L
    BY <2>1, <2>2
  <2>4. \A i \in 1..L : (L - i) + 1 = L + 1 - i
    OBVIOUS
  <2> QED
    BY <2>1, <2>3, <2>4, SeqOfSet
<1>3. up[0] = HashFunction(value) /\ \A n \in 1..L : up[n] = HashAbove(up[n - 1], rs[n])
  BY <1>1, <1>2, HashesUpSteps
<1>4. /\ hs[L] = HashFunction(contents)
      /\ \A l \in 1..L : ProofNode(proofs[l], key[l], hs[l - 1], hs[l])
  BY <1>1 DEF Chain
<1>5. \A l \in 0..L : \E x : hs[l] = HashFunction(x)
  <2> TAKE l \in 0..L
  <2>1. CASE l = L
    BY <1>4, <2>1
  <2>2. CASE l # L
    <3>1. l + 1 \in 1..L /\ (l + 1) - 1 = l
      BY <2>2
    <3>2. ProofNode(proofs[l + 1], key[l + 1], hs[l], hs[l + 1])
      BY <1>4, <3>1
    <3> QED
      BY <3>2 DEF ProofNode
  <2> QED
    BY <2>1, <2>2
<1> DEFINE Good(n) == (up[n] = hs[L - n] <=> value = contents) /\ \E x : up[n] = HashFunction(x)
           T == {n \in 0..L : Good(n)}
<1>6. 0 \in T
  <2>1. L - 0 = L
    OBVIOUS
  <2>2. Good(0)
    BY <1>3, <1>4, <2>1, HashFacts
  <2> HIDE DEF Good
  <2> QED
    BY <2>2
<1>7. ASSUME NEW n \in 0..L, n \in T, n < L PROVE n + 1 \in T
  <2>1. PICK m \in 1..L : m = n + 1 /\ m - 1 = n
    BY <1>7
  <2>2. PICK l \in 1..L : l = L - n /\ l = L + 1 - m /\ l - 1 = L - m
    BY <1>7, <2>1
  <2>3. Good(n)
    BY <1>7
  <2>4. up[m] = HashAbove(up[n], proofs[l])
    BY <1>2, <1>3, <2>1, <2>2
  <2>5. ProofNode(proofs[l], key[l], hs[l - 1], hs[l])
    BY <1>4
  <2>6. PICK x : hs[l] = HashFunction(x)
    BY <1>5
  <2>7. PICK y : up[n] = HashFunction(y)
    BY <2>3
  <2>8. HashAbove(up[n], proofs[l]) = hs[l - 1] <=> up[n] = hs[l]
    BY <2>5, <2>6, <2>7, HashAboveIs
  <2>9. up[m] = hs[L - m] <=> value = contents
    BY <2>2, <2>3, <2>4, <2>8
  <2>10. \E z : up[m] = HashFunction(z)
    BY <2>4 DEF HashAbove
  <2>11. Good(m)
    BY <2>9, <2>10
  <2> HIDE DEF Good
  <2> QED
    BY <2>1, <2>11
<1>8. ASSUME NEW n \in 0..L PROVE n \in T
  <2> HIDE DEF T
  <2>1. \A i \in 0..n : i \in T /\ i < n => i + 1 \in T
    BY <1>7
  <2> QED
    BY <1>6, <2>1, CountUp
<1>9. \A n \in 0..L : up[n] = hs[L - n] <=> value = contents
  BY <1>8
<1> QED
  BY <1>2, <1>9 DEF TurnedRound

-----------------------------------------------------------------------------
(* The proof of a key, page by page *)

\* Between commits, the pages in memory.
AtRest == Markers /\ IInv /\ HashInv /\ Unwritten /\ todo = {}

LEMMA HashAsOfLike ==
    ASSUME AtRest, NEW u \in 1..current_version, NEW pid
    PROVE  HashLike(HashAsOf(pid, u))
<1>1. CASE pid \notin Pid
  BY <1>1 DEF HashAsOf, HashOf, HashLike
<1>2. CASE pid \in Pid
  <2> DEFINE pages == [p \in Pid |-> HashAsOf(p, u)]
  <2>1. \A p \in Pid : pages[p] = HashAsOf(p, u)
    OBVIOUS
  <2> HIDE DEF pages
  <2>2. HashAsOf(pid, u) = PageHashFrom(u, pid, pages)
    BY <1>2, <2>1, PageHashIs DEF AtRest
  <2> QED
    BY <2>2 DEF PageHashFrom, LeafHash, NodeHash, HashLike
<1> QED
  BY <1>1, <1>2

\* A node and one of its children.
LEMMA NodeProved ==
    ASSUME NEW node, HashedNode(node), NEW i \in Nibble, NEW level,
           \A j \in Nibble : HashLike(node.children[j].hash)
    PROVE  ProofNode(NodeProof(level, node, i), i, node.hash, node.children[i].hash)
<1> DEFINE sibling == [j \in Nibble |-> node.children[j].hash]
           np == NodeProof(level, node, i)
<1>1. np.index = i /\ np.sibling_hash = sibling
  BY DEF NodeProof
<1>2. \A j \in Nibble : sibling[j] = node.children[j].hash
  OBVIOUS
<1>3. [n \in 1..Fanout |-> sibling[n - 1]] = [n \in 1..Fanout |-> node.children[n - 1].hash]
  <2>1. \A n \in 1..Fanout : n - 1 \in Nibble
    BY FanoutAssumption DEF Nibble
  <2> QED
    BY <2>1
<1> HIDE DEF np, sibling
<1>4. node.hash = HashFunction(FlattenSeq([n \in 1..Fanout |-> sibling[n - 1]]))
  BY <1>3 DEF HashedNode, ConcatenatedHash
<1>5. ProofNode(np, i, node.hash, node.children[i].hash)
  BY <1>1, <1>2, <1>4 DEF ProofNode
<1> QED
  BY <1>5 DEF np

\* The root of a page above leaf nodes: for a key below it the hash of its value.
LEMMA RootAboveLeaves ==
    ASSUME Basics, NEW u \in 1..current_version, NEW pid \in Pid, Depth(pid) = 1,
           NEW root, RootAsOf(root, pid, u), NEW i \in Nibble, NEW level
    PROVE  /\ ProofNode(NodeProof(level, root, i), i, root.hash, root.children[i].hash)
           /\ Append(pid, i) \in Key => root.children[i].hash = LeafHash(u, Append(pid, i))
<1>1. /\ HashedNode(root)
      /\ \A j \in Nibble : root.children[j].hash =
            IF HasChild(root, j) THEN root.children[j].node.hash ELSE EmptyString
  BY DEF RootAsOf, PageHashed
<1>2. ASSUME NEW j \in Nibble, NEW path, path = Append(pid, j)
      PROVE  /\ root.children[j].hash =
                   IF Latest(path, u) = 0 THEN EmptyString
                   ELSE HashOfLeaf(value_store[Latest(path, u)][path])
  <2>1. PICK m \in Paths(1) : Len(m) = 1 /\ m[1] = j /\ Append(pid, j) = pid \o m
    BY OneNibble
  <2>2. PICK x : x = Latest(path, u)
    OBVIOUS
  <2>3. HashAt(root, m) = HashBeneath(pid, m, x)
    BY <1>2, <2>1, <2>2 DEF RootAsOf
  <2>4. root.children[j].hash = IF x = 0 THEN EmptyString ELSE HashOfLeaf(value_store[x][path])
    BY <1>1, <1>2, <2>1, <2>3 DEF RootAsOf, HashAt, HashBeneath
  <2> QED
    BY <2>2, <2>4
<1>3. \A j \in Nibble : HashLike(root.children[j].hash)
  BY <1>2 DEF HashOfLeaf, HashLike
<1>4. ASSUME Append(pid, i) \in Key PROVE root.children[i].hash = LeafHash(u, Append(pid, i))
  <2>1. PICK path \in Key : path = Append(pid, i)
    BY <1>4
  <2>2. PICK x : x = Latest(path, u)
    OBVIOUS
  <2>3. IsLast(x, path, u)
    BY <2>2, LatestIsLast, VersionFacts
  <2>4. root.children[i].hash = IF x = 0 THEN EmptyString ELSE HashOfLeaf(value_store[x][path])
    BY <1>2, <2>1, <2>2
  <2>5. LeafHash(u, path) = IF x = 0 THEN EmptyString ELSE HashOfLeaf(value_store[x][path])
    BY <2>3, LeafHashIs
  <2> QED
    BY <2>1, <2>4, <2>5
<1> QED
  BY <1>1, <1>3, <1>4, NodeProved

\* The root of a page of two levels, and the node below it.
LEMMA RootAbovePages ==
    ASSUME AtRest, NEW u \in 1..current_version, NEW pid \in Pid, Depth(pid) = 2,
           NEW root, RootAsOf(root, pid, u), NEW i \in Nibble, NEW j \in Nibble,
           HasChild(root, i), NEW one, NEW two, NEW child, child = root.children[i].node
    PROVE  /\ ProofNode(NodeProof(one, root, i), i, root.hash, child.hash)
           /\ ProofNode(NodeProof(two, child, j), j, child.hash,
                        HashAsOf(Append(Append(pid, i), j), u))
<1>1. /\ HashedNode(root)
      /\ \A n \in Nibble : root.children[n].hash =
            IF HasChild(root, n) THEN root.children[n].node.hash ELSE EmptyString
      /\ \A n \in Nibble : HasChild(root, n) => HashedNode(root.children[n].node)
  BY DEF RootAsOf, PageHashed, SecondHashed
<1>2. \A n \in Nibble : HashLike(root.children[n].hash)
  BY <1>1 DEF HashedNode, HashLike
<1>3. ProofNode(NodeProof(one, root, i), i, root.hash, child.hash)
  <2>1. root.children[i].hash = child.hash
    BY <1>1
  <2>2. ProofNode(NodeProof(one, root, i), i, root.hash, root.children[i].hash)
    BY <1>1, <1>2, NodeProved
  <2> QED
    BY <2>1, <2>2
<1>4. \A n \in Nibble : child.children[n].hash = HashAsOf(Append(Append(pid, i), n), u)
  <2> TAKE n \in Nibble
  <2>1. Basics
    BY DEF AtRest, IInv
  <2>2. PICK path : path = Append(Append(pid, i), n)
    OBVIOUS
  <2>3. child.children[n].hash = HashOf(path, Latest(path, u))
    BY <2>1, <2>2, SecondNibble
  <2> QED
    BY <2>2, <2>3 DEF HashAsOf
<1>5. \A n \in Nibble : HashLike(child.children[n].hash)
  BY <1>4, HashAsOfLike
<1>6. ProofNode(NodeProof(two, child, j), j, child.hash, child.children[j].hash)
  <2>1. HashedNode(child)
    BY <1>1
  <2> QED
    BY <1>5, <2>1, NodeProved
<1> QED
  BY <1>3, <1>4, <1>6

\* After n pages of a key the proof leads from the root hash of the version to
\* the hash of the next page, or of the value.
Proved(path, key, n, u) ==
    ~path.lost =>
        IF 2 * n <= Len(key)
        THEN /\ Len(path.proofs) = 2 * n
             /\ Chained(path.proofs, key, HashAsOf(<<>>, u), HashAsOf(Upto(key, 2 * n), u))
        ELSE /\ Len(path.proofs) = Len(key)
             /\ Chained(path.proofs, key, HashAsOf(<<>>, u), LeafHash(u, key))

LEMMA BelowProved ==
    ASSUME AtRest, NEW key \in Key, NEW n \in Nat, 2 * n <= Len(key), NEW u \in 1..current_version,
           NEW pid, pid = Upto(key, 2 * n),
           NEW path, path = [lru |-> path.lru, fault |-> path.fault, version |-> path.version,
                             lost |-> path.lost, leaf |-> path.leaf, proofs |-> path.proofs],
           path.lost = FALSE, Proved(path, key, n, u),
           NEW root, RootAsOf(root, pid, u), root.hash = HashAsOf(pid, u)
    PROVE  Proved(Below(path, key, pid, root), key, n + 1, u)
<1> DEFINE d == Depth(pid)
           new == Below(path, key, pid, root)
           i == key[Len(pid) + 1]
           j == key[Len(pid) + 2]
           child == root.children[i].node
           np == NodeProof(Len(pid), root, i)
           second == NodeProof(Len(pid) + 1, child, j)
           top == HashAsOf(<<>>, u)
           ps == path.proofs
<1>1. /\ pid \in Pid /\ Len(pid) = 2 * n /\ pid \in PagesOf(key) /\ pid \in Seq(Nibble)
      /\ 2 * n + 2 <= Len(key) => d = 2
      /\ 2 * n + 2 > Len(key) => d = Len(key) - 2 * n
      /\ Len(key) \in Nat /\ d \in 0..2
      /\ \A l \in 1..Len(key) : key[l] \in Nibble
  BY PageNumbered, KeyFacts, PidFacts
<1>2. Basics
  BY DEF AtRest, IInv
<1>3. Len(ps) = 2 * n /\ Chained(ps, key, top, root.hash)
  BY DEF Proved
<1>4. path = [lru |-> path.lru, fault |-> path.fault, version |-> path.version,
              lost |-> path.lost, leaf |-> path.leaf, proofs |-> ps] /\ path.lost = FALSE
  OBVIOUS
<1>5. /\ d = 0 => root.is_leaf
      /\ d # 0 => ~root.is_leaf /\ i \in Nibble
      /\ d = 1 /\ HasChild(root, i) => child.is_leaf
      /\ d = 2 /\ HasChild(root, i) => ~child.is_leaf
  <2>1. PageRoot(root, d) /\ root # NoNode
    BY DEF RootAsOf, PageShape
  <2>2. d = 0 => root.is_leaf
    <3>1. d = 0 => LeafNode(root)
      BY <2>1 DEF PageRoot
    <3> QED
      BY <3>1 DEF LeafNode
  <2>3. d # 0 => ~root.is_leaf /\ SecondLevel(root, d)
    BY <1>1, <2>1 DEF PageRoot, IndexNode
  <2>4. d # 0 => i \in Nibble
    <3>1. d # 0 => Len(pid) + 1 \in 1..Len(key)
      BY <1>1
    <3> QED
      BY <1>1, <3>1
  <2>5. d = 1 /\ HasChild(root, i) => child.is_leaf
    <3>1. d = 1 /\ HasChild(root, i) => LeafNode(child)
      BY <2>3, <2>4 DEF SecondLevel
    <3> HIDE DEF child
    <3> QED
      BY <3>1 DEF LeafNode
  <2>6. d = 2 /\ HasChild(root, i) => ~child.is_leaf
    <3>1. d = 2 /\ HasChild(root, i) => IndexNode(child)
      BY <2>3, <2>4 DEF SecondLevel
    <3> HIDE DEF child
    <3> QED
      BY <3>1 DEF IndexNode
  <2> QED
    BY <2>2, <2>3, <2>4, <2>5, <2>6
<1>6. new = IF root.is_leaf THEN [path EXCEPT !.leaf = root]
            ELSE IF ~HasChild(root, i) THEN [path EXCEPT !.lost = TRUE]
            ELSE IF child.is_leaf THEN [path EXCEPT !.leaf = child, !.proofs = Append(ps, np)]
            ELSE [path EXCEPT !.version = child.children[j].version, !.proofs = ps \o <<np, second>>]
  BY DEF Below
<1> SUFFICES Proved(new, key, n + 1, u)
  OBVIOUS
<1> HIDE DEF new
<1>7. CASE d = 0
  <2>1. new.proofs = ps /\ ~ (2 * (n + 1) <= Len(key)) /\ Len(ps) = Len(key)
    <3>1. new = [path EXCEPT !.leaf = root]
      BY <1>5, <1>6, <1>7
    <3>2. new.proofs = ps
      BY <1>4, <3>1
    <3> QED
      BY <1>1, <1>3, <1>7, <3>2
  <2>2. root.hash = LeafHash(u, key)
    <3>1. pid = key
      <4>1. NibblesAfter(pid, key) \in Paths(0) /\ pid \o NibblesAfter(pid, key) = key
        BY <1>1, <1>7, NextPage
      <4>2. Len(pid) = Len(key) /\ key \in Seq(Nibble)
        BY <1>1, <1>7, KeyFacts
      <4>3. \A l \in 1..Len(pid) : pid[l] = key[l]
        BY <1>1, PageOfKey
      <4> QED
        BY <1>1, <4>2, <4>3, SeqEqual
    <3>2. root.hash = PageHashFrom(u, pid, <<>>)
      BY <1>1, <1>2, <1>7, NoLevelHash
    <3> QED
      BY <3>1, <3>2 DEF PageHashFrom
  <2>3. Chained(ps, key, top, LeafHash(u, key))
    BY <1>3, <2>2
  <2> QED
    BY <2>1, <2>3 DEF Proved
<1>8. CASE d # 0 /\ ~HasChild(root, i)
  <2>1. new = [path EXCEPT !.lost = TRUE]
    BY <1>5, <1>6, <1>8
  <2>2. new.lost
    BY <1>4, <2>1
  <2> QED
    BY <2>2 DEF Proved
<1>9. CASE d = 1 /\ HasChild(root, i)
  <2> DEFINE more == Append(ps, np)
  <2>1. ~ (2 * (n + 1) <= Len(key)) /\ Len(key) = 2 * n + 1
    BY <1>1, <1>9
  <2>2. new.proofs = more
    <3>1. new = [path EXCEPT !.leaf = child, !.proofs = more]
      BY <1>5, <1>6, <1>9
    <3> HIDE DEF more, child
    <3> QED
      BY <1>4, <3>1
  <2>3. Append(pid, i) = key
    <3>1. Len(Append(pid, i)) = Len(pid) + 1 /\ Append(pid, i) \in Seq(Nibble)
      BY <1>1, <1>5, <1>9, AppendProperties
    <3>2. \A l \in 1..Len(pid) : pid[l] = key[l]
      BY <1>1, PageOfKey
    <3>3. ASSUME NEW l \in 1..(Len(pid) + 1) PROVE Append(pid, i)[l] = key[l]
      <4>1. l \in 1..Len(pid) \/ l = Len(pid) + 1
        BY <1>1
      <4> QED
        BY <1>1, <1>5, <1>9, <3>2, <4>1, AppendProperties
    <3> QED
      BY <1>1, <2>1, <3>1, <3>3, KeyFacts, SeqEqual
  <2>4. ProofNode(np, i, root.hash, LeafHash(u, key))
    <3>1. /\ ProofNode(np, i, root.hash, root.children[i].hash)
          /\ Append(pid, i) \in Key => root.children[i].hash = LeafHash(u, Append(pid, i))
      <4> HIDE DEF i
      <4> QED
        BY <1>1, <1>2, <1>5, <1>9, RootAboveLeaves
    <3> QED
      BY <2>3, <3>1
  <2>5. Chained(more, key, top, LeafHash(u, key)) /\ Len(more) = Len(ps) + 1
    <3>1. key[Len(ps) + 1] = i
      BY <1>1, <1>3
    <3> HIDE DEF i, np, top, ps
    <3> QED
      BY <1>3, <2>4, <3>1, ChainGrows
  <2> HIDE DEF more
  <2>6. Len(more) = Len(key)
    BY <1>3, <2>1, <2>5
  <2> QED
    BY <2>1, <2>2, <2>5, <2>6 DEF Proved
<1>10. CASE d = 2 /\ HasChild(root, i)
  <2> DEFINE more == ps \o <<np, second>>
  <2>1. 2 * (n + 1) <= Len(key) /\ j \in Nibble
    <3>1. 2 * n + 2 <= Len(key)
      BY <1>1, <1>10
    <3>2. Len(pid) + 2 \in 1..Len(key)
      BY <1>1, <3>1
    <3> QED
      BY <1>1, <3>1, <3>2
  <2>2. new.proofs = more
    <3> DEFINE v == child.children[j].version
    <3>1. new = [path EXCEPT !.version = v, !.proofs = more]
      <4>1. ~root.is_leaf /\ HasChild(root, i) /\ ~child.is_leaf
        BY <1>5, <1>10
      <4> HIDE DEF child, second
      <4> QED
        BY <1>6, <4>1
    <3> HIDE DEF more, v
    <3> QED
      BY <1>4, <3>1
  <2>3. Append(Append(pid, i), j) = Upto(key, 2 * (n + 1))
    <3>1. PICK one : one = Append(pid, i)
      OBVIOUS
    <3>2. /\ one \in Seq(Nibble) /\ Len(one) = 2 * n + 1 /\ one[2 * n + 1] = i
          /\ \A l \in 1..(2 * n) : one[l] = pid[l]
      BY <1>1, <1>5, <1>10, <3>1, AppendProperties
    <3>3. PICK two : two = Append(one, j)
      OBVIOUS
    <3>4. /\ two \in Seq(Nibble) /\ Len(two) = 2 * n + 2 /\ two[2 * n + 2] = j
          /\ \A l \in 1..(2 * n + 1) : two[l] = one[l]
      <4>1. /\ two \in Seq(Nibble) /\ Len(two) = Len(one) + 1 /\ two[Len(one) + 1] = j
            /\ \A l \in 1..Len(one) : two[l] = one[l]
        <5> HIDE DEF i, j
        <5> QED
          BY ONLY <2>1, <3>2, <3>3, AppendProperties
      <4>2. Len(one) = 2 * n + 1 /\ Len(one) + 1 = 2 * n + 2
        BY <3>2
      <4> QED
        BY <4>1, <4>2
    <3>5. PICK next : next = Upto(key, 2 * (n + 1))
      OBVIOUS
    <3>6. /\ next \in Seq(Nibble) /\ Len(next) = 2 * n + 2
          /\ \A l \in 1..(2 * n + 2) : next[l] = key[l]
      <4>1. 2 * (n + 1) \in 0..Len(key) /\ 2 * (n + 1) = 2 * n + 2 /\ key \in Seq(Nibble)
        BY <1>1, <2>1, KeyFacts
      <4> QED
        BY <3>5, <4>1, Prefix
    <3>7. \A l \in 1..(2 * n) : pid[l] = key[l]
      BY <1>1, PageOfKey
    <3>8. ASSUME NEW l \in 1..(2 * n + 2) PROVE two[l] = next[l]
      <4>1. l \in 1..(2 * n) \/ l = 2 * n + 1 \/ l = 2 * n + 2
        BY <3>8
      <4>2. l # 2 * n + 2 => l \in 1..(2 * n + 1)
        OBVIOUS
      <4>3. key[2 * n + 1] = i /\ key[2 * n + 2] = j
        BY <1>1
      <4> QED
        BY <3>2, <3>4, <3>6, <3>7, <4>1, <4>2, <4>3
    <3>9. two = next
      BY <3>4, <3>6, <3>8, SeqEqual
    <3> QED
      BY <3>1, <3>3, <3>5, <3>9
  <2>4. /\ ProofNode(np, i, root.hash, child.hash)
        /\ ProofNode(second, j, child.hash, HashAsOf(Append(Append(pid, i), j), u))
    <3>1. i \in Nibble /\ HasChild(root, i)
      BY <1>5, <1>10
    <3> HIDE DEF i, j
    <3> QED
      BY <1>1, <1>10, <2>1, <3>1, RootAbovePages
  <2>5. PICK one : one = Append(ps, np)
    OBVIOUS
  <2>6. Chained(one, key, top, child.hash) /\ Len(one) = 2 * n + 1
    <3>1. key[Len(ps) + 1] = i
      BY <1>1, <1>3
    <3> HIDE DEF i, np, top, ps, child
    <3> QED
      BY <1>3, <2>4, <2>5, <3>1, ChainGrows
  <2>7. Chained(Append(one, second), key, top, HashAsOf(Upto(key, 2 * (n + 1)), u))
        /\ Len(Append(one, second)) = 2 * n + 2
    <3>1. key[Len(one) + 1] = j
      BY <1>1, <2>6
    <3>2. ProofNode(second, key[Len(one) + 1], child.hash, HashAsOf(Upto(key, 2 * (n + 1)), u))
      BY <2>3, <2>4, <3>1
    <3> HIDE DEF i, j, second, top, child
    <3> QED
      BY <2>6, <3>2, ChainGrows
  <2>8. more = Append(one, second)
    <3>1. IsSeq(ps)
      BY <1>3 DEF Chained
    <3> HIDE DEF np, second
    <3>2. PICK S : S = Range(ps) \cup {np, second}
      OBVIOUS
    <3>3. ps \in Seq(S)
      BY <3>1, <3>2 DEF IsSeq
    <3>4. np \in S /\ second \in S
      BY <3>2
    <3> QED
      BY <2>5, <3>3, <3>4
  <2> HIDE DEF more
  <2>9. 2 * (n + 1) = 2 * n + 2
    OBVIOUS
  <2> QED
    BY <2>1, <2>2, <2>7, <2>8, <2>9 DEF Proved
<1> QED
  BY <1>1, <1>7, <1>8, <1>9, <1>10

LEMMA VisitProved ==
    ASSUME AtRest, NEW key \in Key, NEW n \in Nat, 2 * n <= Len(key), NEW u \in 1..current_version,
           NEW path, Walking(path, key, n, u), Proved(path, key, n, u)
    PROVE  Proved(Visit(path, key, Upto(key, 2 * n)), key, n + 1, u)
<1> DEFINE pid == Upto(key, 2 * n)
           w == path.version
           got == GetPage(path.lru, pid, w)
           kept == [path EXCEPT !.lru = got.lru, !.fault = Worse(@, got.fault)]
           new == Visit(path, key, pid)
<1>1. CASE path.lost
  <2>1. new = path
    BY <1>1 DEF Visit
  <2> HIDE DEF new
  <2>2. Proved(new, key, n + 1, u)
    BY <1>1, <2>1 DEF Proved
  <2> QED
    BY <2>2 DEF new
<1>2. CASE ~path.lost
  <2>1. /\ pid \in Pid /\ Len(key) \in Nat /\ current_version \in Nat /\ u \in Nat
        /\ Basics /\ StoreOk /\ Written /\ Markers
    BY PageNumbered, KeyFacts, VersionFacts DEF AtRest, IInv
  <2>2. /\ path = [lru |-> path.lru, fault |-> path.fault, version |-> path.version,
                   lost |-> path.lost, leaf |-> path.leaf, proofs |-> path.proofs]
        /\ path.lost = FALSE /\ CacheOk(path.lru)
        /\ Put(u, key) => Updated(path.lru) /\ path.fault = "none"
        /\ IsLast(w, pid, u)
    BY <1>2 DEF Walking
  <2>3. w \in 0..u /\ w \in Nat /\ w = Latest(pid, u)
    BY <2>1, <2>2, LatestIsLast DEF IsLast
  <2>4. /\ got.root # NoPage <=> Exactly(pid, w)
        /\ got.root # NoPage => PageAt(got.root, pid, w)
    <3> HIDE DEF pid, w
    <3> QED
      BY <2>1, <2>2, <2>3, GotPage, SMTT(30)
  <2>5. new = IF got.root \in {NoPage, NoNode} THEN [kept EXCEPT !.lost = TRUE]
              ELSE Below(kept, key, pid, got.root)
    BY <1>2 DEF Visit
  <2>6. /\ kept = [lru |-> kept.lru, fault |-> kept.fault, version |-> kept.version,
                   lost |-> kept.lost, leaf |-> kept.leaf, proofs |-> kept.proofs]
        /\ kept.lost = FALSE /\ kept.proofs = path.proofs
    <3> DEFINE after == got.lru
               f == Worse(path.fault, got.fault)
    <3>1. kept = [path EXCEPT !.lru = after, !.fault = f]
      OBVIOUS
    <3> HIDE DEF after, f, kept
    <3>2. kept = [lru |-> after, fault |-> f, version |-> path.version,
                  lost |-> FALSE, leaf |-> path.leaf, proofs |-> path.proofs]
      BY <2>2, <3>1
    <3> QED
      BY <3>2
  <2> HIDE DEF new, got, kept
  <2>8. CASE got.root \in {NoPage, NoNode}
    <3>1. new.lost
      BY <2>5, <2>6, <2>8
    <3>2. Proved(new, key, n + 1, u)
      BY <3>1 DEF Proved
    <3> QED
      BY <3>2 DEF new
  <2>9. CASE got.root \notin {NoPage, NoNode}
    <3>1. new = Below(kept, key, pid, got.root)
      BY <2>5, <2>9
    <3>2. PICK root : root = got.root
      OBVIOUS
    <3>3. PageAt(root, pid, w) /\ Exactly(pid, w) /\ root # NoNode
      BY <2>4, <2>9, <3>2
    <3>4. w # 0
      <4>1. root = NoNode <=> UpdatesUpTo(pid, w) = 0
        BY <2>1, <3>3, RootFacts DEF PageAt
      <4>2. UpdatesUpTo(pid, w) = 0 <=> w = 0
        <5> HIDE DEF pid, w
        <5> QED
          BY <2>1, <2>3, <3>3, UpToFacts DEF Exactly
      <4> QED
        BY <3>3, <4>1, <4>2
    <3>5. RootAsOf(root, pid, u) /\ root.hash = HashAsOf(pid, u)
      <4> HIDE DEF pid, w
      <4>1. HashOf(pid, w) = root.hash /\ RootAsOf(root, pid, u)
        BY <2>1, <2>3, <3>3, <3>4, RootIsAsOf DEF AtRest
      <4> QED
        BY <2>3, <4>1 DEF HashAsOf
    <3>6. Proved(kept, key, n, u)
      BY <1>2, <2>6 DEF Proved
    <3>7. pid = Upto(key, 2 * n)
      OBVIOUS
    <3>8. Proved(Below(kept, key, pid, root), key, n + 1, u)
      <4> HIDE DEF pid
      <4> QED
        BY <2>1, <2>6, <3>5, <3>6, <3>7, BelowProved
    <3>9. Proved(new, key, n + 1, u)
      BY <3>1, <3>2, <3>8
    <3> QED
      BY <3>9 DEF new
  <2> QED
    BY <2>8, <2>9
<1> QED
  BY <1>1, <1>2

\* The proof of a key leads from the root hash of the version to the hash of the
\* value, one node for each nibble.
LEMMA ProofLeads ==
    ASSUME AtRest, NEW key \in Key, NEW u \in 1..current_version, Put(u, key)
    PROVE  LET proofs == Descend(pagekeys, u, key).proofs
           IN  /\ Len(proofs) = Len(key)
               /\ Chained(proofs, key, HashAsOf(<<>>, u), LeafHash(u, key))
<1> DEFINE N == PageCount(key)
<1>1. Len(key) \in Nat /\ N \in Nat /\ 2 * N > Len(key) /\ \A n \in 0..N : n < N => 2 * n <= Len(key)
  BY KeyFacts DEF PageCount
<1>2. PICK w : /\ w[0] = PathFrom(pagekeys, u)
               /\ \A n \in 1..PageCount(key) :
                     w[n] = Visit(w[n - 1], key, Upto(key, 2 * (n - 1)))
               /\ Descend(pagekeys, u, key) = w[PageCount(key)]
  <2>1. PageCount(key) \in Nat
    BY <1>1
  <2> QED
    BY <2>1, DescendSteps
<1> HIDE DEF N
<1>3. /\ Markers /\ IInv /\ todo = {} /\ Basics /\ StoreOk /\ Written
      /\ current_version \in Nat /\ u \in Nat
  BY VersionFacts DEF AtRest, IInv
<1> DEFINE Good(n) == Walking(w[n], key, n, u) /\ Proved(w[n], key, n, u)
           T == {n \in 0..N : Good(n)}
<1>4. 0 \in T
  <2>1. Walking(PathFrom(pagekeys, u), key, 0, u)
    BY <1>3, WalkStarts
  <2>2. Proved(PathFrom(pagekeys, u), key, 0, u)
    <3>1. Upto(key, 2 * 0) = <<>> /\ 2 * 0 <= Len(key)
      BY <1>1, KeyFacts, EmptySeq, Prefix
    <3>2. PathFrom(pagekeys, u).proofs = <<>>
      BY DEF PathFrom
    <3> QED
      BY <3>1, <3>2, ChainStarts, EmptyString1 DEF Proved
  <2>3. Good(0)
    BY <1>2, <2>1, <2>2
  <2> HIDE DEF Good
  <2> QED
    BY <1>1, <2>3
<1>5. ASSUME NEW n \in 0..N, n \in T, n < N PROVE n + 1 \in T
  <2>1. n + 1 \in 1..N /\ (n + 1) - 1 = n /\ n + 1 \in 0..N /\ 2 * n <= Len(key) /\ n \in Nat
    BY <1>1, <1>5
  <2> DEFINE before == w[n]
             pid == Upto(key, 2 * n)
  <2>2. w[n + 1] = Visit(before, key, pid)
    <3>1. w[n + 1] = Visit(w[(n + 1) - 1], key, Upto(key, 2 * ((n + 1) - 1)))
      BY <1>2, <2>1 DEF N
    <3> QED
      BY <2>1, <3>1
  <2>3. Walking(before, key, n, u) /\ Proved(before, key, n, u)
    BY <1>5
  <2> HIDE DEF before
  <2>4. Walking(Visit(before, key, pid), key, n + 1, u)
    BY <1>3, <2>1, <2>3, VisitDone
  <2>5. Proved(Visit(before, key, pid), key, n + 1, u)
    BY <2>1, <2>3, VisitProved
  <2> HIDE DEF pid
  <2>6. Good(n + 1)
    BY <2>2, <2>4, <2>5
  <2> HIDE DEF Good
  <2> QED
    BY <2>1, <2>6
<1>6. N \in T
  <2> HIDE DEF T
  <2> QED
    BY <1>1, <1>4, <1>5, CountUp
<1> DEFINE path == w[N]
<1>7. Walking(path, key, N, u) /\ Proved(path, key, N, u)
  BY <1>6
<1>8. path = Descend(pagekeys, u, key)
  BY <1>2 DEF N
<1> HIDE DEF path
<1>9. ~path.lost /\ ~ (2 * N <= Len(key))
  BY <1>1, <1>7 DEF Walking
<1>10. /\ Len(path.proofs) = Len(key)
       /\ Chained(path.proofs, key, HashAsOf(<<>>, u), LeafHash(u, key))
  BY <1>7, <1>9 DEF Proved
<1> QED
  BY <1>8, <1>10

\* From the leaf up the proof gives these hashes for the value, and for no other
\* value any of them.
GoesUp(proofs, hs, key, root_hash, contents) ==
    /\ IsSeq(proofs) /\ Len(proofs) = Len(key)
    /\ hs[0] = root_hash
    /\ \A i \in 1..Len(key) :
          proofs[i].sibling_hash[key[Len(key) + 1 - i]] = hs[Len(key) + 1 - i]
    /\ \A value : \A n \in 0..Len(key) :
          HashesUp(value, proofs)[n] = hs[Len(key) - n] <=> value = contents

LEMMA ProofGoesUp ==
    ASSUME Markers, MerkleInv, Unwritten, todo = {}, NEW key \in Key,
           NEW u \in 1..current_version, Contents(u, key) # Deleted
    PROVE  \E hs :
              GoesUp(GetProof(pagekeys, u, key), hs, key, GetRootHash(pagekeys, u), Contents(u, key))
<1>1. AtRest /\ Put(u, key)
  BY DEF AtRest, MerkleInv, Contents, Put
<1>2. PICK down : down = Descend(pagekeys, u, key).proofs
  OBVIOUS
<1>3. Len(down) = Len(key) /\ Chained(down, key, HashAsOf(<<>>, u), HashFunction(Contents(u, key)))
  BY <1>1, <1>2, ProofLeads DEF LeafHash
<1>4. PICK hs : Chain(hs, down, key, HashAsOf(<<>>, u), HashFunction(Contents(u, key)))
  BY <1>3 DEF Chained
<1>5. GetProof(pagekeys, u, key) = Reverse(down)
  BY <1>2 DEF GetProof, LeafFirst
<1>6. PICK proofs : proofs = Reverse(down)
  OBVIOUS
<1>7. PICK L \in Nat : L = Len(key)
  BY KeyFacts
<1>8. /\ IsSeq(proofs) /\ Len(proofs) = L /\ \A i \in 1..L : proofs[i] = down[L + 1 - i]
      /\ \A value : \A n \in 0..L :
            HashesUp(value, proofs)[n] = hs[L - n] <=> value = Contents(u, key)
  <2>1. IsSeq(down) /\ Len(down) = L
    BY <1>3, <1>7 DEF Chained
  <2>2. ASSUME NEW value
        PROVE  /\ IsSeq(proofs) /\ Len(proofs) = L /\ \A i \in 1..L : proofs[i] = down[L + 1 - i]
               /\ \A n \in 0..L :
                     HashesUp(value, proofs)[n] = hs[L - n] <=> value = Contents(u, key)
    <3>1. PICK top, c : c = Contents(u, key) /\ Chain(hs, down, key, top, HashFunction(c))
      BY <1>4
    <3>2. PICK up : up = HashesUp(value, proofs)
      OBVIOUS
    <3>3. TurnedRound(down, proofs, up, hs, L, value, c)
      <4>1. L = Len(down)
        BY <2>1
      <4> QED
        BY ONLY <1>6, <2>1, <3>1, <3>2, <4>1, ChainUp
    <3> QED
      BY <3>1, <3>2, <3>3 DEF TurnedRound
  <2> QED
    BY <2>2
<1>9. hs[0] = GetRootHash(pagekeys, u)
  BY <1>1, <1>4, RootPageHash DEF Chain, AtRest
<1>10. ASSUME NEW i \in 1..L
       PROVE  proofs[i].sibling_hash[key[L + 1 - i]] = hs[L + 1 - i]
  <2>1. L + 1 - i \in 1..L
    OBVIOUS
  <2> QED
    BY <1>3, <1>4, <1>7, <1>8, <2>1 DEF Chain, ProofNode
<1>11. GoesUp(proofs, hs, key, GetRootHash(pagekeys, u), Contents(u, key))
  BY <1>7, <1>8, <1>9, <1>10 DEF GoesUp
<1> QED
  BY <1>5, <1>6, <1>11

LEMMA KeysProved ==
    ASSUME Markers, MerkleInv
    PROVE  ProofsVerify
<1> SUFFICES ASSUME Idle, Unwritten, NEW u \in 1..current_version, NEW k \in Key,
                    Contents(u, k) # Deleted, NEW value \in ValueString
             PROVE  Verify(value, GetRootHash(pagekeys, u), GetProof(pagekeys, u, k))
                       <=> value = Contents(u, k)
  BY DEF ProofsVerify
<1>1. PICK proofs : proofs = GetProof(pagekeys, u, k)
  OBVIOUS
<1>2. PICK L \in Nat : L = Len(k)
  BY KeyFacts
<1>3. PICK hs : /\ Len(proofs) = L
                /\ hs[0] = GetRootHash(pagekeys, u)
                /\ \A n \in 0..L :
                      HashesUp(value, proofs)[n] = hs[L - n] <=> value = Contents(u, k)
  <2>1. PICK hs : GoesUp(proofs, hs, k, GetRootHash(pagekeys, u), Contents(u, k))
    BY <1>1, ProofGoesUp DEF Idle
  <2> QED
    BY <1>2, <2>1 DEF GoesUp
<1>4. HashesUp(value, proofs)[L] = hs[0] <=> value = Contents(u, k)
  <2>1. L \in 0..L /\ L - L = 0
    OBVIOUS
  <2> QED
    BY <1>3, <2>1
<1> QED
  BY <1>1, <1>3, <1>4 DEF Verify

LEMMA KeysConnect ==
    ASSUME Markers, MerkleInv
    PROVE  PathsConnect
<1> SUFFICES ASSUME Idle, Unwritten, NEW u \in 1..current_version, NEW k \in Key,
                    Contents(u, k) # Deleted,
                    NEW path, path = ProofPath(Contents(u, k), GetProof(pagekeys, u, k))
             PROVE  /\ Len(path) = Len(k)
                    /\ \A node \in Range(path) :
                           node.hash = node.inodes[k[node.index + 1]]
  BY DEF PathsConnect
<1>1. PICK proofs : proofs = GetProof(pagekeys, u, k)
  OBVIOUS
<1>2. PICK L \in Nat : L = Len(k)
  BY KeyFacts
<1>3. PICK value : value = Contents(u, k)
  OBVIOUS
<1>4. PICK hs : /\ IsSeq(proofs) /\ Len(proofs) = L
                /\ \A i \in 1..L : proofs[i].sibling_hash[k[L + 1 - i]] = hs[L + 1 - i]
                /\ \A n \in 0..L : HashesUp(value, proofs)[n] = hs[L - n]
  <2>1. PICK hs : GoesUp(proofs, hs, k, GetRootHash(pagekeys, u), value)
    BY <1>1, <1>3, ProofGoesUp DEF Idle
  <2>2. IsSeq(proofs) /\ Len(proofs) = L
    BY <1>2, <2>1 DEF GoesUp
  <2>3. \A i \in 1..L : proofs[i].sibling_hash[k[L + 1 - i]] = hs[L + 1 - i]
    BY <1>2, <2>1 DEF GoesUp
  <2>4. \A n \in 0..L : HashesUp(value, proofs)[n] = hs[L - n]
    BY <1>2, <2>1 DEF GoesUp
  <2> QED
    BY <2>2, <2>3, <2>4
<1> DEFINE Node(i) == [is_data |-> i = 1, index |-> L - i,
                       hash |-> HashBelow(value, proofs, i), inodes |-> proofs[i].sibling_hash]
<1>5. path = [i \in 1..L |-> Node(i)]
  BY <1>1, <1>3, <1>4, SeqFacts DEF ProofPath
<1>6. ASSUME NEW i \in 1..L PROVE Node(i).hash = Node(i).inodes[k[Node(i).index + 1]]
  <2>1. i - 1 \in 0..L /\ L - (i - 1) = L + 1 - i /\ (L - i) + 1 = L + 1 - i
    OBVIOUS
  <2>2. HashBelow(value, proofs, i) = hs[L + 1 - i]
    BY <1>4, <2>1 DEF HashBelow
  <2>3. /\ Node(i).hash = HashBelow(value, proofs, i) /\ Node(i).index + 1 = L + 1 - i
        /\ Node(i).inodes = proofs[i].sibling_hash
    BY <2>1
  <2> HIDE DEF Node
  <2> QED
    BY <1>4, <2>2, <2>3
<1> HIDE DEF Node
<1>7. Len(path) = L /\ \A node \in Range(path) : \E i \in 1..L : node = Node(i)
  BY <1>5 DEF Range
<1> QED
  BY <1>2, <1>6, <1>7

\* A proof that GetProof makes of a key at a version verifies the value that the
\* version has against the root hash of the version, and no other value: the page
\* hashes it goes through are those of the version, whichever versions the pages
\* stayed at, and a hash in the wrong place or of another version would show.
THEOREM ProofsCorrect == Markers => (Spec => []ProofsVerify)
<1> SUFFICES ASSUME Markers PROVE Spec => []ProofsVerify
  OBVIOUS
<1>1. MerkleInv => ProofsVerify
  BY KeysProved
<1> QED
  BY <1>1, MerkleHolds, PTL

\* In the path that LetusProof hands to a client every node's hash is the entry
\* of the node above it at the next nibble of the key.
THEOREM PathsCorrect == Markers => (Spec => []PathsConnect)
<1> SUFFICES ASSUME Markers PROVE Spec => []PathsConnect
  OBVIOUS
<1>1. MerkleInv => PathsConnect
  BY KeysConnect
<1> QED
  BY <1>1, MerkleHolds, PTL

-----------------------------------------------------------------------------
(* The verification of a whole version *)

\* All that the version holds was written by it, and nothing of it is a deletion.
Rewritten(u) ==
    \A k \in Key : Put(u, k) => k \in DOMAIN value_store[u] /\ Contents(u, k) # Deleted

\* A page is at those versions only that wrote below it.
LEMMA ExactlyWritten ==
    ASSUME Basics, StoreOk, Written, todo = {},
           NEW pid \in Pid, NEW v \in 1..current_version, Exactly(pid, v)
    PROVE  Wrote(pid, v)
<1> DEFINE s == items[pid]
           n == UpdatesUpTo(pid, v)
<1>1. current_version \in Nat /\ v \in Nat \ {0}
  BY VersionFacts
<1>2. n \in 0..Len(s) /\ Whole(pid, n) /\ VersionAt(s, n) = v /\ Len(s) \in Nat
  BY <1>1, UpToFacts DEF Exactly
<1> HIDE DEF n
<1>3. n \in 1..Len(s) /\ s[n].version = v
  BY <1>1, <1>2 DEF VersionAt
<1>4. PICK m \in Paths(Depth(pid)) : m = NibblesAt(pid, s, n)
  BY <1>2, <1>3 DEF StoreOk, PageStored, ItemsFit, Recorded
<1>5. HasGroup(pid, s, m, v)
  BY <1>2, <1>3, <1>4 DEF HasGroup
<1>6. Wrote(pid \o m, v)
  BY <1>5 DEF Written
<1> QED
  BY <1>6, WroteBelow

\* What RecursiveVerify gets of a page: the page as the version has it, when
\* the version wrote below it.
LEMMA PageHere ==
    ASSUME AtRest, NEW u \in 1..current_version, NEW pid \in Pid,
           NEW root, root = GetPage(pagekeys, pid, u).root
    PROVE  /\ ~Wrote(pid, u) => root = NoPage
           /\ Wrote(pid, u) => /\ root # NoPage /\ root.hash = HashAsOf(pid, u)
                               /\ RootAsOf(root, pid, u)
<1>1. /\ Markers /\ IInv /\ HashInv /\ Unwritten /\ todo = {}
      /\ Basics /\ StoreOk /\ Written /\ CacheOk(pagekeys)
      /\ current_version \in Nat /\ u \in Nat
  BY VersionFacts DEF AtRest, IInv, CacheInv
<1>2. /\ root # NoPage <=> Exactly(pid, u)
      /\ root # NoPage => PageAt(root, pid, u)
  BY <1>1, GotPage
<1>3. CASE ~Wrote(pid, u)
  BY <1>1, <1>2, <1>3, ExactlyWritten
<1>4. CASE Wrote(pid, u)
  <2>1. root # NoPage /\ PageAt(root, pid, u)
    BY <1>1, <1>2, <1>4, PageThere
  <2>2. IsLast(u, pid, u)
    BY <1>1, <1>4 DEF IsLast
  <2>3. Latest(pid, u) = u /\ u # 0
    BY <1>1, <2>2, LatestIsLast
  <2>4. HashOf(pid, u) = root.hash /\ RootAsOf(root, pid, u)
    BY <1>1, <2>1, <2>3, RootIsAsOf
  <2> QED
    BY <1>4, <2>1, <2>3, <2>4 DEF HashAsOf
<1> QED
  BY <1>3, <1>4

\* Then what was written below a path was written at this version last.
LEMMA LatestHere ==
    ASSUME Basics, NEW u \in 1..current_version, Rewritten(u), NEW path \in Seq(Nibble)
    PROVE  Latest(path, u) = IF Wrote(path, u) THEN u ELSE 0
<1>1. u \in Nat \ {0} /\ current_version \in Nat
  BY VersionFacts
<1>2. CASE Wrote(path, u)
  <2>1. IsLast(u, path, u)
    BY <1>1, <1>2 DEF IsLast
  <2> QED
    BY <1>1, <1>2, <2>1, LatestIsLast
<1>3. CASE ~Wrote(path, u)
  <2> SUFFICES ASSUME Latest(path, u) # 0 PROVE FALSE
    BY <1>3
  <2>1. PICK k \in Key : Put(u, k) /\ IsPrefix(path, k)
    BY TouchedIsWritten DEF Touched
  <2>2. k \in DOMAIN value_store[u] /\ StartsWith(k, path)
    BY <2>1, PrefixStarts DEF Rewritten
  <2> QED
    BY <1>3, <2>2 DEF Wrote
<1> QED
  BY <1>2, <1>3

\* The value of a key is the one that this version wrote, and no deletion.
LEMMA ValueHere ==
    ASSUME Basics, NEW u \in 1..current_version, Rewritten(u), NEW k \in Key, Wrote(k, u)
    PROVE  HashOfLeaf(value_store[u][k]) = HashFunction(value_store[u][k])
<1> DEFINE T == {v \in 1..u : k \in DOMAIN value_store[v]}
<1>1. u \in Nat \ {0}
  BY VersionFacts
<1>2. k \in DOMAIN value_store[u]
  BY WroteKey
<1>3. u \in T /\ \A y \in T : u >= y
  BY <1>1, <1>2
<1>4. Max(T) \in T /\ \A y \in T : Max(T) >= y
  BY <1>3 DEF Max
<1>5. Max(T) = u
  BY <1>1, <1>3, <1>4
<1>6. Contents(u, k) = value_store[u][k]
  BY <1>3, <1>5 DEF Contents
<1>7. Put(u, k)
  BY <1>1, <1>2 DEF Put
<1> QED
  BY <1>6, <1>7 DEF Rewritten, HashOfLeaf, Deleted

\* Below a page: keys, or other pages.
LEMMA WrittenBelow ==
    ASSUME Basics, NEW u \in 1..current_version, NEW pid \in Pid,
           NEW m \in Paths(Depth(pid)), Wrote(pid \o m, u)
    PROVE  /\ Depth(pid) # 2 => pid \o m \in Key
           /\ Depth(pid) = 2 => pid \o m \in Pid /\ Len(pid \o m) > Len(pid)
<1>1. PICK k \in Key : StartsWith(k, pid \o m)
  BY VersionFacts DEF Wrote
<1>2. pid \in PagesOf(k) /\ NibblesAfter(pid, k) = m
  BY <1>1, StartsBelow
<1>3. PICK path : path = pid \o m
  OBVIOUS
<1>4. /\ Depth(pid) = 2 => path \in Pid /\ Len(path) = Len(pid) + 2
      /\ Depth(pid) # 2 => path = k
  <2>1. path = pid \o NibblesAfter(pid, k)
    BY <1>2, <1>3
  <2> QED
    BY <1>2, <2>1, NextPage
<1>5. Depth(pid) # 2 => path \in Key
  BY <1>4
<1>6. Depth(pid) = 2 => path \in Pid /\ Len(path) > Len(pid)
  <2>1. Len(pid) \in Nat
    BY PidFacts
  <2> QED
    BY <1>4, <2>1
<1> QED
  BY <1>3, <1>5, <1>6

\* A leaf of the page, which was read from the location that it names.
LEMMA LeafVerified ==
    ASSUME Basics, NEW u \in 1..current_version, Rewritten(u),
           NEW pid \in Pid, Depth(pid) # 2, NEW m \in Paths(Depth(pid)),
           NEW leaf, LeafLinks(leaf, Latest(pid \o m, u), pid \o m)
    PROVE  /\ Latest(pid \o m, u) = u
           /\ ValueHash(leaf) = HashOfLeaf(value_store[u][pid \o m])
<1>1. PICK path : path = pid \o m
  OBVIOUS
<1>2. path \in Seq(Nibble) /\ u # 0
  BY <1>1, PathFacts, VersionFacts
<1>3. Latest(path, u) = u /\ Wrote(path, u)
  BY <1>1, <1>2, LatestHere DEF LeafLinks
<1>4. path \in Key
  BY <1>1, <1>3, WrittenBelow
<1>5. leaf.location = [version |-> u, key |-> path]
  BY <1>1, <1>3 DEF LeafLinks
<1>6. ValueHash(leaf) = HashFunction(value_store[u][path])
  BY <1>5 DEF ValueHash, ReadValue
<1>7. HashOfLeaf(value_store[u][path]) = HashFunction(value_store[u][path])
  BY <1>3, <1>4, ValueHere
<1> QED
  BY <1>1, <1>3, <1>6, <1>7

\* A page that is a leaf node.
LEMMA NoLevelVerified ==
    ASSUME Basics, NEW u \in 1..current_version, Rewritten(u), NEW pid \in Pid, Depth(pid) = 0,
           NEW root, root # NoPage, RootAsOf(root, pid, u), NEW pages
    PROVE  VerifiedPage(pid, root, pages) = root.hash
<1> DEFINE m == [x \in 1..0 |-> 0]
<1>1. m \in Paths(Depth(pid)) /\ m \in Paths(0)
  BY DEF Paths
<1>2. Len(m) = 0
  BY <1>1, PathsAreSequences
<1> HIDE DEF m
<1>3. PICK x : x = Latest(pid \o m, u)
  OBVIOUS
<1>4. /\ root # NoNode /\ PageRoot(root, 0)
      /\ Links(root, m, x, pid \o m) /\ HashAt(root, m) = HashBeneath(pid, m, x)
  BY <1>1, <1>3 DEF RootAsOf, PageShape
<1>5. LeafLinks(root, x, pid \o m) /\ x # 0
  BY <1>2, <1>4 DEF Links, LeafLinks
<1>6. x = u /\ ValueHash(root) = HashOfLeaf(value_store[u][pid \o m])
  BY <1>1, <1>3, <1>5, LeafVerified
<1>7. root.hash = HashOfLeaf(value_store[u][pid \o m])
  BY <1>2, <1>4, <1>5, <1>6 DEF HashAt, HashBeneath
<1>8. root.is_leaf
  <2>1. LeafNode(root)
    BY <1>4 DEF PageRoot
  <2> QED
    BY <2>1 DEF LeafNode
<1> QED
  BY <1>6, <1>7, <1>8 DEF VerifiedPage

\* The hash of an index node, from what was found of its children.
LEMMA HashedFrom ==
    ASSUME NEW node, HashedNode(node), NEW found,
           \A i \in Nibble : found[i] = node.children[i].hash
    PROVE  HashFunction(FlattenSeq([i \in 1..Fanout |-> found[i - 1]])) = node.hash
<1>1. \A i \in 1..Fanout : i - 1 \in Nibble
  BY FanoutAssumption DEF Nibble
<1>2. [i \in 1..Fanout |-> node.children[i - 1].hash] = [i \in 1..Fanout |-> found[i - 1]]
  BY <1>1
<1> QED
  BY <1>2 DEF HashedNode, ConcatenatedHash

\* A page of one level above its leaf nodes.
LEMMA OneLevelVerified ==
    ASSUME Basics, NEW u \in 1..current_version, Rewritten(u), NEW pid \in Pid, Depth(pid) = 1,
           NEW root, root # NoPage, RootAsOf(root, pid, u), NEW pages
    PROVE  VerifiedPage(pid, root, pages) = root.hash
<1>1. /\ HashedNode(root)
      /\ \A i \in Nibble : root.children[i].hash =
            IF HasChild(root, i) THEN root.children[i].node.hash ELSE EmptyString
  BY DEF RootAsOf, PageHashed
<1>2. /\ ~root.is_leaf
      /\ \A i \in Nibble : HasChild(root, i) => LeafNode(root.children[i].node)
  <2>1. IndexNode(root) /\ SecondLevel(root, 1)
    BY DEF RootAsOf, PageShape, PageRoot
  <2> QED
    BY <2>1 DEF IndexNode, SecondLevel
<1> DEFINE child(i) == VerifiedChild(pid, i, root.children[i].node, pages)
           found == [i \in Nibble |-> IF HasChild(root, i) THEN child(i) ELSE EmptyString]
<1>3. ASSUME NEW i \in Nibble, HasChild(root, i)
      PROVE  child(i) = root.children[i].node.hash
  <2>1. PICK m \in Paths(1) : Len(m) = 1 /\ m[1] = i
    BY OneNibble
  <2>2. PICK x : x = Latest(pid \o m, u)
    OBVIOUS
  <2>3. PICK leaf : leaf = root.children[i].node
    OBVIOUS
  <2>4. /\ root # NoNode
        /\ Links(root, m, x, pid \o m) /\ HashAt(root, m) = HashBeneath(pid, m, x)
    BY <2>1, <2>2 DEF RootAsOf
  <2>5. LeafLinks(leaf, x, pid \o m) /\ x # 0
    BY <1>3, <2>1, <2>3, <2>4 DEF Links, LeafLinks
  <2>6. x = u /\ ValueHash(leaf) = HashOfLeaf(value_store[u][pid \o m])
    BY <2>1, <2>2, <2>5, LeafVerified
  <2>7. leaf.hash = HashOfLeaf(value_store[u][pid \o m])
    BY <1>3, <2>1, <2>3, <2>4, <2>5, <2>6 DEF HashAt, HashBeneath
  <2>8. leaf.is_leaf
    BY <1>2, <1>3, <2>3 DEF LeafNode
  <2> QED
    BY <2>3, <2>6, <2>7, <2>8 DEF VerifiedChild
<1>4. \A i \in Nibble : found[i] = root.children[i].hash
  BY <1>1, <1>3
<1>5. \A i \in 1..Fanout : i - 1 \in Nibble
  BY FanoutAssumption DEF Nibble
<1>6. VerifiedPage(pid, root, pages)
      = HashFunction(FlattenSeq([i \in 1..Fanout |-> found[i - 1]]))
  <2>1. [i \in 1..Fanout |-> IF HasChild(root, i - 1) THEN child(i - 1) ELSE EmptyString]
        = [i \in 1..Fanout |-> found[i - 1]]
    BY <1>5
  <2> QED
    BY <1>2, <2>1 DEF VerifiedPage
<1> HIDE DEF found
<1> QED
  BY <1>1, <1>4, <1>6, HashedFrom

LEMMA PairPath ==
    ASSUME NEW pid \in Pid, Depth(pid) = 2, NEW i \in Nibble, NEW j \in Nibble
    PROVE  /\ <<i, j>> \in Paths(Depth(pid)) /\ <<i, j>>[1] = i /\ <<i, j>>[2] = j
           /\ Len(<<i, j>>) = 2
           /\ Append(Append(pid, i), j) = pid \o <<i, j>>
<1>1. PICK m \in Paths(2) : /\ Len(m) = 2 /\ m[1] = i /\ m[2] = j
                            /\ Append(Append(pid, i), j) = pid \o m
  BY TwoNibbles
<1>2. m = [x \in 1..2 |-> m[x]]
  BY DEF Paths
<1>3. <<i, j>> = [x \in 1..2 |-> IF x = 1 THEN i ELSE j]
  OBVIOUS
<1>4. m = <<i, j>>
  <2>1. [x \in 1..2 |-> m[x]] = [x \in 1..2 |-> IF x = 1 THEN i ELSE j]
    <3>1. \A x \in 1..2 : x = 1 \/ x = 2
      OBVIOUS
    <3> QED
      BY <1>1, <3>1
  <2> QED
    BY <1>2, <1>3, <2>1
<1> QED
  BY <1>1, <1>4

\* A node of the second level, from the pages below it.
LEMMA SecondVerified ==
    ASSUME Basics, NEW u \in 1..current_version, Rewritten(u), NEW pid \in Pid, Depth(pid) = 2,
           NEW root, RootAsOf(root, pid, u), NEW pages,
           \A p \in Pid : Len(p) > Len(pid) => pages[p] = HashAsOf(p, u),
           NEW i \in Nibble, HasChild(root, i), NEW child, child = root.children[i].node
    PROVE  VerifiedChild(pid, i, child, pages) = child.hash
<1>1. IndexNode(child) /\ Zeroed(child) /\ SecondHashed(child) /\ ~child.is_leaf
  <2>1. IndexNode(child) /\ Zeroed(child)
    BY DEF RootAsOf, PageShape, PageRoot, SecondLevel
  <2>2. SecondHashed(child)
    BY DEF RootAsOf, PageHashed
  <2> QED
    BY <2>1, <2>2 DEF IndexNode
<1> DEFINE found == [j \in Nibble |-> IF HasChild(child, j) THEN pages[pid \o <<i, j>>]
                                      ELSE EmptyString]
<1>2. ASSUME NEW j \in Nibble PROVE found[j] = child.children[j].hash
  <2>1. PICK m \in Paths(Depth(pid)) : m = <<i, j>> /\ Append(Append(pid, i), j) = pid \o m
    BY PairPath
  <2>2. PICK path : path = Append(Append(pid, i), j)
    OBVIOUS
  <2>3. PICK x : x = Latest(path, u)
    OBVIOUS
  <2>4. /\ path \in Seq(Nibble) /\ child.children[j].version = x
        /\ child.children[j].hash = HashOf(path, x)
    BY <2>2, <2>3, SecondNibble
  <2>5. CASE HasChild(child, j)
    <3>1. x # 0
      BY <1>1, <2>4, <2>5 DEF SecondHashed
    <3>2. Wrote(path, u)
      BY <2>3, <2>4, <3>1, LatestHere
    <3>3. path \in Pid /\ Len(path) > Len(pid)
      BY <2>1, <2>2, <3>2, WrittenBelow
    <3>4. pages[path] = HashAsOf(path, u)
      BY <3>3
    <3> QED
      BY <2>1, <2>2, <2>3, <2>4, <2>5, <3>4 DEF HashAsOf
  <2>6. CASE ~HasChild(child, j)
    <3>1. x = 0
      BY <1>1, <2>4, <2>6 DEF Zeroed
    <3> QED
      BY <2>4, <2>6, <3>1 DEF HashOf
  <2> QED
    BY <2>5, <2>6
<1>3. \A n \in 1..Fanout : n - 1 \in Nibble
  BY FanoutAssumption DEF Nibble
<1>4. VerifiedChild(pid, i, child, pages)
      = HashFunction(FlattenSeq([n \in 1..Fanout |-> found[n - 1]]))
  <2>1. [n \in 1..Fanout |-> IF HasChild(child, n - 1) THEN pages[pid \o <<i, n - 1>>]
                             ELSE EmptyString]
        = [n \in 1..Fanout |-> found[n - 1]]
    BY <1>3
  <2> QED
    BY <1>1, <2>1 DEF VerifiedChild
<1> HIDE DEF found
<1> QED
  BY <1>1, <1>2, <1>4, HashedFrom DEF SecondHashed

\* A page of two levels, above other pages.
LEMMA TwoLevelVerified ==
    ASSUME Basics, NEW u \in 1..current_version, Rewritten(u), NEW pid \in Pid, Depth(pid) = 2,
           NEW root, root # NoPage, RootAsOf(root, pid, u), NEW pages,
           \A p \in Pid : Len(p) > Len(pid) => pages[p] = HashAsOf(p, u)
    PROVE  VerifiedPage(pid, root, pages) = root.hash
<1>1. /\ HashedNode(root) /\ ~root.is_leaf
      /\ \A i \in Nibble : root.children[i].hash =
            IF HasChild(root, i) THEN root.children[i].node.hash ELSE EmptyString
  <2>1. IndexNode(root) /\ PageHashed(root, 2) /\ root # NoNode
    BY DEF RootAsOf, PageShape, PageRoot
  <2>2. ~root.is_leaf
    BY <2>1 DEF IndexNode
  <2> QED
    BY <2>1, <2>2 DEF PageHashed
<1> DEFINE child(i) == VerifiedChild(pid, i, root.children[i].node, pages)
           found == [i \in Nibble |-> IF HasChild(root, i) THEN child(i) ELSE EmptyString]
<1>2. \A i \in Nibble : HasChild(root, i) => child(i) = root.children[i].node.hash
  BY SecondVerified
<1>3. \A i \in Nibble : found[i] = root.children[i].hash
  BY <1>1, <1>2
<1>4. \A i \in 1..Fanout : i - 1 \in Nibble
  BY FanoutAssumption DEF Nibble
<1>5. VerifiedPage(pid, root, pages)
      = HashFunction(FlattenSeq([i \in 1..Fanout |-> found[i - 1]]))
  <2>1. [i \in 1..Fanout |-> IF HasChild(root, i - 1) THEN child(i - 1) ELSE EmptyString]
        = [i \in 1..Fanout |-> found[i - 1]]
    BY <1>4
  <2> QED
    BY <1>1, <2>1 DEF VerifiedPage
<1> HIDE DEF found
<1> QED
  BY <1>1, <1>3, <1>5, HashedFrom

\* RecursiveVerify gives every page the hash that the page has, when it does so
\* for the pages with longer ids.
LEMMA PageVerified ==
    ASSUME AtRest, NEW u \in 1..current_version, Rewritten(u), NEW pid \in Pid, NEW pages,
           \A p \in Pid : Len(p) > Len(pid) => pages[p] = HashAsOf(p, u)
    PROVE  VerifiedPage(pid, GetPage(pagekeys, pid, u).root, pages) = HashAsOf(pid, u)
<1>1. Basics /\ u \in Nat
  BY VersionFacts DEF AtRest, IInv
<1>2. PICK root : root = GetPage(pagekeys, pid, u).root
  OBVIOUS
<1>3. CASE Wrote(pid, u)
  <2>1. root # NoPage /\ root.hash = HashAsOf(pid, u) /\ RootAsOf(root, pid, u)
    BY <1>2, <1>3, PageHere
  <2>2. Depth(pid) \in 0..2
    BY PidFacts
  <2>3. VerifiedPage(pid, root, pages) = root.hash
    BY <1>1, <2>1, <2>2, NoLevelVerified, OneLevelVerified, TwoLevelVerified
  <2> QED
    BY <1>2, <2>1, <2>3
<1>4. CASE ~Wrote(pid, u)
  <2>1. root = NoPage
    BY <1>2, <1>4, PageHere
  <2>2. pid \in Seq(Nibble)
    BY PidFacts
  <2>3. HashAsOf(pid, u) = EmptyString
    BY <1>1, <1>4, <2>2, LatestHere DEF HashAsOf, HashOf
  <2> QED
    BY <1>2, <2>1, <2>3 DEF VerifiedPage
<1> QED
  BY <1>3, <1>4

LEMMA VersionVerified ==
    ASSUME Markers, KeysBounded, MerkleInv, Unwritten, todo = {},
           NEW u \in 1..current_version, Rewritten(u)
    PROVE  RecursiveVerify(u) = GetRootHash(pagekeys, u)
<1>1. AtRest /\ <<>> \in Pid /\ GetRootHash(pagekeys, u) = HashAsOf(<<>>, u)
  BY RootPageHash DEF AtRest, MerkleInv
<1> DEFINE Body(f) == [pid \in Pid |-> VerifiedPage(pid, GetPage(pagekeys, pid, u).root, f)]
           r == CHOOSE f : f = Body(f)
           g == [pid \in Pid |-> HashAsOf(pid, u)]
<1>2. RecursiveVerify(u) = r[<<>>]
  BY DEF RecursiveVerify
<1>3. g = Body(g)
  <2>1. \A p \in Pid : g[p] = HashAsOf(p, u)
    OBVIOUS
  <2>2. g = [pid \in Pid |-> g[pid]]
    OBVIOUS
  <2> HIDE DEF g
  <2>3. \A p \in Pid : VerifiedPage(p, GetPage(pagekeys, p, u).root, g) = g[p]
    BY <1>1, <2>1, PageVerified
  <2> QED
    BY <2>2, <2>3
<1> HIDE DEF g
<1>4. r = Body(r)
  BY <1>3
<1> HIDE DEF r
<1>5. \A p \in Pid : r[p] = VerifiedPage(p, GetPage(pagekeys, p, u).root, r)
  BY <1>4
<1>6. ASSUME NEW q \in Pid, r[q] # HashAsOf(q, u) PROVE FALSE
  <2>1. PICK n \in Nat : \A p \in Pid : Len(p) \in 0..n
    BY IdsBounded
  <2> DEFINE T == {x \in 0..n : \E p \in Pid : r[p] # HashAsOf(p, u) /\ Len(p) = x}
  <2>2. T \in SUBSET (0..n) /\ T # {}
    <3>1. Len(q) \in T
      BY <1>6, <2>1
    <3> QED
      BY <3>1
  <2>3. PICK x \in T : \A y \in T : y <= x
    <3> HIDE DEF T
    <3> QED
      BY <2>2, GreatestElement
  <2>4. PICK pid \in Pid : r[pid] # HashAsOf(pid, u) /\ Len(pid) = x
    BY <2>3
  <2>5. ASSUME NEW p \in Pid, Len(p) > Len(pid) PROVE r[p] = HashAsOf(p, u)
    <3>1. Len(p) \in 0..n /\ Len(p) \notin T
      BY <2>1, <2>3, <2>4, <2>5
    <3> QED
      BY <3>1
  <2>6. VerifiedPage(pid, GetPage(pagekeys, pid, u).root, r) = HashAsOf(pid, u)
    BY <1>1, <2>5, PageVerified
  <2> QED
    BY <1>5, <2>4, <2>6
<1> QED
  BY <1>1, <1>2, <1>6

LEMMA WholeHolds ==
    ASSUME Markers, KeysBounded, MerkleInv
    PROVE  WholeVerified
<1> SUFFICES ASSUME Idle, Unwritten, NEW u \in 1..current_version,
                    \A k \in Key : Put(u, k) =>
                        k \in DOMAIN value_store[u] /\ Contents(u, k) # Deleted
             PROVE  RecursiveVerify(u) = GetRootHash(pagekeys, u)
  BY DEF WholeVerified
<1>1. Rewritten(u) /\ todo = {}
  BY DEF Rewritten, Idle
<1> QED
  BY <1>1, VersionVerified

\* The verification of a whole version, which asks for every page at that very
\* version, gives its root hash when the version wrote all that it holds.
THEOREM VerifiedWhole == Markers /\ KeysBounded => (Spec => []WholeVerified)
<1> SUFFICES ASSUME Markers, KeysBounded PROVE Spec => []WholeVerified
  OBVIOUS
<1>1. MerkleInv => WholeVerified
  BY WholeHolds
<1> QED
  BY <1>1, MerkleHolds, PTL

=============================================================================
