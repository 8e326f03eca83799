---------------------------- MODULE PageChainProofs ----------------------------
(***************************************************************************)
(* Proofs about PageChain: the page's pages are well formed, its two       *)
(* update counters stay in step, and a commit freezes at most one delta    *)
(* page.  LoadPage stays opaque: what it returns is used only where an     *)
(* action guards it with membership in Page.                               *)
(***************************************************************************)
EXTENDS PageChain, FiniteSetTheorems, SequenceTheorems, TLAPS

ActivePage == [items : Seq(Item), last : Key, count : Nat, bcount : Nat]

\* What separates a commit from the time between two.
CommitShape ==
    /\ pc = "idle" => staged = NothingStaged /\ ~if_exceed /\ pending = {}
    /\ pc = "update" => version <= LastVersion /\ page \in Page

\* The updates still to make fit in what is left of at most two delta pages,
\* and in what is left of one once a delta page has been frozen.
RoomLeft ==
    /\ if_exceed => active.count = 0
    /\ pc = "update" /\ ~if_exceed =>
          /\ active.count + Weight * Cardinality(pending) < 2 * Td
          /\ staged.delta # None =>
                active.count + Weight * Cardinality(pending) < Td

IInv == TypeOK /\ CommitShape /\ CountsInStep /\ RoomLeft

-----------------------------------------------------------------------------
(* The thresholds, and the pages the steps build *)

\* The thresholds without the remark that Td is even.
LEMMA Thresholds ==
    Weight \in Nat /\ Weight \in {1, 2} /\ Td \in Nat /\ Td >= 1 /\ Tb = 2 * Td
BY ThresholdAssumption

\* How one update moves the counters, while the delta page has room and at the
\* update that fills it.
LEMMA CounterStep ==
    ASSUME NEW c \in Nat, NEW b \in Nat, b \in {c, c + Td}
    PROVE  /\ b + Weight \in {c + Weight, (c + Weight) + Td}
           /\ c + Weight < Td => b + Weight < Tb
           /\ c + Weight = Td => b + Weight \in {Td, Tb}
<1>1. Weight \in Nat /\ Td \in Nat /\ Tb = 2 * Td
  BY Thresholds
<1> QED
  BY <1>1

\* A commit's version is a version, and names stored pages.
LEMMA VersionKeys ==
    ASSUME NEW v \in Version
    PROVE  /\ v \in 0..LastVersion
           /\ BaseKey(v) \in Key
           /\ DeltaKey(v) \in Key
BY VersionAssumption DEF Version, BaseKey, DeltaKey, Key

\* A page nobody has updated is a page.
LEMMA NewPageType == NewPage \in Page
BY VersionAssumption DEF NewPage, Page, Contents, Never

\* The active delta page after one more item.
LEMMA GrownType ==
    ASSUME NEW d \in ActivePage, NEW n \in Slot, version \in Version
    PROVE  /\ Grown(d, n) \in ActivePage
           /\ Len(Grown(d, n).items) = Len(d.items) + 1
           /\ Grown(d, n).count = d.count + Weight
           /\ Grown(d, n).bcount = d.bcount + Weight
           /\ Grown(d, n).last = d.last
<1> DEFINE item == [slot |-> n, version |-> version]
<1>1. item \in Item
  BY DEF Item
<1>2. d.items \in Seq(Item) /\ d.count \in Nat /\ d.bcount \in Nat /\ d.last \in Key
  BY DEF ActivePage
<1>3. Append(d.items, item) \in Seq(Item) /\ Len(Append(d.items, item)) = Len(d.items) + 1
  BY <1>1, <1>2, AppendProperties
<1>4. d.count + Weight \in Nat /\ d.bcount + Weight \in Nat
  BY <1>2, Thresholds
<1>5. /\ Grown(d, n).items = Append(d.items, item) /\ Grown(d, n).last = d.last
      /\ Grown(d, n).count = d.count + Weight /\ Grown(d, n).bcount = d.bcount + Weight
  BY DEF Grown, ActivePage
<1>6. Grown(d, n) \in ActivePage
  BY <1>1, <1>2, <1>3, <1>4 DEF Grown, ActivePage
<1> QED
  BY <1>3, <1>5, <1>6

\* The active delta page once frozen, or once its base page is stored.
LEMMA ClearedType ==
    ASSUME NEW d \in ActivePage, version \in Version
    PROVE  /\ Cleared(d) \in ActivePage
           /\ Cleared(d).items = <<>> /\ Cleared(d).last = DeltaKey(version)
           /\ Cleared(d).count = 0 /\ Cleared(d).bcount = d.bcount
           /\ Rebased(d) \in ActivePage
           /\ Rebased(d).items = d.items /\ Rebased(d).last = BaseKey(version)
           /\ Rebased(d).count = d.count /\ Rebased(d).bcount = 0
<1>1. DeltaKey(version) \in Key /\ BaseKey(version) \in Key
  BY VersionKeys
<1>2. <<>> \in Seq(Item)
  BY EmptySeq
<1>3. Cleared(d) \in ActivePage /\ Rebased(d) \in ActivePage
  BY <1>1, <1>2 DEF Cleared, Rebased, ActivePage
<1>4. /\ Cleared(d).items = <<>> /\ Cleared(d).last = DeltaKey(version)
      /\ Cleared(d).count = 0 /\ Cleared(d).bcount = d.bcount
  BY DEF Cleared, ActivePage
<1>5. /\ Rebased(d).items = d.items /\ Rebased(d).last = BaseKey(version)
      /\ Rebased(d).count = d.count /\ Rebased(d).bcount = 0
  BY DEF Rebased, ActivePage
<1> QED
  BY <1>3, <1>4, <1>5

\* The frozen copy of an active delta page is a stored delta page.
LEMMA FrozenType ==
    ASSUME NEW d \in ActivePage
    PROVE  Frozen(d) \in Delta /\ Frozen(d) # None
BY NoneAssumption DEF Frozen, ActivePage, Delta

\* The page with slot n updated.
LEMMA WrittenType ==
    ASSUME page \in Page, version \in Version, NEW n \in Slot
    PROVE  Written(n) \in Page
BY VersionKeys DEF Written, Page, Contents

\* Storing a page, or none, keeps a table of pages.
LEMMA StoredType ==
    ASSUME NEW P, NEW table \in [Version -> P \cup {None}], NEW p \in P \cup {None}
    PROVE  Stored(table, p) \in [Version -> P \cup {None}]
BY DEF Stored

-----------------------------------------------------------------------------
(* The steps *)

\* The page before its first commit is consistent.
LEMMA InitInv == Init => IInv
<1> SUFFICES ASSUME Init PROVE IInv
  OBVIOUS
<1>1. TypeOK
  <2>1. BaseKey(0) \in Key /\ <<>> \in Seq(Item)
    BY VersionAssumption, EmptySeq DEF BaseKey, Key
  <2>2. active \in [items : Seq(Item), last : Key, count : Nat, bcount : Nat]
    BY <2>1 DEF Init
  <2>3. staged \in [delta : Delta \cup {None}, base : Page \cup {None}]
    BY DEF Init, NothingStaged
  <2>4. latest \in Contents
    BY NewPageType DEF Init, Page
  <2>5. page_version \in [current : 0..LastVersion, base : 0..LastVersion]
    BY VersionAssumption DEF Init
  <2>6. version \in FirstVersion..(LastVersion + 1)
    BY VersionAssumption DEF Init
  <2>7. /\ frozen \in [Version -> Delta \cup {None}]
        /\ base \in [Version -> Page \cup {None}]
        /\ history \in [Version -> Contents \cup {None}]
    BY DEF Init
  <2>8. /\ pc \in {"idle", "update"} /\ pending \in SUBSET Slot /\ if_exceed \in BOOLEAN
        /\ page \in Page \cup {NotCached} /\ deltapage_versions \in SUBSET Version
    BY DEF Init
  <2> QED
    BY <2>2, <2>3, <2>4, <2>5, <2>6, <2>7, <2>8 DEF TypeOK
<1>2. CommitShape
  BY DEF Init, CommitShape
<1>3. CountsInStep
  BY Thresholds DEF Init, CountsInStep, BaseKey
<1>4. RoomLeft
  BY DEF Init, RoomLeft
<1> QED
  BY <1>1, <1>2, <1>3, <1>4 DEF IInv

\* A set of pending slots is finite; the one updated leaves one less.
LEMMA PendingCount ==
    ASSUME NEW S \in SUBSET Slot
    PROVE  /\ Cardinality(S) \in Nat
           /\ \A n \in S : Cardinality(S \ {n}) = Cardinality(S) - 1
           /\ S # {} => Cardinality(S) > 0
<1>1. IsFiniteSet(S)
  BY SlotAssumption, FS_Subset
<1> QED
  BY <1>1, FS_CardinalityType, FS_RemoveElement, FS_EmptySet

\* Beginning a commit leaves room for its updates.
LEMMA BeginCommitInv ==
    ASSUME IInv, NEW S \in (SUBSET Slot) \ {{}}, BeginCommit(S)
    PROVE  IInv'
<1>1. /\ pc = "idle" /\ version \in Version /\ version <= LastVersion
      /\ active \in ActivePage
      /\ staged = NothingStaged /\ staged.delta = None /\ staged.base = None
      /\ ~if_exceed
      /\ active.count < Td /\ active.bcount < Tb
  BY VersionAssumption
  DEF BeginCommit, IInv, TypeOK, CommitShape, CountsInStep, Version, ActivePage, NothingStaged
<1>2. /\ pc' = "update" /\ pending' = S /\ page' \in Page
      /\ if_exceed' = Exceeds(S)
      /\ version' = version /\ page_version' = page_version
      /\ frozen' = frozen /\ base' = base
  BY DEF BeginCommit, storeVars
<1>3. CASE Exceeds(S) /\ active.count # 0
  <2>1. /\ staged' = [staged EXCEPT !.delta = Frozen(active)]
        /\ active' = Cleared(active)
        /\ deltapage_versions' = deltapage_versions \cup {version}
    BY <1>3 DEF BeginCommit
  <2>2. staged' = [delta |-> Frozen(active), base |-> None]
    BY <1>1, <2>1 DEF NothingStaged
  <2>3. staged' \in [delta : Delta \cup {None}, base : Page \cup {None}]
    BY <1>1, <2>2, FrozenType
  <2>4. /\ active'.items = <<>> /\ active'.count = 0
        /\ active'.bcount = active.bcount /\ active' \in ActivePage
    BY <1>1, <2>1, ClearedType
  <2>5. active'.count = Weight * Len(active'.items)
    BY <2>4, Thresholds
  <2>6. TypeOK'
    <3>1. history' \in [Version -> Contents \cup {None}] /\ latest' \in Contents
      BY <1>1 DEF BeginCommit, IInv, TypeOK, Contents
    <3> QED
      BY <1>1, <1>2, <2>1, <2>3, <2>4, <3>1 DEF IInv, TypeOK, ActivePage, Exceeds
  <2>7. CountsInStep'
    BY <1>1, <1>2, <1>3, <2>4, <2>5, Thresholds DEF CountsInStep
  <2> QED
    BY <1>1, <1>2, <1>3, <2>4, <2>6, <2>7 DEF IInv, CommitShape, RoomLeft
<1>4. CASE ~(Exceeds(S) /\ active.count # 0)
  <2>1. UNCHANGED <<staged, active, deltapage_versions>>
    BY <1>4 DEF BeginCommit
  <2>2. TypeOK'
    <3>1. history' \in [Version -> Contents \cup {None}] /\ latest' \in Contents
      BY <1>1 DEF BeginCommit, IInv, TypeOK, Contents
    <3> QED
      BY <1>1, <1>2, <2>1, <3>1 DEF IInv, TypeOK, Exceeds
  <2>3. CountsInStep'
    BY <1>1, <1>2, <2>1 DEF IInv, CountsInStep
  <2>4. RoomLeft'
    <3>1. if_exceed' => active'.count = 0
      BY <1>2, <1>4, <2>1
    <3>2. ~if_exceed' => active.count + Weight * Cardinality(S) < 2 * Td
      <4>1. Cardinality(S) \in Nat /\ active.count \in Nat
        BY <1>1, PendingCount DEF ActivePage
      <4>2. ~if_exceed' => 2 * Cardinality(S) + active.count < 2 * Td
        <5>1. ~if_exceed' => ~(2 * Cardinality(S) + active.count >= 2 * Td)
          BY <1>2 DEF Exceeds
        <5> QED
          BY <4>1, <5>1, Thresholds
      <4>3. Weight * Cardinality(S) <= 2 * Cardinality(S)
        <5>1. CASE Weight = 1
          BY <4>1, <5>1
        <5>2. CASE Weight = 2
          BY <4>1, <5>2
        <5> QED
          BY <5>1, <5>2, Thresholds
      <4>4. Weight * Cardinality(S) \in Nat
        BY <4>1, Thresholds
      <4> QED
        BY <4>1, <4>2, <4>3, <4>4, Thresholds
    <3> QED
      BY <1>1, <1>2, <2>1, <3>1, <3>2 DEF RoomLeft
  <2> QED
    BY <1>1, <1>2, <2>1, <2>2, <2>3, <2>4 DEF IInv, CommitShape
<1> QED
  BY <1>3, <1>4

\* The active delta page after one update of a commit that goes through it,
\* and its delta page frozen on the way.
LEMMA DeltaStep ==
    ASSUME IInv, pc = "update", ~if_exceed, NEW n \in pending, UpdateThroughDelta(n)
    PROVE  /\ active' \in ActivePage
           /\ active'.count = Weight * Len(active'.items)
           /\ active'.count < Td /\ active'.bcount < Tb
           /\ active'.bcount \in {active'.count, active'.count + Td}
           /\ active'.bcount # active'.count <=> active'.last.type = "delta"
           /\ staged'.delta \in Delta \cup {None}
           /\ \/ staged'.delta = staged.delta /\ active'.count = active.count + Weight
              \/ active'.count = 0 /\ active.count + Weight >= Td
           /\ staged'.base \in Page \cup {None}
<1> DEFINE grown == Grown(active, n)
           kept == IF Freezes(grown) THEN Cleared(grown) ELSE grown
<1>1. /\ active \in ActivePage /\ version \in Version /\ n \in Slot /\ page \in Page
      /\ active.count \in Nat /\ active.bcount \in Nat
      /\ staged.delta \in Delta \cup {None} /\ staged.base \in Page \cup {None}
  BY VersionAssumption DEF IInv, TypeOK, CommitShape, ActivePage, Version
<1>2. /\ active.count = Weight * Len(active.items) /\ active.count < Td
      /\ active.bcount \in {active.count, active.count + Td}
      /\ active.bcount # active.count <=> active.last.type = "delta"
  BY DEF IInv, CountsInStep
<1>3. /\ active.bcount + Weight \in {active.count + Weight, (active.count + Weight) + Td}
      /\ active.count + Weight < Td => active.bcount + Weight < Tb
      /\ active.count + Weight = Td => active.bcount + Weight \in {Td, Tb}
  <2>1. active.count \in Nat /\ active.bcount \in Nat
    BY <1>1
  <2>2. active.bcount \in {active.count, active.count + Td}
    BY <1>2
  <2> QED
    BY <2>1, <2>2, CounterStep
<1>4. active.count + Weight \in Nat /\ active.bcount + Weight \in Nat /\ Td \in Nat /\ Tb \in Nat
  BY <1>1, Thresholds
<1>5. /\ grown \in ActivePage
      /\ Len(grown.items) = Len(active.items) + 1
      /\ grown.count = active.count + Weight
      /\ grown.bcount = active.bcount + Weight
      /\ grown.last = active.last
  BY <1>1, GrownType
<1>6. /\ active' = IF Checkpoints(grown) THEN Rebased(kept) ELSE kept
      /\ staged' = [delta |-> IF Freezes(grown) THEN Frozen(grown) ELSE staged.delta,
                    base |-> IF Checkpoints(grown) THEN Written(n) ELSE staged.base]
  BY DEF UpdateThroughDelta
<1>7. Freezes(grown) <=> grown.count >= Td
  BY DEF Freezes
<1>8. Checkpoints(grown) <=> grown.bcount >= Tb
  BY DEF Checkpoints
<1>9. staged'.delta \in Delta \cup {None} /\ staged'.base \in Page \cup {None}
  BY <1>1, <1>5, <1>6, FrozenType, WrittenType
<1>10. Len(active.items) \in Nat
  BY <1>1, LenProperties DEF ActivePage
<1>11. grown.count <= Td
  <2>1. CASE Weight = 1
    BY <1>1, <1>2, <1>5, <2>1, Thresholds
  <2>2. CASE Weight = 2
    <3>1. Td \in Nat /\ Td % 2 = 0
      BY ThresholdAssumption
    <3>2. active.count = 2 * Len(active.items)
      BY <1>2, <2>2
    <3> QED
      BY <1>1, <1>2, <1>5, <1>10, <2>2, <3>1, <3>2
  <2> QED
    BY <2>1, <2>2, Thresholds
<1>12. grown.count = Weight * Len(grown.items)
  <2>1. CASE Weight = 1
    BY <1>2, <1>5, <1>10, <2>1
  <2>2. CASE Weight = 2
    BY <1>2, <1>5, <1>10, <2>2
  <2> QED
    BY <2>1, <2>2, Thresholds
<1> HIDE DEF grown, kept
<1>13. CASE ~Freezes(grown)
  <2>1. ~Checkpoints(grown)
    <3>1. grown.count = active.count + Weight /\ grown.bcount = active.bcount + Weight
      BY <1>5
    <3>2. active.count + Weight < Td
      BY <1>7, <1>13, <1>4, <3>1
    <3>3. active.bcount + Weight < Tb
      BY <1>3, <3>2
    <3> QED
      BY <1>8, <1>4, <3>1, <3>3
  <2>2. active' = grown /\ staged'.delta = staged.delta
    BY <1>6, <1>13, <2>1 DEF kept
  <2>3. /\ active'.count = active.count + Weight /\ active'.count < Td
        /\ active'.bcount = active.bcount + Weight /\ active'.last = active.last
    BY <1>1, <1>5, <1>7, <1>13, <2>2, Thresholds
  <2>4. /\ active'.bcount \in {active'.count, active'.count + Td} /\ active'.bcount < Tb
        /\ active'.bcount # active'.count <=> active.bcount # active.count
    <3>1. /\ active'.count = active.count + Weight
          /\ active'.bcount = active.bcount + Weight
          /\ active'.last = active.last
      BY <2>3
    <3>2. active.count + Weight < Td
      BY <2>3
    <3>3. active'.bcount \in {active'.count, active'.count + Td} /\ active'.bcount < Tb
      BY <1>3, <3>1, <3>2
    <3>4. active'.bcount # active'.count <=> active.bcount # active.count
      <4>1. active.count \in Nat /\ active.bcount \in Nat /\ Weight \in Nat
        BY <1>1, Thresholds
      <4> QED
        BY <3>1, <4>1
    <3> QED
      BY <2>3, <3>3, <3>4
  <2> QED
    BY <1>2, <1>5, <1>9, <1>12, <2>2, <2>3, <2>4
<1>14. CASE Freezes(grown)
  <2>1. grown.count = Td
    BY <1>5, <1>1, <1>7, <1>11, <1>14, Thresholds
  <2>2. /\ kept \in ActivePage /\ kept.items = <<>> /\ kept.last = DeltaKey(version)
        /\ kept.count = 0 /\ kept.bcount = grown.bcount
    BY <1>1, <1>5, <1>14, ClearedType DEF kept
  <2>3. /\ Rebased(kept) \in ActivePage /\ Rebased(kept).items = <<>>
        /\ Rebased(kept).last = BaseKey(version)
        /\ Rebased(kept).count = 0 /\ Rebased(kept).bcount = 0
    BY <1>1, <2>2, ClearedType
  <2>4. grown.bcount \in {Td, Tb}
    <3>1. grown.count = active.count + Weight /\ grown.bcount = active.bcount + Weight
      BY <1>5
    <3> QED
      BY <1>3, <2>1, <3>1
  <2>5. Len(<<>>) = 0 /\ 0 = Weight * 0 /\ active.count + Weight >= Td
    BY <1>5, <2>1, Thresholds, EmptySeq
  <2>6. CASE Checkpoints(grown)
    <3>1. active' = Rebased(kept)
      BY <1>6, <2>6
    <3> QED
      BY <1>9, <2>3, <2>5, <3>1, Thresholds DEF BaseKey
  <2>7. CASE ~Checkpoints(grown)
    <3>1. active' = kept
      BY <1>6, <2>7
    <3>2. kept.bcount = Td
      BY <1>8, <2>2, <2>4, <2>7, Thresholds
    <3> QED
      BY <1>9, <2>2, <2>5, <3>1, <3>2, Thresholds DEF DeltaKey
  <2> QED
    BY <2>6, <2>7
<1> QED
  BY <1>13, <1>14

\* One update of a commit leaves room for the others.
LEMMA UpdatePageInv ==
    ASSUME IInv, NEW n \in pending, UpdatePage(n)
    PROVE  IInv' /\ (staged.delta # None => staged'.delta = staged.delta)
<1>1. /\ pc = "update" /\ version \in Version /\ version <= LastVersion
      /\ page \in Page /\ n \in Slot /\ pending \in SUBSET Slot
      /\ active.count \in Nat
  BY VersionAssumption DEF UpdatePage, IInv, TypeOK, CommitShape, Version
<1>2. /\ page' = Written(n) /\ page' \in Page /\ pending' = pending \ {n}
      /\ UNCHANGED <<version, pc, if_exceed, frozen, base, history, latest>>
  BY <1>1, WrittenType DEF UpdatePage, storeVars, ghostVars
<1>3. version \in 0..LastVersion
  BY <1>1, VersionKeys
<1>4. CASE if_exceed
  <2>1. /\ page_version' = [page_version EXCEPT !.current = version]
        /\ UNCHANGED <<active, deltapage_versions, staged>>
    BY <1>4 DEF UpdatePage, UpdateInPlace
  <2>2. page_version' \in [current : 0..LastVersion, base : 0..LastVersion]
    BY <1>3, <2>1 DEF IInv, TypeOK
  <2>3. TypeOK'
    BY <1>1, <1>2, <2>1, <2>2 DEF IInv, TypeOK
  <2> QED
    BY <1>1, <1>2, <1>4, <2>1, <2>3 DEF IInv, CommitShape, CountsInStep, RoomLeft
<1>5. CASE ~if_exceed
  <2>1. UpdateThroughDelta(n)
    BY <1>5 DEF UpdatePage
  <2>2. /\ active' \in ActivePage
        /\ active'.count = Weight * Len(active'.items)
        /\ active'.count < Td /\ active'.bcount < Tb
        /\ active'.bcount \in {active'.count, active'.count + Td}
        /\ active'.bcount # active'.count <=> active'.last.type = "delta"
        /\ staged'.delta \in Delta \cup {None}
        /\ \/ staged'.delta = staged.delta /\ active'.count = active.count + Weight
           \/ active'.count = 0 /\ active.count + Weight >= Td
        /\ staged'.base \in Page \cup {None}
    BY <1>1, <1>5, <2>1, DeltaStep
  <2>3. /\ page_version' \in [current : 0..LastVersion, base : 0..LastVersion]
        /\ deltapage_versions' \in SUBSET Version
        /\ staged' \in [delta : Delta \cup {None}, base : Page \cup {None}]
    <3>1. page_version.base \in 0..LastVersion
      BY DEF IInv, TypeOK
    <3>2. deltapage_versions' \in SUBSET Version
      BY <1>1, <2>1 DEF UpdateThroughDelta, IInv, TypeOK
    <3> QED
      BY <1>3, <2>1, <2>2, <3>1, <3>2 DEF UpdateThroughDelta
  <2>4. TypeOK'
    BY <1>1, <1>2, <2>2, <2>3 DEF IInv, TypeOK, ActivePage
  <2>5. CountsInStep'
    BY <2>2 DEF CountsInStep
  <2>6. /\ Cardinality(pending) \in Nat /\ Cardinality(pending) > 0
        /\ Cardinality(pending') = Cardinality(pending) - 1
    BY <1>1, <1>2, PendingCount
  <2>7. /\ active.count + Weight * Cardinality(pending) < 2 * Td
        /\ staged.delta # None => active.count + Weight * Cardinality(pending) < Td
    BY <1>1, <1>5 DEF IInv, RoomLeft
  <2>8. Weight * Cardinality(pending) = Weight * Cardinality(pending') + Weight
        /\ Weight * Cardinality(pending') \in Nat
    <3>1. CASE Weight = 1
      BY <2>6, <3>1
    <3>2. CASE Weight = 2
      BY <2>6, <3>2
    <3> QED
      BY <3>1, <3>2, Thresholds
  <2>9. CASE staged'.delta = staged.delta /\ active'.count = active.count + Weight
    <3>1. active'.count + Weight * Cardinality(pending')
            = active.count + Weight * Cardinality(pending)
      BY <1>1, <2>8, <2>9, Thresholds
    <3>2. RoomLeft'
      BY <1>2, <1>5, <2>7, <2>9, <3>1 DEF RoomLeft
    <3> QED
      BY <1>1, <1>2, <2>4, <2>5, <2>9, <3>2 DEF IInv, CommitShape
  <2>10. CASE active'.count = 0 /\ active.count + Weight >= Td
    <3>1. staged.delta = None
      BY <1>1, <2>7, <2>8, <2>10, Thresholds
    <3>2. active'.count + Weight * Cardinality(pending') < Td
      BY <1>1, <2>7, <2>8, <2>10, Thresholds
    <3>3. RoomLeft'
      BY <1>2, <1>5, <2>8, <2>10, <3>2, Thresholds DEF RoomLeft
    <3> QED
      BY <1>1, <1>2, <2>4, <2>5, <3>1, <3>3 DEF IInv, CommitShape
  <2> QED
    BY <2>2, <2>9, <2>10
<1> QED
  BY <1>4, <1>5

\* The end of a commit, direct or through the delta pages.
LEMMA EndCommitInv == IInv /\ EndCommit => IInv'
<1> SUFFICES ASSUME IInv, EndCommit PROVE IInv'
  OBVIOUS
<1>1. /\ pc = "update" /\ version \in Version /\ version <= LastVersion
      /\ page \in Page /\ active \in ActivePage /\ version \in 0..LastVersion
      /\ active.count \in Nat
  BY VersionAssumption, VersionKeys
  DEF EndCommit, IInv, TypeOK, CommitShape, Version, ActivePage
<1>2. /\ pc' = "idle" /\ staged' = NothingStaged /\ if_exceed' = FALSE
      /\ pending' = {} /\ version' = version + 1
      /\ UNCHANGED <<page, deltapage_versions, history, latest>>
  BY DEF EndCommit, ghostVars
<1>3. frozen' \in [Version -> Delta \cup {None}] /\ base' \in [Version -> Page \cup {None}]
  <2>1. staged.delta \in Delta \cup {None} /\ staged.base \in Page \cup {None}
    BY DEF IInv, TypeOK
  <2>2. frozen' \in [Version -> Delta \cup {None}]
    BY <2>1, StoredType DEF EndCommit, IInv, TypeOK
  <2>3. base' \in [Version -> Page \cup {None}]
    BY <1>1, <2>1, StoredType DEF EndCommit, IInv, TypeOK
  <2> QED
    BY <2>2, <2>3
<1>4. page_version' \in [current : 0..LastVersion, base : 0..LastVersion]
  BY <1>1 DEF EndCommit, IInv, TypeOK
<1>5. version' \in FirstVersion..(LastVersion + 1)
  BY <1>1, <1>2, VersionAssumption DEF Version
<1>6. active' \in ActivePage /\ CountsInStep'
  <2>1. CASE if_exceed
    <3>1. active' = Rebased(active) /\ active.count = 0
      BY <2>1 DEF EndCommit, IInv, RoomLeft
    <3>2. /\ active' \in ActivePage /\ active'.items = active.items
          /\ active'.last = BaseKey(version)
          /\ active'.count = 0 /\ active'.bcount = 0
      BY <1>1, <3>1, ClearedType
    <3>3. active'.count = Weight * Len(active'.items)
      BY <3>1, <3>2 DEF IInv, CountsInStep
    <3> QED
      BY <3>2, <3>3, Thresholds DEF CountsInStep, BaseKey
  <2>2. CASE ~if_exceed
    <3>1. active' = active
      BY <2>2 DEF EndCommit
    <3> QED
      BY <1>1, <2>2, <3>1 DEF IInv, CountsInStep
  <2> QED
    BY <2>1, <2>2
<1>7. TypeOK'
  <2>1. staged' \in [delta : Delta \cup {None}, base : Page \cup {None}]
    BY <1>2 DEF NothingStaged
  <2> QED
    BY <1>1, <1>2, <1>3, <1>4, <1>5, <1>6, <2>1 DEF IInv, TypeOK, ActivePage
<1> QED
  BY <1>2, <1>6, <1>7 DEF IInv, CommitShape, RoomLeft

\* Commits of other pages, and what the LRU cache does between commits.
LEMMA BetweenCommitsInv ==
    ASSUME IInv, CommitElsewhere \/ Evict \/ Fetch
    PROVE  IInv'
<1>1. /\ pc = "idle" /\ pc' = "idle"
      /\ UNCHANGED <<pending, if_exceed, active, deltapage_versions, page_version,
                     staged, frozen, base, history, latest>>
      /\ page' \in Page \cup {NotCached}
      /\ version' \in FirstVersion..(LastVersion + 1)
  <2>1. CASE CommitElsewhere
    BY <2>1, VersionAssumption
    DEF CommitElsewhere, IInv, TypeOK, chainVars, storeVars, ghostVars
  <2>2. CASE Evict
    BY <2>2 DEF Evict, IInv, TypeOK, chainVars, storeVars, ghostVars
  <2>3. CASE Fetch
    BY <2>3 DEF Fetch, IInv, TypeOK, chainVars, storeVars, ghostVars
  <2> QED
    BY <2>1, <2>2, <2>3
<1>2. TypeOK'
  BY <1>1 DEF IInv, TypeOK
<1> QED
  BY <1>1, <1>2 DEF IInv, CommitShape, CountsInStep, RoomLeft

\* Every step keeps the invariant, and a staged delta page until it is stored.
LEMMA NextInv ==
    ASSUME IInv, [Next]_vars
    PROVE  IInv' /\ (staged.delta # None => staged'.delta \in {staged.delta, None})
<1>1. ASSUME NEW S \in (SUBSET Slot) \ {{}}, BeginCommit(S)
      PROVE  IInv' /\ staged.delta = None
  BY <1>1, BeginCommitInv DEF BeginCommit, IInv, CommitShape, NothingStaged
<1>2. ASSUME NEW n \in pending, UpdatePage(n)
      PROVE  IInv' /\ (staged.delta # None => staged'.delta = staged.delta)
  BY <1>2, UpdatePageInv
<1>3. CASE EndCommit
  BY <1>3, EndCommitInv DEF EndCommit, NothingStaged
<1>4. CASE CommitElsewhere \/ Evict \/ Fetch
  BY <1>4, BetweenCommitsInv DEF CommitElsewhere, Evict, Fetch, chainVars
<1>5. CASE UNCHANGED vars
  <2>1. IInv'
    BY <1>5 DEF vars, IInv, TypeOK, CommitShape, CountsInStep, RoomLeft
  <2> QED
    BY <1>5, <2>1 DEF vars
<1> QED
  BY <1>1, <1>2, <1>3, <1>4, <1>5 DEF Next

-----------------------------------------------------------------------------
(* The theorems *)

\* The inductive invariant holds throughout.
THEOREM Invariance == Spec => []IInv
<1>1. IInv /\ [Next]_vars => IInv'
  BY NextInv
<1> QED
  BY <1>1, InitInv, PTL DEF Spec

\* Pages, delta pages and tables are well formed in every state.
THEOREM TypeCorrect == Spec => []TypeOK
<1>1. IInv => TypeOK
  BY DEF IInv
<1> QED
  BY <1>1, Invariance, PTL

\* The two update counters of the active delta page stay in step, whatever the
\* sizes of the commits, so that a base page is due at every second freeze.
THEOREM CountersInStep == Spec => []CountsInStep
<1>1. IInv => CountsInStep
  BY DEF IInv
<1> QED
  BY <1>1, Invariance, PTL

\* No commit freezes a second delta page over the one it has staged.
THEOREM OneFreezePerCommit == Spec => FrozenOncePerCommit
<1>1. IInv /\ [Next]_vars => (staged.delta # None => staged'.delta \in {staged.delta, None})
  BY NextInv
<1> QED
  BY <1>1, Invariance, PTL DEF Spec, FrozenOncePerCommit
=============================================================================
