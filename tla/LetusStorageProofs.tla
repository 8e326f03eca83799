-------------------------- MODULE LetusStorageProofs --------------------------
(***************************************************************************)
(* Proofs about LetusStorage: under the documented order of calls no       *)
(* update is refused, every block is served as it was hashed, and the      *)
(* version counters of the wrapper and the trie never come apart.          *)
(***************************************************************************)
EXTENDS LetusStorage, TLAPS

\* How the two counters, the version Get reads and the block under way lie.
CountersTogether ==
    /\ current_version <= current_seq_no
    /\ current_seq_no = stable_seq_no + 1
    /\ hashed # None => current_seq_no = hashed + 1
    /\ written # None => stable_seq_no = written + 1
    /\ written = None => stable_seq_no = 0

\* The blocks hashed so far are those before the next one to hash.
BlocksInOrder ==
    \A s \in Seq0 :
        /\ sealed[s] # None => s < current_seq_no
        /\ sealed[s] # None /\ s = GetSeqNo => hashed = s
        /\ s = hashed \/ s = written => sealed[s] # None

\* The latest version of the trie is what the blocks add up to.
HeadStored ==
    /\ root_version = 0 => head = EmptyLedger
    /\ root_version # 0 => contents[root_version] = head

\* Every hashed block is a version of the trie.
BlocksStored ==
    \A s \in Seq0 : sealed[s] # None => contents[s + 1] = sealed[s]

IInv ==
    TypeOK /\ NothingLost /\ CountersTogether /\ BlocksInOrder /\ HeadStored /\ BlocksStored

\* Making updates gives a ledger again.
LEMMA OverlayType ==
    ASSUME NEW ledger \in Ledger, NEW updates \in Updates
    PROVE  Overlay(ledger, updates) \in Ledger
BY MarkAssumption DEF Overlay, Ledger, Updates

\* A new store is well typed and consistent.
LEMMA InitInv == Init => IInv
<1> SUFFICES ASSUME Init PROVE IInv
  OBVIOUS
<1>1. TypeOK
  BY SeqAssumption
  DEF Init, TypeOK, NoUpdates, EmptyLedger, Updates, Ledger, Version, Seq0
<1>2. NothingLost
  BY DEF Init, NothingLost
<1>3. CountersTogether
  BY DEF Init, CountersTogether
<1>4. BlocksInOrder
  BY NoneAssumption DEF Init, BlocksInOrder
<1>5. HeadStored
  BY DEF Init, HeadStored
<1>6. BlocksStored
  BY DEF Init, BlocksStored
<1> QED
  BY <1>1, <1>2, <1>3, <1>4, <1>5, <1>6 DEF IInv

\* A Put or Delete is taken, at the version of the block under way.
LEMMA UpdateInv ==
    ASSUME IInv, NEW k \in Key, NEW val \in Value \cup {Absent}, Update(k, val)
    PROVE  IInv'
<1>1. ~Outdated(current_seq_no)
  BY DEF IInv, TypeOK, CountersTogether, Outdated
<1>2. /\ current_version' = current_seq_no
      /\ put_cache' = [put_cache EXCEPT ![k] = val]
      /\ asked' = [asked EXCEPT ![k] = val]
      /\ UNCHANGED <<stable_seq_no, current_seq_no, root_version, contents,
                     hashed, head, sealed, written>>
  BY <1>1 DEF Update, wrapperVars
<1>3. put_cache' \in Updates /\ asked' \in Updates
  BY <1>2 DEF IInv, TypeOK, Updates
<1>4. TypeOK'
  BY <1>2, <1>3, SeqAssumption DEF IInv, TypeOK
<1>5. NothingLost'
  BY <1>2 DEF IInv, NothingLost
<1>6. CountersTogether'
  BY <1>2, SeqAssumption DEF IInv, TypeOK, CountersTogether
<1>7. BlocksInOrder' /\ HeadStored' /\ BlocksStored'
  BY <1>2 DEF IInv, BlocksInOrder, HeadStored, BlocksStored, GetSeqNo
<1> QED
  BY <1>4, <1>5, <1>6, <1>7 DEF IInv

\* What Hash does, the updates in the trie being those the client asked for.
LEMMA HashEffect ==
    ASSUME IInv, Hash, asked # NoUpdates
    PROVE  /\ head \in Ledger /\ head' \in Ledger
           /\ head' = Overlay(head, asked)
           /\ contents' = [contents EXCEPT ![current_seq_no] = head']
           /\ root_version' = current_seq_no
           /\ current_seq_no \in Version
           /\ GetSeqNo \in Seq0 /\ GetSeqNo + 1 = current_seq_no
           /\ hashed = None /\ hashed' = GetSeqNo
           /\ put_cache' = NoUpdates /\ asked' = NoUpdates
           /\ sealed' = [sealed EXCEPT ![GetSeqNo] = head']
           /\ UNCHANGED <<stable_seq_no, current_seq_no, current_version, written>>
<1>1. head \in Ledger /\ asked \in Updates /\ put_cache = asked
  BY DEF IInv, TypeOK, NothingLost
<1>2. GetSeqNo \in Seq0 /\ GetSeqNo + 1 = current_seq_no /\ current_seq_no \in Version
  BY SeqAssumption DEF Hash, IInv, TypeOK, GetSeqNo, Seq0, Version
<1>3. head = IF root_version = 0 THEN EmptyLedger ELSE contents[root_version]
  BY DEF IInv, HeadStored
<1>4. head' = Overlay(head, asked) /\ head' \in Ledger
  BY <1>1, OverlayType DEF Hash
<1>5. VersionOf(GetSeqNo) = current_seq_no
  BY <1>2 DEF VersionOf
<1>6. contents' = [contents EXCEPT ![current_seq_no] = head'] /\ root_version' = current_seq_no
  BY <1>1, <1>3, <1>4, <1>5 DEF Hash, CalcRootHash
<1> QED
  BY <1>1, <1>2, <1>4, <1>6 DEF Hash, CalcRootHash, wrapperVars

\* Hash turns the updates into the version that follows.
LEMMA HashInv == IInv /\ Hash /\ asked # NoUpdates => IInv'
<1> SUFFICES ASSUME IInv, Hash, asked # NoUpdates PROVE IInv'
  OBVIOUS
<1> USE HashEffect
<1>1. TypeOK'
  <2>1. NoUpdates \in Updates
    BY DEF NoUpdates, Updates
  <2>2. contents' \in [Version -> Ledger \cup {None}]
    BY DEF IInv, TypeOK
  <2>3. sealed' \in [Seq0 -> Ledger \cup {None}]
    BY DEF IInv, TypeOK
  <2>4. root_version' \in 0..(MaxSeq + 1)
    BY SeqAssumption DEF Version
  <2> QED
    BY <2>1, <2>2, <2>3, <2>4 DEF IInv, TypeOK
<1>2. NothingLost'
  BY DEF NothingLost
<1>3. CountersTogether'
  BY DEF IInv, CountersTogether
<1>4. BlocksInOrder'
  <2> SUFFICES ASSUME NEW s \in Seq0
               PROVE  /\ sealed'[s] # None => s < current_seq_no
                      /\ sealed'[s] # None /\ s = GetSeqNo => hashed' = s
                      /\ s = hashed' \/ s = written => sealed'[s] # None
    BY DEF BlocksInOrder, GetSeqNo
  <2>1. head' # None
    BY NoneAssumption
  <2>2. sealed \in [Seq0 -> Ledger \cup {None}]
    BY DEF IInv, TypeOK
  <2>3. CASE s = GetSeqNo
    <3>1. sealed'[s] = head'
      BY <2>2, <2>3
    <3>2. s < current_seq_no
      BY <2>3 DEF Seq0
    <3> QED
      BY <2>1, <2>3, <3>1, <3>2
  <2>4. CASE s # GetSeqNo
    <3>1. sealed'[s] = sealed[s]
      BY <2>2, <2>4
    <3> QED
      BY <2>4, <3>1 DEF IInv, BlocksInOrder
  <2> QED
    BY <2>3, <2>4
<1>5. HeadStored'
  <2>1. contents'[current_seq_no] = head'
    BY DEF IInv, TypeOK
  <2>2. current_seq_no # 0
    BY DEF Version
  <2> QED
    BY <2>1, <2>2 DEF HeadStored
<1>6. BlocksStored'
  <2> SUFFICES ASSUME NEW s \in Seq0, sealed'[s] # None
               PROVE  contents'[s + 1] = sealed'[s]
    BY DEF BlocksStored
  <2>1. s + 1 \in Version
    BY SeqAssumption DEF Seq0, Version
  <2>2. contents \in [Version -> Ledger \cup {None}] /\ sealed \in [Seq0 -> Ledger \cup {None}]
    BY DEF IInv, TypeOK
  <2>3. CASE s = GetSeqNo
    BY <2>2, <2>3
  <2>4. CASE s # GetSeqNo
    <3>1. s + 1 # current_seq_no
      BY <2>4 DEF Seq0
    <3>2. contents'[s + 1] = contents[s + 1] /\ sealed'[s] = sealed[s]
      BY <2>1, <2>2, <2>4, <3>1
    <3> QED
      BY <3>2 DEF IInv, BlocksStored
  <2> QED
    BY <2>3, <2>4
<1> QED
  BY <1>1, <1>2, <1>3, <1>4, <1>5, <1>6 DEF IInv

\* Write makes the hashed block the stable one and opens the next.
LEMMA WriteInv == IInv /\ Write => IInv'
<1> SUFFICES ASSUME IInv, Write PROVE IInv'
  OBVIOUS
<1>1. /\ hashed \in Seq0 /\ hashed # None
      /\ current_seq_no = hashed + 1
      /\ stable_seq_no' = hashed + 1
      /\ current_seq_no' = hashed + 2
      /\ written' = hashed
      /\ hashed' = None
      /\ UNCHANGED <<current_version, put_cache, root_version, contents, asked, head, sealed>>
  BY DEF Write, IInv, TypeOK, CountersTogether, trieVars
<1>2. TypeOK'
  BY <1>1, SeqAssumption DEF IInv, TypeOK, Seq0
<1>3. NothingLost'
  BY <1>1 DEF IInv, NothingLost
<1>4. CountersTogether'
  BY <1>1, NoneAssumption DEF IInv, TypeOK, CountersTogether, Seq0
<1>5. BlocksInOrder'
  <2> SUFFICES ASSUME NEW s \in Seq0
               PROVE  /\ sealed[s] # None => s < current_seq_no'
                      /\ sealed[s] # None => s # current_seq_no' - 1
                      /\ s = hashed' \/ s = written' => sealed[s] # None
    BY <1>1 DEF BlocksInOrder, GetSeqNo
  <2>1. sealed[s] # None => s < current_seq_no
    BY DEF IInv, BlocksInOrder
  <2>2. s = hashed => sealed[s] # None
    BY DEF IInv, BlocksInOrder
  <2>3. s # None
    BY NoneAssumption
  <2> QED
    BY <1>1, <2>1, <2>2, <2>3 DEF Seq0
<1>6. HeadStored' /\ BlocksStored'
  BY <1>1 DEF IInv, HeadStored, BlocksStored
<1> QED
  BY <1>2, <1>3, <1>4, <1>5, <1>6 DEF IInv

\* Every step keeps the invariant.
LEMMA NextInv == IInv /\ [Next]_vars => IInv'
<1> SUFFICES ASSUME IInv, [Next]_vars PROVE IInv'
  OBVIOUS
<1>1. ASSUME NEW k \in Key, NEW val \in Value, Put(k, val) PROVE IInv'
  BY <1>1, UpdateInv DEF Put
<1>2. ASSUME NEW k \in Key, Delete(k) PROVE IInv'
  BY <1>2, UpdateInv DEF Delete
<1>3. CASE asked # NoUpdates /\ Hash
  BY <1>3, HashInv
<1>4. CASE Write
  BY <1>4, WriteInv
<1>5. CASE UNCHANGED vars
  BY <1>5 DEF vars, wrapperVars, trieVars, ghostVars, IInv, TypeOK, NothingLost,
              CountersTogether, BlocksInOrder, HeadStored, BlocksStored, GetSeqNo
<1> QED
  BY <1>1, <1>2, <1>3, <1>4, <1>5 DEF Next

\* The inductive invariant holds throughout.
THEOREM Invariance == Spec => []IInv
<1> QED
  BY InitInv, NextInv, PTL DEF Spec

\* Type correctness of every state under the documented order of calls.
THEOREM TypeCorrect == Spec => []TypeOK
<1>1. IInv => TypeOK
  BY DEF IInv
<1> QED
  BY <1>1, Invariance, PTL

\* No Put or Delete is ever refused behind the client's back.
THEOREM NoUpdateLost == Spec => []NothingLost
<1>1. IInv => NothingLost
  BY DEF IInv
<1> QED
  BY <1>1, Invariance, PTL

\* Every hashed block can be read at its version for ever.
THEOREM BlocksReadable == Spec => []HistoryKept
<1>1. IInv => HistoryKept
  <2> SUFFICES ASSUME IInv, NEW s \in Seq0, sealed[s] # None, NEW k \in Key
               PROVE  ReadAt(VersionOf(s), k) = sealed[s][k]
    BY DEF HistoryKept
  <2>1. VersionOf(s) = s + 1 /\ s + 1 \in Version
    BY SeqAssumption DEF VersionOf, Seq0, Version
  <2>2. contents[s + 1] = sealed[s]
    BY DEF IInv, BlocksStored
  <2> QED
    BY <2>1, <2>2 DEF ReadAt
<1> QED
  BY <1>1, Invariance, PTL

\* Get answers with the block written last.
THEOREM LastBlockServed == Spec => []BlockServed
<1>1. IInv => BlockServed
  <2> SUFFICES ASSUME IInv, written # None, NEW k \in Key
               PROVE  Get(k) = sealed[written][k]
    BY DEF BlockServed
  <2>1. written \in Seq0
    BY DEF IInv, TypeOK
  <2>2. sealed[written] # None
    BY <2>1 DEF IInv, BlocksInOrder
  <2>3. contents[written + 1] = sealed[written]
    BY <2>1, <2>2 DEF IInv, BlocksStored
  <2>4. ReadVersion = written + 1 /\ written + 1 \in Version
    BY <2>1, SeqAssumption DEF IInv, CountersTogether, ReadVersion, Seq0, Version
  <2> QED
    BY <2>2, <2>3, <2>4 DEF Get, ReadAt
<1> QED
  BY <1>1, Invariance, PTL

\* The answers of Get change with Write alone.
THEOREM ReadsAreStable == Spec => SnapshotRead
<1>1. ASSUME IInv, [Next]_vars, stable_seq_no # 0, stable_seq_no' = stable_seq_no
      PROVE  \A k \in Key : Get(k)' = Get(k)
  <2>1. ReadVersion = stable_seq_no /\ ReadVersion' = stable_seq_no
    BY <1>1 DEF ReadVersion
  <2>2. contents \in [Version -> Ledger \cup {None}]
    BY <1>1 DEF IInv, TypeOK
  <2>3. \A v \in Version : v = stable_seq_no => contents'[v] = contents[v]
    <3>1. CASE asked # NoUpdates /\ Hash
      <4>1. contents' = [contents EXCEPT ![current_seq_no] = head']
        BY <1>1, <3>1, HashEffect
      <4>2. current_seq_no # stable_seq_no
        BY <1>1 DEF IInv, TypeOK, CountersTogether
      <4> QED
        BY <2>2, <4>1, <4>2
    <3>2. CASE UNCHANGED contents
      BY <3>2
    <3> QED
      BY <1>1, <3>1, <3>2
      DEF Next, Put, Delete, Update, Write, vars, trieVars
  <2> QED
    BY <2>1, <2>3 DEF Get, ReadAt
<1> QED
  BY <1>1, Invariance, PTL DEF Spec, SnapshotRead
=============================================================================
