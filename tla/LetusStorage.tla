----------------------------- MODULE LetusStorage -----------------------------
(***************************************************************************)
(* The blockchain's view of the store: the Go wrapper LetusKVStroage over  *)
(* the trie.  The wrapper counts blocks by sequence number, the trie by    *)
(* version, which is one more.  A block is a batch of Put and Delete that  *)
(* the trie gathers in put_cache_; Hash(seq) (CalcRootHash) turns them     *)
(* into a version of the trie, Write(seq) makes that version the one Get   *)
(* reads.  The client calls them in the documented order with the numbers  *)
(* GetSeqNo returns; updates of the next block may come between the two.   *)
(*                                                                         *)
(* The pages of the trie do not appear (PageChain models them): contents[v] *)
(* is what a Get at version v finds from the root page of version v down,  *)
(* and there is no root page of a version at which nothing was updated.    *)
(* Commit and the flush of Write change nothing a client sees.             *)
(***************************************************************************)
EXTENDS Integers

CONSTANTS
    Key,        \* the hashed keys
    Value,      \* nonempty values
    Absent,     \* the empty string: a deleted key, or no answer
    Untouched,  \* put_cache_ has no entry for the key
    None,       \* no such version, no such block
    MaxSeq      \* bound: sequence number of the last block

ASSUME SeqAssumption == MaxSeq \in Nat
ASSUME MarkAssumption == Absent \notin Value /\ Untouched \notin Value \cup {Absent}

VARIABLES
    stable_seq_no,    \* version Get reads, 0 before the first Write
    current_seq_no,   \* version Put and Delete ask for
    current_version,  \* current_version_ of the trie
    put_cache,        \* updates since the last CalcRootHash
    root_version,     \* version of the latest root page, 0 if there is none
    contents,         \* contents[v]: the trie at version v, or None
    hashed,           \* ghost: block hashed and not yet written, or None
    asked,            \* ghost: updates the client asked for since its last Hash
    head,             \* ghost: what the hashed blocks add up to
    sealed,           \* ghost: sealed[s]: head after block s, or None
    written           \* ghost: block the client wrote last, or None

wrapperVars == <<stable_seq_no, current_seq_no>>
trieVars == <<current_version, put_cache, root_version, contents>>
ghostVars == <<hashed, asked, head, sealed, written>>
vars == <<wrapperVars, trieVars, ghostVars>>

Seq0 == 0..MaxSeq
Version == 1..(MaxSeq + 1)
Ledger == [Key -> Value \cup {Absent}]
Updates == [Key -> Value \cup {Absent, Untouched}]

ASSUME NoneAssumption == None \notin Seq0 /\ None \notin Ledger

NoUpdates == [k \in Key |-> Untouched]
EmptyLedger == [k \in Key |-> Absent]

Init ==
    /\ stable_seq_no = 0
    /\ current_seq_no = 1
    /\ current_version = 0
    /\ put_cache = NoUpdates
    /\ root_version = 0
    /\ contents = [v \in Version |-> None]
    /\ hashed = None
    /\ asked = NoUpdates
    /\ head = EmptyLedger
    /\ sealed = [s \in Seq0 |-> None]
    /\ written = None

-----------------------------------------------------------------------------
(* Reading *)

GetSeqNo == current_seq_no - 1

\* DMMTrie::Get, down from the root page of version v.
ReadAt(v, k) ==
    IF v \in Version /\ contents[v] # None THEN contents[v][k] ELSE Absent

\* Mutant: the version is taken for a sequence number once more.
ReadShifted == IF stable_seq_no = 0 THEN 1 ELSE stable_seq_no - 1

\* Mutant: the version being built is read.
ReadCurrent == current_seq_no

ReadVersion == IF stable_seq_no = 0 THEN 1 ELSE stable_seq_no

Get(k) == ReadAt(ReadVersion, k)

-----------------------------------------------------------------------------
(* One block *)

\* Mutant: a second update at the same version is refused.
OutdatedAtOnce(v) == v <= current_version

\* DMMTrie::Put and Delete refuse a version behind the trie's.
Outdated(v) == v < current_version

\* Put of a value, or Delete, which puts the empty string.  The wrapper
\* reports no error when the trie refuses.
Update(k, val) ==
    /\ IF Outdated(current_seq_no)
       THEN UNCHANGED <<current_version, put_cache>>
       ELSE /\ current_version' = current_seq_no
            /\ put_cache' = [put_cache EXCEPT ![k] = val]
    /\ asked' = [asked EXCEPT ![k] = val]
    /\ UNCHANGED <<wrapperVars, root_version, contents, hashed, head, sealed, written>>

Put(k, val) == val \in Value /\ Update(k, val)

Delete(k) == Update(k, Absent)

\* Mutant: the new version holds the updated keys only.
UpdatedOnly(ledger, updates) == updates

\* The ledger with the updates made.
Overlay(ledger, updates) ==
    [k \in Key |-> IF updates[k] = Untouched THEN ledger[k] ELSE updates[k]]

\* Mutant: the pages are stored under the version of the last Put.
VersionOfLastPut(seq) == current_version

\* The version Hash gives to the block seq.
VersionOf(seq) == seq + 1

\* The root page is taken at its latest version; with no updates no page is
\* touched.  A version other than current_version is reported, not refused.
CalcRootHash(version) ==
    /\ IF put_cache = NoUpdates
       THEN UNCHANGED <<root_version, contents>>
       ELSE /\ contents' = [contents EXCEPT ![version] =
                               Overlay(IF root_version = 0 THEN EmptyLedger
                                       ELSE contents[root_version], put_cache)]
            /\ root_version' = version
    /\ put_cache' = NoUpdates
    /\ UNCHANGED <<wrapperVars, current_version>>

\* The client hashes its block under the number GetSeqNo returns.
Hash ==
    /\ hashed = None
    /\ GetSeqNo \in Seq0
    /\ CalcRootHash(VersionOf(GetSeqNo))
    /\ hashed' = GetSeqNo
    /\ asked' = NoUpdates
    /\ head' = Overlay(head, asked)
    /\ sealed' = [sealed EXCEPT ![GetSeqNo] = head']
    /\ UNCHANGED written

\* ... and then writes it.
Write ==
    /\ hashed # None
    /\ stable_seq_no' = hashed + 1
    /\ current_seq_no' = hashed + 2
    /\ written' = hashed
    /\ hashed' = None
    /\ UNCHANGED <<trieVars, asked, head, sealed>>

\* A block with at least one update, and the documented order of calls.
Next ==
    \/ \E k \in Key, val \in Value : Put(k, val)
    \/ \E k \in Key : Delete(k)
    \/ asked # NoUpdates /\ Hash
    \/ Write

Spec == Init /\ [][Next]_vars

-----------------------------------------------------------------------------
(* Beyond that order *)

\* Blocks without updates.
SpecEmptyBlocks == Init /\ [][Next \/ Hash]_vars

-----------------------------------------------------------------------------
(* Properties *)

TypeOK ==
    /\ stable_seq_no \in 0..(MaxSeq + 1)
    /\ current_seq_no \in 1..(MaxSeq + 2)
    /\ current_version \in 0..(MaxSeq + 2)
    /\ put_cache \in Updates
    /\ root_version \in 0..(MaxSeq + 1)
    /\ contents \in [Version -> Ledger \cup {None}]
    /\ hashed \in Seq0 \cup {None}
    /\ asked \in Updates
    /\ head \in Ledger
    /\ sealed \in [Seq0 -> Ledger \cup {None}]
    /\ written \in Seq0 \cup {None}

\* Every update that Put and Delete accepted since the last Hash is waiting
\* in the trie: none was refused because the two counters had come apart.
NothingLost == put_cache = asked

\* Get answers with what the blocks up to the one written last add up to.
BlockServed ==
    written # None => \A k \in Key : Get(k) = sealed[written][k]

\* Every hashed block can be read at its own version for ever.
HistoryKept ==
    \A s \in Seq0 : sealed[s] # None =>
        \A k \in Key : ReadAt(VersionOf(s), k) = sealed[s][k]

\* Updates and Hash of the next block change no answer before its Write.
SnapshotRead ==
    [][stable_seq_no # 0 /\ stable_seq_no' = stable_seq_no =>
          \A k \in Key : Get(k)' = Get(k)]_vars
=============================================================================
