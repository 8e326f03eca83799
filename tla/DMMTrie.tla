------------------------------- MODULE DMMTrie -------------------------------
(***************************************************************************)
(* The trie: pages of two levels of nodes (Nodes), linked by page id and   *)
(* version, hashed from the leaves up.  A commit (CalcRootHash) updates    *)
(* every page on the paths of the updated keys, the longest page ids       *)
(* first, through the LRU cache; Get and GetProof go down from the root    *)
(* page of a version.                                                      *)
(*                                                                         *)
(* A page is stored as the items of its updates, and a base page after     *)
(* every Tb of them; the chain of delta pages that finds them again is     *)
(* PageChain's, the files are PageTable's.  As there, what a commit stores *)
(* is found from its end on.  Commits too large for the delta pages are    *)
(* left to PageChain (NarrowAssumption).                                   *)
(***************************************************************************)
EXTENDS Nodes, FiniteSets

CONSTANTS
    Key,           \* keys, sequences of nibbles
    Value,         \* nonempty values
    Updates,       \* what one commit may update: functions from keys to values
    Td,            \* Td_: delta items after which a delta page is frozen, 128
    Tb,            \* Tb_: delta items after which a base page is stored, 256
    MaxCacheSize,  \* max_cache_size_, 3000000 in the code
    LastVersion,   \* bound: version of the last commit
    LastRead,      \* bound: reads between two commits
    NoPage         \* no such page

VARIABLES
    current_version,  \* version of the latest commit
    put_cache,        \* the updates of the commit under way
    todo,             \* pages it still has to update
    pagekeys,         \* the LRU cache, the page used last first
    items,            \* items[pid]: delta items of all its updates
    bases,            \* bases[pid]: its base pages
    flushed,          \* flushed[pid]: updates of the page at the last flush
    tail,             \* what lay behind the strings of delta items then
    value_store,      \* the value of each key at each version
    fault,            \* what the process died of
    reads             \* bound: reads since the latest commit

storeVars == <<items, bases, flushed, tail>>
vars == <<current_version, put_cache, todo, pagekeys, items, bases, flushed, tail,
          value_store, fault, reads>>

Version == 1..LastVersion

Upto(k, i) == SubSeq(k, 1, i)

\* The pages of a key: its prefixes of even length.
PagesOf(k) == {Upto(k, i) : i \in {j \in 0..Len(k) : j % 2 = 0}}

Pid == UNION {PagesOf(k) : k \in Key}

\* The next two nibbles, or what there is of them.
NibblesAfter(pid, k) == SubSeq(k, Len(pid) + 1, Min({Len(pid) + 2, Len(k)}))

NibblesIn(pid, keys) == {NibblesAfter(pid, k) : k \in {l \in keys : pid \in PagesOf(l)}}

ASSUME BoundAssumption == LastVersion \in Nat /\ LastRead \in Nat

ASSUME CacheAssumption == MaxCacheSize \in Nat \ {0}

ASSUME KeyAssumption ==
    \A k \in Key : k \in Seq(Nibble) /\ k # <<>>

\* Every page has children of one kind.
ASSUME ShapeAssumption ==
    \A pid \in Pid : \A m, n \in NibblesIn(pid, Key) : Len(m) = Len(n)

ASSUME ThresholdAssumption == Td \in Nat \ {0} /\ Td % 2 = 0 /\ Tb = 2 * Td

ASSUME NarrowAssumption ==
    \A pid \in Pid : 2 * Cardinality(NibblesIn(pid, Key)) <= Td

\* A value as a string.
ValueString == {<<x>> : x \in Value}
Deleted == EmptyString

ASSUME UpdatesAssumption ==
    \A updates \in Updates :
        /\ DOMAIN updates \in (SUBSET Key) \ {{}}
        /\ \A k \in DOMAIN updates : updates[k] \in ValueString \cup {Deleted}

Init ==
    /\ current_version = 0
    /\ put_cache = <<>>
    /\ todo = {}
    /\ pagekeys = <<>>
    /\ items = [pid \in Pid |-> <<>>]
    /\ bases = [pid \in Pid |-> <<>>]
    /\ flushed = [pid \in Pid |-> 0]
    /\ tail = ZeroPads
    /\ value_store = [v \in Version |-> <<>>]
    /\ fault = "none"
    /\ reads = 0

-----------------------------------------------------------------------------
(* The page store *)

\* Items in frozen delta pages and base pages that a flush has written are
\* read from the file.
Frozen(n) == n - (n % Td)

ItemAt(pid, i) ==
    IF i <= Frozen(flushed[pid]) THEN ReadItem(items[pid][i], tail) ELSE items[pid][i]

BaseAt(pid, b) ==
    IF b * Tb <= flushed[pid] THEN ReadRoot(bases[pid][b]) ELSE bases[pid][b]

\* A page after each of these items.
Replay(base, its) ==
    LET root[i \in 0..Len(its)] ==
            IF i = 0 THEN base ELSE UpdateDeltaItem(root[i - 1], its[i])
    IN  root

\* The last base page before the n-th update, and the items after it.
Rebuilt(pid, n) ==
    LET last == n \div Tb
        base == IF last = 0 THEN NoNode ELSE BaseAt(pid, last)
        its == [i \in 1..(n - last * Tb) |-> ItemAt(pid, last * Tb + i)]
    IN  Replay(base, its)[Len(its)]

UpdatesUpTo(pid, version) ==
    Cardinality({i \in DOMAIN items[pid] : items[pid][i].version <= version})

\* LSVPS::LoadPage: the page of this very version; of version 0, a page
\* without a root.
LoadPage(pid, version) ==
    LET n == UpdatesUpTo(pid, version)
        reached == IF n = 0 THEN 0 ELSE items[pid][n].version
    IN  IF reached < version THEN NoPage ELSE Rebuilt(pid, n)

-----------------------------------------------------------------------------
(* The LRU cache: a sequence of pages, and the fault of losing one *)

Cached(lru, pid, version) ==
    {i \in DOMAIN lru : lru[i].pid = pid /\ lru[i].version = version}

Entry(pid, version, root) == [pid |-> pid, version |-> version, root |-> root]

\* ~BasePage asks the root for its children.
Died(lru) == IF Last(lru).root = NoNode THEN "no root" ELSE "none"

\* Mutant: room is made when the cache is over its size.
PutPageLate(lru, entry) ==
    IF Len(lru) > MaxCacheSize
    THEN [lru |-> <<entry>> \o Front(lru), fault |-> Died(lru)]
    ELSE [lru |-> <<entry>> \o lru, fault |-> "none"]

\* Mutant: the page used last makes room.
PutPageNewest(lru, entry) ==
    IF Len(lru) >= MaxCacheSize
    THEN [lru |-> <<entry>> \o Tail(lru), fault |-> "none"]
    ELSE [lru |-> <<entry>> \o lru, fault |-> "none"]

\* PutPage; the last page makes room.
PutPage(lru, entry) ==
    IF Len(lru) >= MaxCacheSize
    THEN [lru |-> <<entry>> \o Front(lru), fault |-> Died(lru)]
    ELSE [lru |-> <<entry>> \o lru, fault |-> "none"]

ToFront(lru, i) == <<lru[i]>> \o RemoveAt(lru, i)

\* GetPage: the cache afterwards, and the root of the page.
GetPage(lru, pid, version) ==
    LET hit == Cached(lru, pid, version)
        root == LoadPage(pid, version)
        put == PutPage(lru, Entry(pid, version, root))
    IN  IF hit # {}
        THEN LET i == CHOOSE i \in hit : TRUE
             IN  [lru |-> ToFront(lru, i), fault |-> "none", root |-> lru[i].root]
        ELSE IF root = NoPage THEN [lru |-> lru, fault |-> "none", root |-> NoPage]
        ELSE [lru |-> put.lru, fault |-> put.fault, root |-> root]

Worse(f, g) == IF f = "none" THEN g ELSE f

-----------------------------------------------------------------------------
(* Going down from the root page of a version *)

\* One page of the path: the leaf found or the version of the next page, and
\* the proof so far.
Below(path, key, pid, root) ==
    LET i == key[Len(pid) + 1]
        j == key[Len(pid) + 2]
        child == root.children[i].node
    IN  IF root.is_leaf THEN [path EXCEPT !.leaf = root]
        ELSE IF ~HasChild(root, i) THEN [path EXCEPT !.lost = TRUE]
        ELSE IF child.is_leaf
        THEN [path EXCEPT !.leaf = child,
                          !.proofs = Append(@, NodeProof(Len(pid), root, i))]
        ELSE [path EXCEPT !.version = child.children[j].version,
                          !.proofs = @ \o <<NodeProof(Len(pid), root, i),
                                            NodeProof(Len(pid) + 1, child, j)>>]

\* One round of the loop of Get and GetProof.
Visit(path, key, pid) ==
    LET got == GetPage(path.lru, pid, path.version)
        kept == [path EXCEPT !.lru = got.lru, !.fault = Worse(@, got.fault)]
    IN  IF path.lost THEN path
        ELSE IF got.root \in {NoPage, NoNode} THEN [kept EXCEPT !.lost = TRUE]
        ELSE Below(kept, key, pid, got.root)

PathFrom(lru, version) ==
    [lru |-> lru, fault |-> "none", version |-> version, lost |-> FALSE,
     leaf |-> NoNode, proofs |-> <<>>]

\* The loop of Get and GetProof over the pages of the key.
Descend(lru, version, key) ==
    LET pages == Len(key) \div 2 + 1
        path[n \in 0..pages] ==
            IF n = 0 THEN PathFrom(lru, version)
            ELSE Visit(path[n - 1], key, Upto(key, 2 * (n - 1)))
    IN  path[pages]

ReadValue(location) == value_store[location.version][location.key]

Answer(path) == IF path.lost THEN EmptyString ELSE ReadValue(path.leaf.location)

\* Mutant: the proof starts at the root.
RootFirst(proofs) == proofs

LeafFirst(proofs) == Reverse(proofs)

GetProof(lru, version, key) == LeafFirst(Descend(lru, version, key).proofs)

GetRootHash(lru, version) == GetPage(lru, <<>>, version).root.hash

ValueHash(leaf) == HashFunction(ReadValue(leaf.location))

\* What RecursiveVerify makes of a node of the second level.
VerifiedChild(pid, i, child, pages) ==
    IF child.is_leaf THEN ValueHash(child)
    ELSE HashFunction(FlattenSeq([j \in 1..Fanout |->
             IF HasChild(child, j - 1) THEN pages[pid \o <<i, j - 1>>] ELSE EmptyString]))

VerifiedPage(pid, root, pages) ==
    IF root = NoPage THEN EmptyString
    ELSE IF root.is_leaf THEN ValueHash(root)
    ELSE HashFunction(FlattenSeq([i \in 1..Fanout |->
             IF HasChild(root, i - 1)
             THEN VerifiedChild(pid, i - 1, root.children[i - 1].node, pages)
             ELSE EmptyString]))

\* RecursiveVerify, with the version of the root for every page.
RecursiveVerify(version) ==
    LET PageHash[pid \in Pid] ==
            VerifiedPage(pid, GetPage(pagekeys, pid, version).root, PageHash)
    IN  PageHash[<<>>]

-----------------------------------------------------------------------------
(* Commits *)

Idle == todo = {} /\ fault = "none"

Less(m, n) == \E i \in DOMAIN m : Upto(m, i - 1) = Upto(n, i - 1) /\ m[i] < n[i]

\* CompareStrings.
Before(p, q) == Len(p) > Len(q) \/ (Len(p) = Len(q) /\ Less(p, q))

\* Put and Delete have gathered these updates; CalcRootHash is called.
BeginCommit(updates) ==
    /\ Idle
    /\ current_version < LastVersion
    /\ current_version' = current_version + 1
    /\ put_cache' = updates
    /\ todo' = UNION {PagesOf(k) : k \in DOMAIN updates}
    /\ value_store' = [value_store EXCEPT ![current_version'] = updates]
    /\ reads' = 0
    /\ UNCHANGED <<pagekeys, storeVars, fault>>

\* GetPageVersion(pid).first.
PageVersion(pid) == IF items[pid] = <<>> THEN 0 ELSE Last(items[pid]).version

Update(nibbles, location, value, child_hash) ==
    [version |-> current_version, nibbles |-> nibbles, location |-> location,
     value |-> value, child_hash |-> child_hash]

\* What one pair of nibbles adds to the page: a child page's new hash, or a
\* value just written.
UpdateFor(pid, nibbles, child_hash) ==
    LET path == pid \o nibbles
    IN  IF Len(nibbles) = 2 THEN Update(nibbles, NoLocation, EmptyString, child_hash)
        ELSE Update(nibbles, [version |-> current_version, key |-> path],
                    put_cache[path], EmptyString)

\* A base page is due: b_update_count_ has reached Tb_.
Checkpoint(done, due) == due # <<>> /\ Len(due) % Tb = 0

\* One round of the loop over the nibbles of a page.
Step(work, pid, nibbles) ==
    LET got == IF Len(nibbles) = 2
               THEN GetPage(work.lru, pid \o nibbles, current_version)
               ELSE [lru |-> work.lru, fault |-> "none", root |-> NoNode]
        hash == IF Len(nibbles) = 2 /\ got.root \notin {NoPage, NoNode}
                THEN got.root.hash ELSE EmptyString
        new == UpdatePage(work.root, UpdateFor(pid, nibbles, hash))
        due == work.items \o new.items
    IN  [lru |-> got.lru,
         fault |-> Worse(work.fault, IF got.root = NoPage THEN "no child page" ELSE got.fault),
         root |-> new.root,
         items |-> due,
         bases |-> IF Checkpoint(work.items, due) THEN Append(work.bases, new.root)
                   ELSE work.bases]

\* UpdatePageKey, for the page the commit holds; it is gone if the cache
\* dropped it for a child page.
UpdatePageKey(lru, pid, version, root) ==
    LET hit == Cached(lru, pid, version)
    IN  <<Entry(pid, current_version, root)>>
        \o RemoveAt(lru, CHOOSE i \in hit : TRUE)

\* The members of a std::set in the order of its traversal.
InOrder(S) ==
    CHOOSE s \in [1..Cardinality(S) -> S] :
        \A i, j \in DOMAIN s : i < j => Less(s[i], s[j])

\* The work of CalcRootHash on one page.
WorkOn(pid) ==
    LET got == GetPage(pagekeys, pid, PageVersion(pid))
        start == [lru |-> got.lru, fault |-> got.fault, root |-> got.root,
                  items |-> items[pid], bases |-> bases[pid]]
        order == InOrder(NibblesIn(pid, DOMAIN put_cache))
        work[n \in 0..Len(order)] ==
            IF n = 0 THEN start ELSE Step(work[n - 1], pid, order[n])
    IN  work[Len(order)]

IsNext(pid) == \A q \in todo : q = pid \/ Before(pid, q)

Apply(pid, work) ==
    LET lost == Cached(work.lru, pid, PageVersion(pid)) = {}
    IN  /\ fault' = Worse(work.fault, IF lost THEN "dangling page" ELSE "none")
        /\ pagekeys' = IF lost THEN work.lru
                       ELSE UpdatePageKey(work.lru, pid, PageVersion(pid), work.root)
        /\ items' = [items EXCEPT ![pid] = work.items]
        /\ bases' = [bases EXCEPT ![pid] = work.bases]

\* The page is updated; after the last one the commit stores what it froze.
CommitPage(pid) ==
    /\ fault = "none"
    /\ pid \in todo
    /\ IsNext(pid)
    /\ \E work \in {WorkOn(pid)} : Apply(pid, work)
    /\ todo' = todo \ {pid}
    /\ put_cache' = IF todo' = {} THEN <<>> ELSE put_cache
    /\ UNCHANGED <<current_version, flushed, tail, value_store, reads>>

-----------------------------------------------------------------------------
(* Between commits *)

Contents(version, key) ==
    LET written == {v \in 1..version : key \in DOMAIN value_store[v]}
    IN  IF written = {} THEN Deleted ELSE value_store[Max(written)][key]

Put(version, key) == \E v \in 1..version : key \in DOMAIN value_store[v]

\* Get or GetProof: what it does to the cache.
Read(version, key) ==
    /\ Idle
    /\ reads < LastRead
    /\ reads' = reads + 1
    /\ \E path \in {Descend(pagekeys, version, key)} :
          /\ pagekeys' = path.lru
          /\ fault' = path.fault
    /\ pagekeys' # pagekeys
    /\ UNCHANGED <<current_version, put_cache, todo, storeVars, value_store>>

\* A key that the version has, or had.
Get == \E version \in 1..current_version, key \in Key : Put(version, key) /\ Read(version, key)

\* The memory table is written to an index file.
Flush ==
    /\ Idle
    /\ flushed' = [pid \in Pid |-> Len(items[pid])]
    /\ flushed' # flushed
    /\ tail' \in {ZeroPads, JunkPads}
    /\ UNCHANGED <<current_version, put_cache, todo, pagekeys, items, bases, value_store,
                   fault, reads>>

Next ==
    \/ \E updates \in Updates : BeginCommit(updates)
    \/ \E pid \in todo : CommitPage(pid)
    \/ Get
    \/ Flush

Spec == Init /\ [][Next]_vars

\* A Get of any key, one that the version never had too.
GetAny == \E version \in 1..current_version, key \in Key : Read(version, key)

SpecAnyKey == Init /\ [][Next \/ GetAny]_vars

-----------------------------------------------------------------------------
(* Properties *)

TypeOK ==
    /\ current_version \in 0..LastVersion
    /\ DOMAIN put_cache \subseteq Key
    /\ todo \in SUBSET Pid
    /\ pagekeys \in Seq([pid : Pid, version : 0..LastVersion, root : {e.root : e \in Range(pagekeys)}])
    /\ Len(pagekeys) <= MaxCacheSize
    /\ flushed \in [Pid -> Nat]
    /\ reads \in 0..LastRead

\* No page is deleted that a commit still works on, no page without a root is
\* deleted, and every child page a commit needs is there.
NoFault == fault = "none"

\* Between commits every version answers every key with what the commits up to
\* it wrote last, through however many pages that stayed at older versions,
\* from memory or read back from index files.
Served ==
    Idle => \A u \in 1..current_version, k \in Key :
        Answer(Descend(pagekeys, u, k)) = Contents(u, k)

Unwritten == \A pid \in Pid : flushed[pid] = 0

\* The hash of a version from its contents alone: of the children of a node in
\* the order of their nibbles, of a value in a leaf.
LeafHash(u, k) ==
    IF Contents(u, k) = Deleted THEN EmptyString ELSE HashFunction(Contents(u, k))

Touched(u, path) == \E k \in Key : Put(u, k) /\ IsPrefix(path, k)

\* A node at this path, from the hashes of its children.
NodeHash(u, path, hashes) ==
    IF Touched(u, path) THEN HashFunction(FlattenSeq([i \in 1..Fanout |-> hashes[i - 1]]))
    ELSE EmptyString

\* A node of the second level, from the hashes of the pages below it.
SecondHash(u, path, pages) ==
    IF path \in Key THEN LeafHash(u, path)
    ELSE NodeHash(u, path, [i \in Nibble |->
             IF Append(path, i) \in Pid THEN pages[Append(path, i)] ELSE EmptyString])

ReferenceHash(u) ==
    LET PageHash[pid \in Pid] ==
            IF pid \in Key THEN LeafHash(u, pid)
            ELSE NodeHash(u, pid, [i \in Nibble |-> SecondHash(u, Append(pid, i), PageHash)])
    IN  PageHash[<<>>]

\* Between commits the root hash of every version is the hash of its contents,
\* whether its pages are in memory or come back from index files.
HashesRight ==
    Idle => \A u \in 1..current_version : GetRootHash(pagekeys, u) = ReferenceHash(u)

\* The same of a trie whose pages are all in memory, whatever the order of
\* updates, checkpoints, evictions and reads.
RootHashRight == Unwritten => HashesRight

\* The proof of a key at a version verifies its value at that version against
\* the root hash of that version, and no other value.
ProofsVerify ==
    Idle /\ Unwritten => \A u \in 1..current_version, k \in Key :
        Contents(u, k) # Deleted =>
            \A value \in ValueString :
                Verify(value, GetRootHash(pagekeys, u), GetProof(pagekeys, u, k))
                    <=> value = Contents(u, k)

\* The path a client is handed for a key that has a value connects: the hash of
\* each of its nodes is the entry of the node above at the key's next nibble.
PathsConnect ==
    Idle /\ Unwritten => \A u \in 1..current_version, k \in Key :
        Contents(u, k) # Deleted =>
            \E path \in {ProofPath(Contents(u, k), GetProof(pagekeys, u, k))} :
                /\ Len(path) = Len(k)
                /\ \A node \in Range(path) :
                        node.hash = node.inodes[k[node.index + 1]]

\* A page in the cache, updated in place commit after commit, is the page its
\* stored items rebuild.
CacheCoherent ==
    Idle /\ Unwritten => \A e \in Range(pagekeys) : e.root = LoadPage(e.pid, e.version)

\* Verify of a whole version accepts its root hash when every page there is
\* was updated at that version and nothing in it is deleted.
WholeVerified ==
    Idle /\ Unwritten => \A u \in 1..current_version :
        (\A k \in Key : Put(u, k) => k \in DOMAIN value_store[u] /\ Contents(u, k) # Deleted)
            => RecursiveVerify(u) = GetRootHash(pagekeys, u)
=============================================================================
