# LETUS in TLA+

Specifications, model-checking configurations and proofs for LETUS, the
log-structured authenticated store for blockchains in this repository: a
multi-versioned Merkle trie (DMM-Trie) over a versioned page store (LSVPS) and
an append-only value store (VDLS), with a C interface and a Go wrapper.

Paths below are relative to the repository: `src/DMMTrie.cpp`, `src/LSVPS.cpp`,
`lib/VDLS.hpp` and so on.

## 1. The system

| part | state it keeps | operations | talks to |
|---|---|---|---|
| **Go wrapper** `gowrapper/letus/kvstorage.go` | `stable_seq_no`, `current_seq_no` | Put, Delete, Get, CalcRootHash, Write, Commit, Revert, Proof, GetSeqNo | C interface, by calls; a sequence number is a trie version less one |
| **C interface** `src/Letus.cpp` | a handle on one trie | forwards each call | the trie |
| **DMM-Trie** `src/DMMTrie.cpp` | `put_cache_`, `current_version_`, an LRU cache of pages, and per page: active delta page, versions of frozen delta pages, version of the last update and of the last base page; `page_cache_` during a commit | Put, Delete, CalcRootHash, Get, GetProof, Verify, Flush, Revert (empty body) | VDLS for values, LSVPS for pages |
| **BasePage / DeltaPage** | a page's two-level tree of nodes; a list of delta items and two counters (`update_count_`, `b_update_count_`) | UpdatePage, AddIndexNodeUpdate, AddLeafNodeUpdate, ClearDeltaPage, UpdateDeltaItem, serialisation | the trie's tables, through `trie_` |
| **LSVPS** `src/LSVPS.cpp` | a memory table, its index files, the active delta page cache (pool, file, index block) | StorePage, LoadPage, pageLookup, Flush, GetActiveDeltaPage, StoreActiveDeltaPage, eviction | calls back `GetVersionUpperbound` and `GetPageVersion` of the trie |
| **VDLS** `lib/VDLS.hpp` | file and offset being written, two memory mappings | WriteValue, ReadValue (and an unused older pair, WriteValueV1 / ReadValueV1) | data files |
| **Ledger iterator** `gowrapper/letus/iterator.go` | a cursor and a range of keys | Next, Seek, Key, Value | Get of the wrapper |

A block is a batch of Put and Delete gathered in `put_cache_`. CalcRootHash
writes their values to VDLS, walks the pages they touch from the leaves up,
updates each and records the updates in the page's active delta page, then hands
frozen delta pages and base pages to LSVPS. Get descends from the root page of a
version, loading each page at the version its parent names: from the LRU cache if
it is the latest, else rebuilt by `LSVPS::LoadPage` from a base page and the
delta pages after it. The leaf holds a location, which VDLS resolves.

### What is hard here

The library is synchronous and takes no locks: one caller, one call at a time.
What is hard is not concurrency but **long histories**: state spread over
five tables that must agree after any sequence of commits, whatever their sizes.

* *Two thresholds and a shortcut.* A delta page is frozen after `Td_` items, a
  base page stored after `Tb_`, in the middle of a commit and possibly on the same
  update; a commit too large for two delta pages bypasses them and stores a base
  page directly, with a partly filled delta page frozen early (or, when it is
  empty, none). The chain through `last_pagekey_` is relinked at each of these.
* *Finding a version again.* LoadPage starts from the delta page frozen *after*
  the version it wants, or the active one, walks the chain back to a base page and
  replays up to the version. A boundary off by one shows only in reads of old
  versions.
* *Caches that answer for one version.* The LRU cache drops a page at any time
  between commits; the rebuilt page must be the same.
* *One page in two shapes.* CalcRootHash updates nodes in place and records delta
  items; LoadPage replays the items on a base page. Two pieces of code must make the
  same nodes, with the hash, version and location of every entry, from memory and from
  files.
* *Pages held by pointer.* The LRU cache deletes its last page whenever it needs
  room, in the middle of a commit too.
* *Two counters for one thing.* The wrapper's sequence numbers and the trie's
  version are advanced by different calls (Write, Put), with updates of the next
  block allowed in between.
* *Opening again.* Neither VDLS nor the trie nor the wrapper reads back where it
  was.

### What makes each part correct

* VDLS: a location, once returned, keeps its bytes for ever and reads as the
  value written; nothing written is overwritten.
* A page's versions: every committed version is readable with exactly the contents
  it had; no read meets a missing base page; the counters stay in step, so
  checkpoints come on time and the replay of a read is bounded; no stored page is
  replaced by another under the same key within a commit.
* Blocks: no update is lost between two blocks, Get answers with the block written
  last and with nothing of the next one, every hashed block stays readable.
* Pages on disk: a page handed over is found under its key, in the memory table or
  in an index file, and no key is answered with another page.
* The Merkle tree: a version's root hash is the hash of its contents, whatever mix
  of cached and rebuilt pages it is read from; a proof of a key verifies its value
  and no other; no page is deleted while a commit works on it.

## 2. The modules

| module | models | abstract specification |
|---|---|---|
| `VDLS` | the value store | `AppendLog` |
| `PageChain` | all versions of one trie page: delta items, freezing, checkpoints, the shortcut, the stored chain, LoadPage, the LRU cache | `VersionedPage` |
| `DeltaCache` | the pool, the file and the index block in which active delta pages are kept | none (a ghost says what was stored last) |
| `LetusStorage` | blocks, versions and sequence numbers: the Go wrapper over the trie | none (ghost variables say what the client asked for) |
| `PageTable` | LSVPS's memory table, its index files, StorePage, Flush, pageLookup | none (a ghost says what was handed over) |
| `Nodes` | operators: nodes of a page, their hashes and updates, delta items and their replay, what a file gives back of them, proofs and Verify | |
| `DMMTrie` (over `Nodes`) | CalcRootHash over the tree of pages, the LRU cache in the middle of commits, Get, GetProof, both Verify, Flush | reference definitions of contents and hash |
| `MCVDLS`, `MCPageChain`, `MCDeltaCache`, `MCLetusStorage`, `MCPageTable`, `MCDMMTrie` | finite instances for TLC | |
| `VDLSProofs`, `PageChainProofs`, `PageHistoryProofs` (over `PageChainProofs`), `LetusStorageProofs`, `PageTableProofs`, `NodesProofs`, `DMMTrieProofs` (over `NodesProofs`), `DeltaCacheProofs` | theorems and proofs | |

How the modules fit together. `PageChain` follows one page through all its versions and
takes LSVPS's tables to answer by key; `PageTable` shows that they do. `DMMTrie` takes
from `PageChain` that a page is rebuilt from the last base page and the items after it,
and follows a tree of pages, with what `PageChain` leaves out: nodes, hashes, links
between pages, the cache while a commit runs. `LetusStorage` takes from `DMMTrie` that a
version answers with its contents, and follows blocks; `VDLS` resolves the locations in
the leaves.

Definitions that begin with a comment "Mutant:" are not part of a model. Each is a
plausible wrong version of the definition after it, kept to show that the
properties notice it.

### VDLS

`current_fileID`, `current_offset`, `read_map_fileID` are the fields of the class;
`disk` is the contents of the data files, byte by byte, a byte being the pair of the
record it belongs to and its position in it. `issued` remembers the locations that
WriteValue returned, which in the program are kept in the leaves of the trie. Both
mappings are `MAP_SHARED` views of the same file, so one copy of the bytes is enough.
`WriteValue` is one action: the rotation test, opening (which keeps what the file
holds), the copy, the new offset, the location. `ReadValue` moves the read mapping
if the location names another file, and parses what it finds: exactly one record's
bytes give its text, anything else is `Garbled`. `Reopen` is the constructor over
existing files. `SizeAssumption` says that no record is larger than a file; the code
does not check it.

### PageChain

One page of the trie, and the actions that concern it:

| action | code |
|---|---|
| `BeginCommit(S)` | CalcRootHash up to the first UpdatePage: the page at its latest version, the test for the shortcut, an early freeze |
| `UpdatePage(n)` | one UpdatePage with AddIndexNodeUpdate, freeze, checkpoint (or in place when the shortcut is taken); slots in ascending order, as the sorted set is traversed |
| `EndCommit` | the shortcut's base page, StorePage of what is staged, PutPage |
| `CommitElsewhere` | a block that does not touch this page: the trie's version moves on |
| `Evict`, `Fetch` | the LRU cache between commits |

The contents of a slot are the version that last wrote it; it stands for the child
hash or the value location written then, and is what tells two contents of a slot
apart. An update of an index page makes two delta items (child entry and root
entry), always together; the model has one item of `Weight` 2. `LoadPage` is a pure
operator: `Start(u)` is the delta page it starts from, `Walk` and `Gathered` are the loop
down the chain (a recursive function over page keys), `Collected(u)` what it brings,
`Upto` is `applyDelta`'s early stop, `Replay` is `UpdateDeltaItem`, and `Built` applies
the pages gathered to the base page.

Left out: hashes and bitmaps (they are functions of the contents modelled), the tree
of pages and evictions inside a commit (both in `DMMTrie`), the files behind `frozen` and
`base` (in `PageTable`), and the loss of `b_update_count_` when the active delta page has
been evicted from its pool.

### DeltaCache

`LSVPS::ActiveDeltaPageCache`, whose pages CalcRootHash gets, updates and stores
(`Commit`, one step) and LoadPage gets (`Load`). `page_pool`, `free_pages`, `cache`,
`pid_to_offset` and `max_size` are its fields; `file` is its file in units of 8 bytes,
so that the index block, the word that ends it, and pages written over it or behind
it are where the code puts them. Every step of `FlushToDisk` is there: new offsets for
all pages of the pool (in any order, the hash table's), the writes (`Batch`, its loop), the cut of the old
index block by the length found at the end of the file *after* the writes, the new
block. Eviction takes any page, for `begin()` of a hash table may be any.

`Reopen` is the destructor (which flushes) and the constructor of the next process.
`Spec` is a process that does not call Flush, as the workloads do not; `SpecFlush` adds
the Flush that Write of the Go wrapper makes after every block.

Left out: a Get of another page between get and store of one commit, and crashes.

### LetusStorage

The wrapper's two counters, the trie's `current_version`, `put_cache` and, for every
version, `contents`: what a Get from that version's root page finds. A version
without updates has no root page. The client is the documented one: updates, then
Hash with the number GetSeqNo returns, then Write; updates of the next block may
come before the Write. Ghost variables `asked`, `head`, `sealed`, `written` record
what the client asked for. Blocks without updates are in a
specification of their own (`SpecEmptyBlocks`), since the code does not do with them
what its interface says.

### PageTable

`buffer` is the vector of `MemIndexTable`, `index_files` the list of LSVPS, `page_cache`
what CalcRootHash has gathered and not handed over yet (a `std::map`, so in the order of
`PageKey`). `disk` holds the files, each a sequence of units: a page, an index block and a
lookup block all take 12288 bytes, so places are counted in units and the byte arithmetic
of `location` becomes that of positions. A page's contents are its key, so that a
lookup that reads the wrong place shows. `BeginCommit` is the loop of CalcRootHash with any
set of base and delta pages; `StorePage` hands over the next one and writes the table out
when it is full, in the middle of a commit too; `Flush` comes between commits.
`ReadPage` follows `readPageFromIndexFile` to its errors: the last unit must be a lookup
block (`IsLookup`), `upper_bound` less one chooses the index block, the unit at its
place must be an index block (`IsIndex`) and the unit of the mapping a page.

Left out: I/O errors, the pages kept in memory after a Flush that fails, and the list of
index files after reopening, which the code does not read back.

### Nodes and DMMTrie

A page is a value: its root node with the nodes of its second level. Strings of bytes
are sequences of tokens, so that the hash of a concatenation is the hash of a sequence
and hashes are equal exactly when their inputs are. The two fields whose length matters
are kept: a hash has 20 bytes (SHA-1) and its field in a file 32, so what comes back
is the hash and a token for 12 more bytes, or one for 32 where there was no hash. `Field`
is that; `ReadItem` copies whatever lies behind the string (`JunkPads` or zeros), while a
page's nodes are copied into a cleared buffer.

| definition | code |
|---|---|
| `UpdatePage` | BasePage::UpdatePage with the AddLeafNodeUpdate / AddIndexNodeUpdate it makes: page of one leaf, one level, two levels |
| `UpdateDeltaItem` | BasePage::UpdateDeltaItem, the replay |
| `ReadRoot`, `ReadSecond`, `ReadItem` | nodes and items serialised and read again, with AddChild's reset of entries |
| `GetPage`, `PutPage`, `UpdatePageKey` | the LRU cache, a sequence with the page used last first |
| `BeginCommit`, `CommitPage(pid)` | CalcRootHash: gathering, then one page after the other in the order of CompareStrings, one `Step` per pair of nibbles, child hash through GetPage, checkpoint, UpdatePageKey |
| `Replay`, `Rebuilt`, `LoadPage` | applyDelta over the items after a base page; LoadPage |
| `Descend` (`Visit` is one round) | the loop of Get and of GetProof |
| `Verify`, `ProofPath` | Verify of a proof, LetusProof |
| `RecursiveVerify` | Verify of a whole version |
| `Flush` | DMMTrie::Flush, seen from a page: frozen items and base pages up to now are read from files |

`items[pid]` are all delta items a page ever had, `bases[pid]` its base pages: a page at
a version is the last base page before it and the items after, as `PageChain` shows of
the chain. `NarrowAssumption` keeps commits small enough for the delta pages, where this
holds; larger ones are `PageChain`'s. The active delta page is taken to be in its pool
(`DeltaCache`). A commit's pages are found from its end on, as in the code. `fault` is
what the process would die of: a page deleted while a commit holds it, a child page
that is not there, a page without a root deleted (its destructor asks the root for its
children). `Get` and GetProof are one action, for they move the cache alike; it is bounded
by `LastRead` between two commits, and `Spec` reads keys that the version has or had.

Left out: oversized commits, opening again, keys of which one page has children of two
kinds (`ShapeAssumption`; the code's node types do not allow them), Revert (empty).

## 3. The runs

| run | shows | instance |
|---|---|---|
| `value_store` | locations keep their bytes through file changes and remappings; VDLS implements AppendLog | records of 2, 3, 5 bytes, files of 6, 5 records |
| `value_store_reopened` | **violation**: opening again overwrites | the same |
| `index_page` | every version is served exactly, no read breaks, counters in step, replay bounded, one freeze per commit; the chain implements VersionedPage | 3 slots, Td 4, Tb 8, 4 versions |
| `wide_page` | the same but for old versions, with commits larger than a delta page | 3 slots, Td 2, Tb 4, 5 versions |
| `wide_page_history` | **violation**: old versions answered with newer contents | the same |
| `version_zero` | **violation**: pages stored under version 0 are not found | first version 0 |
| `delta_cache` | a delta page is returned as it was stored last, through evictions, closing and opening; pool entries are never shared; pages of the file never overlap | 3 pages, pools of 2 and 3, pages of 4 units, 2 updates each |
| `blocks` | no update lost, last block served, history kept, stable reads | 2 keys, 2 values, 4 blocks |
| `empty_block` | **violation**: after a block without updates every key is missing | the same |
| `page_table` | every page handed over is found, ranges of files never meet, a commit ends | 2 pages (4 keys a version), blocks of 2, table of 3, 3 versions |
| `trie` | every version answers every key, root hashes are those of the contents, proofs verify the right value only, cached and rebuilt pages agree, no page dies in use | 3 keys in 4 pages, fanout 2, 2 values, Td 6, Tb 12, cache of 4, 3 versions, 1 read between commits |
| `trie_flushed` | **violation**: an older version read back from index files has another root hash | the same |

**Why the bounds are enough.** Files of 6 bytes with records of 2, 3 and 5 bytes meet
an exact fit, a file left with unused bytes and three files. In `index_page` Td is 4
and an update weighs 2, so a freeze is due every second update and a checkpoint every
fourth: with 3 slots and 4 versions freezes and checkpoints fall on the first, middle
and last update of a commit, a commit may freeze on one update and go on, the shortcut
is taken from a partly filled delta page, and there are versions before, between and
after two base pages. `wide_page` has Td 2, so every update freezes, every second
one checkpoints and most commits take the shortcut, from an empty delta page. In
`blocks` four blocks give updates before and after each Hash and deletions of keys
present and absent. In `delta_cache` a pool of two forces evictions among three pages
and a pool of three allows none; a file of up to 16 units may be opened again, which
leaves room for pages, an index block and pages behind it, opened several times; a page
of 4 units is as long as the longest index block. Pages are interchangeable there, so
the run uses symmetry; the run with a liveness property does not.

In `page_table` a commit hands over 0 to 4 pages and the table takes 3, so it fills in the
middle of commits and of a version's base pages and delta pages, files hold the end of one
commit and the start of the next, and an index block of 2 leaves a block that is
half full; a Flush writes tables of 1 and 2 pages. In `trie` the keys 00 and 01 end in pages
that are one leaf, 100 in a page with a leaf below its root, and the root page has two nodes on
its second level: every shape of page there is. A commit touches 2 to 4 pages; an update
of the root page makes two items, so it freezes after three and stores a base page
after six, in the middle of a commit when three keys are updated in one. A cache of 4 holds exactly
the pages of the largest commit: every further page drops one. With fewer places the
code does delete a page in use; `NoFault` says that 4 are enough.

**Deadlock.** `VDLS` always has a read to do and `DeltaCache` a page to get (before the first
record VDLS writes one). `PageChain`, `LetusStorage`, `PageTable` and `DMMTrie` stop when
the bound on versions or blocks (`LastVersion`, `MaxSeq`) is reached, so their
configurations say `CHECK_DEADLOCK FALSE`; the bounded actions are `BeginCommit`,
`CommitElsewhere`, `Hash`, and in `DMMTrie` a read (`LastRead`). `LastFile` of
`PageTable` is the last file that the bound on versions allows, so it stops nothing.

**Fairness.** Every call of this library runs to its end in the caller's thread; nothing
waits for anything. Only `PageTable` needs that said, for there a commit is several
steps: weak fairness of `StorePage`, since CalcRootHash's loop goes on once begun. `CommitEnds`
then says that every page of a commit is handed over, through every table that fills up on
the way. No fairness is assumed of what callers do.

### Further instances

Three configurations are kept beside the runs. TLC finds each of them violated; what they
show depends on sizes or calls at the edge of what the library is used for, so they are
not among the disagreements.

| configuration | what TLC finds |
|---|---|
| `MCDeltaFlush.cfg` | `StoredPageReturned` fails under `SpecFlush`: Flush in the middle of a session clears `pid_to_offset_` (`src/LSVPS.cpp:811`), so a delta page that is not in the pool at that moment comes back empty. It takes more pages than the pool holds (3000000), or a store opened again. |
| `MCDeltaIndex.cfg` | the same fails with pages of 2 units: the old index block of the delta cache's file is cut off after the pages have been written over it (`src/LSVPS.cpp:779`); when it is longer than they are (more than about 500 pages), pages are cut. |
| `MCTrieAnyKey.cfg` | `NoFault` fails under `SpecAnyKey`: a Get of a key that was never put caches a page without a root, and when the cache drops it `~BasePage` (`src/DMMTrie.cpp:877`) asks the null root for its children. |

### The disagreements found

Each violation run is a trace of the code as it is, against a sentence of the
repository quoted in PROJECT.json.

1. *VDLS opened over existing files* starts at file 0, offset 0 (`lib/VDLS.hpp:32`).
2. *A commit that bypasses an empty delta page* (`src/DMMTrie.cpp:1202`) freezes
   nothing, so nothing separates older versions from the new base page: LoadPage of
   an older version starts from the active delta page, whose chain ends at that base
   page. The read succeeds with newer contents. In the program this takes a commit
   with at least `Td_` updates to one page.
3. *Version 0* is "no page" for `pageLookup` (`src/LSVPS.cpp:361`) and the first
   version of some drivers.
4. *A block without updates* makes a version stable that has no root page.
5. *A version read back from index files has another root hash.* A delta item copies 32
   bytes of a hash that has 20 (`src/DMMTrie.cpp:563`) and reads 32 back
   (`src/DMMTrie.cpp:522`); in a base page, AddChild resets the entries of the root just
   read (`src/DMMTrie.cpp:323`). Values are still found where the version is rebuilt from
   delta items, but the root hash and the proofs made from it are not the ones committed. This is why `RootHashRight`,
   `ProofsVerify`, `PathsConnect`, `CacheCoherent` and `WholeVerified` are stated of tries
   whose pages are all in memory (`Unwritten`), and `HashesRight` of all.

Noted while reading and not run: Seek of the ledger iterator
(`gowrapper/letus/iterator.go:117`) compares its bounds the wrong way round: it
refuses keys inside the range; DMMTrie::Revert has an empty body, so the block after
a Revert contains the reverted updates again; after a Revert, updates are refused without an error
until the wrapper's version catches up with the trie's; Delete never reports a
missing key; `GetStableSeqNo` before the first Write is 0 - 1 in uint64;
`b_update_count_` of a delta page is not in its file
(`src/DMMTrie.cpp:447`), and a new delta page keeps the count of the pool entry it is
built in, so a base page may be stored over items that no frozen delta page holds;
WriteValueV1 assumes that the end of the file is `current_offset_`, which the
constructor's ftruncate makes false.

## 4. The proofs

All theorems hold for every value of the constants that satisfies the named
assumptions of the modules, and for behaviours of any length.

**VDLSProofs.** From `FileSizeAssumption`, `RecordBoundAssumption`, `SizeAssumption`.
`IssuedIntact` is not inductive: it does not say where the next record will go. The
invariant is `TypeOK /\ IssuedBehindTheEnd /\ IssuedIntact` with the fact that every
byte at or after the write offset of the current file is NUL. A write puts its record
at the end, every issued location lies behind it, so all keep their bytes
(`LocationsStayIntact`); what it overwrites is NUL (`AppendOnly`). `Refinement` maps
`WriteValue` to `AppendRecord` and `ReadValue` to `ReadRecord`, by `IssuedIntact`: the
bytes read are the image of the record, and images of two records differ.

**PageChainProofs.** From `SlotAssumption`, `ThresholdAssumption` (Tb is twice Td, Td is
even, as the code's 128 and 256 are), `VersionAssumption`, `NoneAssumption`.
`CountersInStep` needs two more facts about the middle of a commit. `CommitShape` says
what `pc`, `pending`, `staged` and `if_exceed` may be together; `RoomLeft` says that
what is still pending fits into what is left of two delta pages, less what was frozen
already, and is what rules out a second freeze under the same key
(`OneFreezePerCommit`). Here LoadPage appears only through the guard that its result is a
page; what it returns is the subject of the next module.

**PageHistoryProofs.** That LoadPage returns the contents a version had. The invariant is that of
`PageChainProofs` with what the stored chain is like: `Links` (every key that a delta page
names is stored, and names an earlier one, down to a base page or to nothing),
`Commits` (a version's items come after those of all earlier versions, and what is staged
belongs to the commit under way), `FrozenServes` and `ActiveServes`: from each frozen
delta page, and from the active one, the walk down to a base page and the replay up to a
version give that version's contents, for every version the page may be asked for. These two
speak of the tables as they will be when the commit's pages have been stored, since a base page and a
frozen delta page of one commit refer to each other before either is stored. `Covered` says
which delta page answers for which version. Two of the steps are inductions along the chain: it is
as long as the page's history. They take the least page key for which the claim would fail,
which exists among natural numbers.

Hypotheses, each tight: `FirstVersion > 0` (`version_zero` is the violation without it), and for
`OrderlyHistoryServed` and `OrderlyImplementsVersionedPage` that no commit bypasses an empty delta
page (`wide_page_history`). Without the second `NeverBroken`, `ReplayBounded` and `RecentServed`
are proved all the same. A page with fewer slots than `Td`, as one whose children are leaves
has in the code (16 slots, 128 items), never makes such a commit (`NarrowPagesOrderly`), so its history is
served and it implements `VersionedPage` with no hypothesis about commits. `NoneAssumption`
says that the constant for "no page key" is none of the versions in use, which the proofs found it has to.

**LetusStorageProofs.** From `SeqAssumption`, `MarkAssumption`, `NoneAssumption`.
`NothingLost` depends on `current_version` never being ahead of the wrapper's
`current_seq_no`; `CountersTogether` states how the counters relate before and after
Hash. `HeadStored` (the latest root page holds what the hashed blocks add up to) and
`BlocksStored` carry `BlocksReadable` and `LastBlockServed`; `BlocksInOrder` says which
blocks exist, so that Hash never writes a version twice. `ReadsAreStable` follows: the
version Hash fills is not the one Get reads.

**PageTableProofs.** From `BlockAssumption`, `PidAssumption`, `VersionAssumption`. The
argument has two halves. *One file* (`ReadExact`): in an index file of ordered pages, the
greatest page up to a key lies in exactly one index block (`BlockWithPage`,
`BlocksApart`, by division with any `MappingsPerBlock`), that block is the one the lookup
block leads to, and its mapping leads back to the page (`FileLayout`, `FoundExact`).
*All files*: the invariant says that table and files are ordered among themselves and
each other (`Ordered`, `CommitIsLast`, `FilesInOrder`), that every file is the index
file of the stored pages in its range (`PagesFiled`), and that what was stored is
somewhere (`StoredSomewhere`). `FilesInOrder` is not inductive without `CommitIsLast`:
nothing else says that the next page of a commit comes after the files. From both
halves `EveryPageFound` follows: the file pageLookup finds first is the only one
(`OneFile`), and it answers exactly.

**NodesProofs.** From `FanoutAssumption` and the premise that the null pointer is no node.
`ItemsReplay` is stated for one update of any page with the shape of a page (`PageRoot`)
and shows that the shape is kept, so it can be applied to update after update.
The order matters: the child's item makes the child and its place in the root, the root's
item then gives the entry its version and hash, as `ChildReplayed` and `RootUpdated`
show. This is the core of `CacheCoherent`. `HashesUpdated` says what one update does to the hashes: those
of the root and the child are summed up again, the one below the nibbles is new, no other changes.

**DMMTrieProofs.** From the assumptions of `DMMTrie` and `Nodes` except `NarrowAssumption`, and the
premise (`Markers`) that the values which stand for no page are no nodes. The inductive invariant `IInv` relates
four pieces of state that the code updates in different places:

* `StoreOk`: the items and base pages of every page. Each item, or pair of them, belongs to one
  update (`Recorded`); `Mirrors` says of a node that its children, versions and locations
  are those of the last such item, `PageIs` also that it is the replay of all items while nothing
  has been flushed. Every base page is the page at its number of items.
* `CacheInv`: every entry of the LRU cache is the page of its id at its version (`EntryOk`), once.
* `Written`: the items of a page tell exactly which nibbles were written below it at which
  version, with the exception of pages that a commit has yet to update.
* `CommitOk`: what is left of a commit.

A read goes down by `PathFrom` and `Visit`. `LinkIsLast` is the step of the argument: at version `u` a
page names for the next two nibbles the last version up to `u` that wrote below them, and at
that version the child page is there (`PageThere`), hence not a later one, nor one that
is missing. Down to the leaf, whose location is that of the last write of the key
(`Descended`), this gives `ServedCorrect`. It holds of pages in the cache, rebuilt from memory, and
read back from files alike, for what files lose (hashes, and in base pages the entries of the root)
is nothing that a Get asks for. For `CacheIsStore` each step of a commit makes the node that the replay of
its new items makes (`ItemsReplay`), and a base page stored in the middle is such a node.

`NeverFaults` needs the hypothesis `CommitsFit`: the pages of one commit are no more than the
cache holds (3000000 in the code, which checks nothing). Its invariant adds that the pages which the
commit has updated are the ones used last (`InFront`): with `n` of them done they are among
the first `n` of the cache, so a page to be dropped is none of them, and the children of the
next page are done, since page ids go from the longest to the shortest (`ChildrenDone`). Without the
hypothesis TLC finds the page deleted; with it, whatever else is in the cache does not matter, and
`CommitFits` shows that the bound is enough, with no place to spare.

`RootHashCorrect` is about the hashes, of a trie of which nothing was flushed. The invariant is
`MerkleInv`, which adds to `IInv`: `Hashed` (after each update of a page its index nodes had the hash of
their children's hashes, and below each pair of nibbles the hash that the child page had at the
version it names, or the hash of the value written then) and `Ordered` (pages that a commit has
updated are no shorter than those left). It speaks of hashes as of versions, through
the items (`HashOf`), since a page goes on changing; that what it refers to does not change needs
`Ordered`: no page refers to a page at the commit's version before that page is done. Given `Hashed`, the hashes
of the pages as a version has them satisfy the equation by which `ReferenceHash` is defined (`PageHashIs`),
one case for each number of nibbles that a page has, and the equation has one solution (`OneHash`), from the longest
page ids on. This last step is the one hypothesis, `KeysBounded`: no key is longer than
some number. Every finite set of keys is so; of an infinite one `ReferenceHash` would define nothing.

`ProofsCorrect` and `PathsCorrect` follow from `MerkleInv` too, without that hypothesis. What a proof promises is
`ProofNode`: at a nibble a node of the proof has the hash of what lies below, and the hash of all its siblings
together is the one above. `NodeProved` finds this for every node of a page that a walk
passes (`RootAboveLeaves`, `RootAbovePages`), pair of nibbles after pair, so that the nodes form a `Chain` of
hashes from the root hash of the version to the hash of the key's value (`ProofLeads`). Turned round, as GetProof does at its end,
the chain is what Verify computes (`ChainUp`), and with another value it ends in another hash: a
hash put in another's place makes another string (`FlattenDiffer`) at every node.

`VerifiedWhole` is about RecursiveVerify, which asks for every page at the version of the root, though a page that
this version did not write is not there at it (`ExactlyWritten`). Where the version wrote all that it
holds (`Rewritten`), the last write below each path is its own (`LatestHere`), so each page that an entry leads to is there and
has the hash in the entry, and each leaf the value that this version wrote (`PageVerified`). For
that an index node must have a version for each of its children, which `SecondHashed` says. The recursion ends since ids are
bounded, hence `KeysBounded` again.

**DeltaCacheProofs.** From `PoolAssumption`, `PageAssumption`, `UpdatesAssumption`.
`PoolPartitioned` is inductive once it also says
that `free_pages` is a sequence of entries (`Once`). Giving back an entry (`EvictedOnce`)
and handing one out (`FetchedOnce`) each keep it, for any state of memory, so their
composition in one Get does. `FreeLeft` is the case without eviction: fewer pages than entries
leave an entry free, since `cache` would otherwise map the pages onto all entries. The
theorem is proved with Flush (`EntriesPartitionedByFlush`) and without it.

`PagesReturned` (`StoredPageReturned`) and `PagesApart` (`OffsetsApart`) are about the file.
A page stored last is in the pool (`PoolHolds`) or, intact, at its offset in the file (`FileHolds`), or it was
never stored (`Unstored`). What could spoil it is `FlushToDisk`, which writes
pages first and cuts off the old index block afterwards, by the length it
finds at the end of the file. `IndexLast` says what that end is: an index block as long as the
word after it says, or no block at all; `BatchBehind` that all pages lie before the block, or were written
over and behind it in this very flush, so that the cut takes none of them. The hypothesis
`IndexFits` says that an index block of all pages is no longer than one page. It is tight:
with pages one unit shorter the property fails (`MCDeltaIndex.cfg`, section 3). The
theorems are about `Spec`; under `SpecFlush` the property is false (`MCDeltaFlush.cfg`).

**Only model-checked.** The liveness property `CommitEnds`, for the
provers know nothing of ENABLED. Inductions over natural numbers are made by hand, from the existence of a
least counterexample (`NatLessThanWellFounded` and `WFMin` of the library); the library's
induction theorems themselves take an operator as a parameter, which the installed provers cannot
instantiate, and so do the folds of the community modules. For that reason a loop that a proof is about is
a recursive function here, not a fold.

## 5. What is not modelled, and the plan

In order of importance:

1. `b_update_count_` in DeltaCache, joined to PageChain's counters.
2. Get, update and store of a delta page as steps of their own in DeltaCache, so that
   its eviction meets the pages a commit holds.
3. Oversized commits in `DMMTrie` (they are in `PageChain` for one page).
4. Opening again as a whole: wrapper, trie, LSVPS and VDLS over the files left. Today
   the list of index files is in memory only, so a reopened trie is empty and the code
   makes no promise to check.

Runs are few on purpose, one for each question; when modules are joined, the run of the
composition takes the place of those it subsumes.

Not planned: the rest of the C interface (it forwards and copies strings; what it forwards is in
`LetusStorage`, and LetusProof is in `Nodes`), the ledger iterator (an integer cursor with two comparisons, which
tests reach), WriteValueV1 / ReadValueV1 (unused),
Revert (nothing to model below the wrapper), `workload/` and `exps/` (drivers;
they give the call orders and the bounds), concurrency (there is none).
