------------------------------ MODULE PageTable ------------------------------
(***************************************************************************)
(* Where frozen delta pages and base pages are kept and found again: the   *)
(* memory table of LSVPS (MemIndexTable), its index files and pageLookup.  *)
(* A commit hands over the pages of its page_cache_ in the order of their  *)
(* keys.  A full table, or a Flush, is written to a new index file: the    *)
(* pages, then index blocks with the key and place of each page, then one  *)
(* lookup block with the first key of each index block.  Every part fills  *)
(* one unit of 12288 bytes (PAGE_SIZE, INDEXBLOCK_SIZE, BLOCK_SIZE), so    *)
(* places are counted in units.                                            *)
(*                                                                         *)
(* The contents of a page are its key: a lookup that reads a wrong place   *)
(* answers with another page.                                              *)
(***************************************************************************)
EXTENDS Integers, SequencesExt

CONSTANTS
    Pid,               \* page ids, in order
    MappingsPerBlock,  \* MAPPINGS_PER_BLOCK, 126 in the code
    MaxSize,           \* max_size_ of the table, 15876 in the code
    LastVersion,       \* bound: version of the last commit
    LastFile,          \* bound: files of one process
    None,              \* no such page
    Failed             \* the lookup threw

ASSUME BlockAssumption == MappingsPerBlock \in Nat \ {0} /\ MaxSize \in Nat \ {0}
ASSUME PidAssumption == Pid \subseteq Nat /\ IsFiniteSet(Pid)
ASSUME VersionAssumption == LastVersion \in Nat /\ LastFile \in Nat

VARIABLES
    version,      \* version of the latest commit
    page_cache,   \* pages of that commit not handed over yet
    buffer,       \* the memory table
    index_files,  \* range of keys and path of each index file
    disk,         \* the files, each a sequence of units
    stored        \* ghost: keys of all pages handed over

vars == <<version, page_cache, buffer, index_files, disk, stored>>

\* Base pages have type 0, delta pages 1; a trie has one tid.
Key == [version : 1..LastVersion, type : 0..1, pid : Pid]

ASSUME NoneAssumption == None \notin Key /\ Failed \notin Key /\ None # Failed

\* PageKey's operator<.
Before(k, l) ==
    \/ k.version < l.version
    \/ k.version = l.version /\ k.type < l.type
    \/ k.version = l.version /\ k.type = l.type /\ k.pid < l.pid

UpTo(k, l) == k = l \/ Before(k, l)

NoFile == <<>>

Init ==
    /\ version = 0
    /\ page_cache = {}
    /\ buffer = <<>>
    /\ index_files = <<>>
    /\ disk = [path \in 0..LastFile |-> NoFile]
    /\ stored = {}

-----------------------------------------------------------------------------
(* Writing an index file *)

PageUnit(k) == [kind |-> "page", key |-> k]

\* The place of the i-th page of the file.
PlaceOf(i) == i - 1

Mapping(pages, i) == [key |-> pages[i], location |-> PlaceOf(i)]

BlockCount(pages) == (Len(pages) + MappingsPerBlock - 1) \div MappingsPerBlock

\* The b-th index block: the next pages, as many as a block takes.
IndexBlock(pages, b) ==
    LET first == (b - 1) * MappingsPerBlock
    IN  [kind |-> "index",
         mappings |-> [i \in 1..Min({MappingsPerBlock, Len(pages) - first}) |->
                          Mapping(pages, first + i)]]

\* The lookup block: the first key of each index block, and where the block is.
LookupBlock(pages) ==
    [kind |-> "lookup",
     entries |-> [b \in 1..BlockCount(pages) |->
                     [key |-> IndexBlock(pages, b).mappings[1].key,
                      location |-> Len(pages) + b - 1]]]

\* writeToStorage.
IndexFile(pages) ==
    [i \in 1..Len(pages) |-> PageUnit(pages[i])]
    \o [b \in 1..BlockCount(pages) |-> IndexBlock(pages, b)]
    \o <<LookupBlock(pages)>>

\* Mutant: the name of the file is counted again after it was written.
RangeOfNext(pages, path) == [min |-> Head(pages), max |-> Last(pages), path |-> path + 1]

RangeOf(pages, path) == [min |-> Head(pages), max |-> Last(pages), path |-> path]

\* MemIndexTable::Flush of these pages: the file is named by the number of
\* files this process has written.
FlushTable(pages) ==
    IF pages = <<>> THEN UNCHANGED <<buffer, index_files, disk>>
    ELSE /\ Len(index_files) \in DOMAIN disk
         /\ disk' = [disk EXCEPT ![Len(index_files)] = IndexFile(pages)]
         /\ index_files' = Append(index_files, RangeOf(pages, Len(index_files)))
         /\ buffer' = <<>>

-----------------------------------------------------------------------------
(* Finding a page *)

\* Mutant: lower_bound, the last index block that starts before the key.
BlockBefore(entries, k) == {e \in Range(entries) : Before(e.key, k)}

\* upper_bound less one: the index blocks that start at the key or before.
BlocksUpTo(entries, k) == {e \in Range(entries) : UpTo(e.key, k)}

UnitAt(file, location) == file[location + 1]

\* LookupBlock::Deserialize takes no other unit.
IsLookup(unit) == unit.kind = "lookup"

\* IndexBlock::Deserialize takes no other unit.
IsIndex(unit) == unit.kind = "index"

\* Page::Deserialize.
PageAt(file, location) ==
    LET unit == UnitAt(file, location)
    IN  IF unit.kind = "page" THEN unit.key ELSE Failed

\* The page of this key in an index block.
FoundIn(file, mappings, k) ==
    LET found == {m \in Range(mappings) : m.key = k}
        mapping == CHOOSE m \in found : \A n \in found : m.location <= n.location
    IN  IF found = {} THEN None ELSE PageAt(file, mapping.location)

\* readPageFromIndexFile.
ReadPage(file, k) ==
    LET lookup == Last(file)
        blocks == BlocksUpTo(lookup.entries, k)
        entry == CHOOSE e \in blocks : \A f \in blocks : UpTo(f.key, e.key)
        index == UnitAt(file, entry.location)
    IN  IF ~IsLookup(lookup) THEN Failed
        ELSE IF blocks = {} THEN None
        ELSE IF ~IsIndex(index) THEN Failed
        ELSE FoundIn(file, index.mappings, k)

\* find_if: the first index file whose range of keys has the key in it.
FilesWith(k) ==
    {i \in DOMAIN index_files : UpTo(index_files[i].min, k) /\ UpTo(k, index_files[i].max)}

\* The memory table first, then the index files.
PageLookup(k) ==
    IF k \in Range(buffer) THEN k
    ELSE IF FilesWith(k) = {} THEN None
    ELSE ReadPage(disk[index_files[Min(FilesWith(k))].path], k)

-----------------------------------------------------------------------------
(* Commits *)

\* CalcRootHash has gathered its frozen delta pages and base pages.
BeginCommit(S) ==
    /\ page_cache = {}
    /\ version < LastVersion
    /\ version' = version + 1
    /\ page_cache' = {[version |-> version + 1, type |-> s[1], pid |-> s[2]] : s \in S}
    /\ UNCHANGED <<buffer, index_files, disk, stored>>

\* MemIndexTable::IsFull.
IsFull(pages) == Len(pages) >= MaxSize

\* Mutant: the pages are handed over in any order, as from a hash table.
NextAny(k) == TRUE

\* Mutant: a page waits for itself.
NextStrict(k) == \A l \in page_cache : Before(k, l)

\* page_cache_ is traversed in the order of the keys.
IsNext(k) == \A l \in page_cache : UpTo(k, l)

\* LSVPS::StorePage of the next page.
StorePage(k) ==
    LET pages == Append(buffer, k) IN
    /\ k \in page_cache
    /\ IsNext(k)
    /\ IF IsFull(pages) THEN FlushTable(pages)
       ELSE buffer' = pages /\ UNCHANGED <<index_files, disk>>
    /\ page_cache' = page_cache \ {k}
    /\ stored' = stored \cup {k}
    /\ UNCHANGED version

\* DMMTrie::Flush, between commits.
Flush ==
    /\ page_cache = {}
    /\ buffer # <<>>
    /\ FlushTable(buffer)
    /\ UNCHANGED <<version, page_cache, stored>>

Next ==
    \/ \E S \in SUBSET ((0..1) \X Pid) : BeginCommit(S)
    \/ \E k \in page_cache : StorePage(k)
    \/ Flush

\* A commit that has begun goes on: it is one call, in the caller's thread.
Fairness == WF_vars(\E k \in page_cache : StorePage(k))

Spec == Init /\ [][Next]_vars /\ Fairness

-----------------------------------------------------------------------------
(* Properties *)

TypeOK ==
    /\ version \in 0..LastVersion
    /\ page_cache \in SUBSET Key
    /\ buffer \in Seq(Key)
    /\ index_files \in Seq([min : Key, max : Key, path : 0..LastFile])
    /\ DOMAIN disk = 0..LastFile
    /\ stored \in SUBSET Key

\* Every page handed over is found under its key, in the memory table or in
\* an index file, wherever the table was written out, and no key is answered
\* with another page or with an error.
StoredFound == \A k \in Key : PageLookup(k) = IF k \in stored THEN k ELSE None

\* Index files and memory table hold disjoint ranges of keys, in order, even
\* when one commit is split between two of them: pageLookup looks into
\* the first file whose range has the key, and into no other.
FilesInOrder ==
    /\ \A i, j \in DOMAIN index_files :
          i < j => Before(index_files[i].max, index_files[j].min)
    /\ \A i \in DOMAIN index_files : \A k \in Range(buffer) :
          Before(index_files[i].max, k)

\* Every page of a commit is handed over in the end.
CommitEnds == \A k \in Key : k \in page_cache ~> k \in stored
=============================================================================
