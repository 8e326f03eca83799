------------------------------ MODULE DeltaCache ------------------------------
(***************************************************************************)
(* Where the active delta pages live: LSVPS::ActiveDeltaPageCache.  A pool *)
(* of max_size pages holds those in use; every page is also written to one *)
(* file each time a commit stores it, so a page evicted from the pool is   *)
(* read back from there.  Flush writes the pool out and ends the file with *)
(* an index block (page id and offset of each page, then the block's       *)
(* length), from which the next process finds the pages again.             *)
(*                                                                         *)
(* The file is a sequence of units of 8 bytes.  A page takes PageUnits of  *)
(* them, the last one always zero (128 delta items do not fill a page); an *)
(* index entry and the length are a unit each.  A page's contents are the  *)
(* number of times it was updated; its b_update_count_, which the file     *)
(* does not hold, is left out.                                             *)
(***************************************************************************)
EXTENDS Integers, SequencesExt

CONSTANTS
    Pid,         \* page ids
    PoolSizes,   \* pool sizes to choose from, 3000000 in the code
    PageUnits,   \* units of a page in the file, 1536 in the code
    MaxUpdates,  \* bound: updates of a page
    MaxFile,     \* bound: length of a file that is opened again
    NoPage,      \* a pool entry nobody has used
    Unreadable   \* the bytes at an offset are not one whole page

ASSUME PoolAssumption == PoolSizes \subseteq Nat \ {0}
ASSUME PageAssumption == PageUnits \in Nat /\ PageUnits >= 2
ASSUME UpdatesAssumption == MaxUpdates \in Nat

VARIABLES
    max_size,       \* size of the pool
    page_pool,      \* the pool entries
    free_pages,     \* queue of the unused ones
    cache,          \* pool entry of each page in the pool
    pid_to_offset,  \* offset in the file of each page known to be there
    file,           \* delta_cache.dat
    stored          \* ghost: contents each page was stored with last

memory == <<page_pool, free_pages, cache>>
vars == <<max_size, page_pool, free_pages, cache, pid_to_offset, file, stored>>

Page == [pid : Pid, updates : 0..MaxUpdates]
NewPage(p) == [pid |-> p, updates |-> 0]

Nothing == [p \in {} |-> 0]

Init ==
    /\ max_size \in PoolSizes
    /\ page_pool = [i \in 1..max_size |-> NoPage]
    /\ free_pages = [i \in 1..max_size |-> i]
    /\ cache = Nothing
    /\ pid_to_offset = Nothing
    /\ file = <<>>
    /\ stored = [p \in Pid |-> 0]

-----------------------------------------------------------------------------
(* The file *)

Zero == [kind |-> "zero"]
Image(page) ==
    [i \in 1..PageUnits |-> IF i = PageUnits THEN Zero
                            ELSE [kind |-> "page", page |-> page, unit |-> i]]

\* A page written at an offset; a hole behind the end reads as zeros.
WrittenAt(f, offset, page) ==
    [i \in 1..Max({Len(f), offset + PageUnits}) |->
        IF i - offset \in 1..PageUnits THEN Image(page)[i - offset]
        ELSE IF i <= Len(f) THEN f[i] ELSE Zero]

PageAt(offset) ==
    LET found == {page \in Page : SubSeq(file, offset + 1, offset + PageUnits - 1)
                                    = Front(Image(page))}
    IN  IF offset + PageUnits <= Len(file) /\ found # {}
        THEN CHOOSE page \in found : TRUE ELSE Unreadable

Entries(offsets) ==
    LET pids == SetToSeq(DOMAIN offsets)
    IN  [i \in DOMAIN pids |->
            [kind |-> "entry", pid |-> pids[i], offset |-> offsets[pids[i]]]]

LengthOf(offsets) == <<[kind |-> "length", units |-> Cardinality(DOMAIN offsets)]>>

\* Mutant: the block's length comes before the entries.
LengthFirst(offsets) == LengthOf(offsets) \o Entries(offsets)

IndexBlock(offsets) == Entries(offsets) \o LengthOf(offsets)

\* The last unit of the file, taken for the length of an index block.
IndexLength(f) == IF Last(f).kind = "length" THEN Last(f).units ELSE 0

\* writeIndexBlock cuts the old block off.  A page at the end of the file
\* loses its last unit.
WithoutIndex(f) ==
    IF f = <<>> THEN f ELSE SubSeq(f, 1, Len(f) - IndexLength(f) - 1)

ReadIndex(f) ==
    LET entries == {f[i] : i \in (Len(f) - IndexLength(f))..(Len(f) - 1)}
    IN  [p \in {e.pid : e \in entries} |->
            (CHOOSE e \in entries : e.pid = p).offset]

-----------------------------------------------------------------------------
(* Getting a page *)

\* readFromDisk, or a new page when the file is not known to hold this one.
FromDisk(p) ==
    IF p \in DOMAIN pid_to_offset THEN PageAt(pid_to_offset[p]) ELSE NewPage(p)

Memory == [pool |-> page_pool, free |-> free_pages, cache |-> cache]

\* Page p dropped from the pool, unwritten.
Evicted(m, p) ==
    [pool |-> [m.pool EXCEPT ![m.cache[p]].updates = 0],
     free |-> Append(m.free, m.cache[p]),
     cache |-> Restrict(m.cache, DOMAIN m.cache \ {p})]

\* Mutant: the pool entry stays in the queue of free ones.
EntryStaysFree(m, p) ==
    [pool |-> [m.pool EXCEPT ![Head(m.free)] = FromDisk(p)],
     free |-> m.free,
     cache |-> m.cache @@ (p :> Head(m.free))]

\* Page p brought into the first free pool entry.
Fetched(m, p) ==
    [pool |-> [m.pool EXCEPT ![Head(m.free)] = FromDisk(p)],
     free |-> Tail(m.free),
     cache |-> [q \in DOMAIN m.cache \cup {p} |->
                  IF q = p THEN Head(m.free) ELSE m.cache[q]]]

\* The states of memory after Get(p): the page evicted is the first of a
\* hash table, any page.
AfterGet(p) ==
    IF p \in DOMAIN cache THEN {Memory}
    ELSE IF FromDisk(p) = Unreadable THEN {}
    ELSE IF Cardinality(DOMAIN cache) < max_size THEN {Fetched(Memory, p)}
    ELSE {Fetched(Evicted(Memory, q), p) : q \in DOMAIN cache}

\* LoadPage looks at the active delta page.
Load(p) ==
    /\ \E m \in AfterGet(p) :
          page_pool' = m.pool /\ free_pages' = m.free /\ cache' = m.cache
    /\ UNCHANGED <<max_size, pid_to_offset, file, stored>>

-----------------------------------------------------------------------------
(* Storing a page *)

\* writePageToDisk: a page the file is not known to hold goes to its end.
OffsetOf(p) == IF p \in DOMAIN pid_to_offset THEN pid_to_offset[p] ELSE Len(file)

\* Mutant: writing the page is left to its eviction.
KeptInMemory(page) == file

FileWith(page) == WrittenAt(file, OffsetOf(page.pid), page)

\* CalcRootHash gets the page, adds its updates and stores it.
Commit(p) ==
    \E m \in AfterGet(p) :
        LET page == [m.pool[m.cache[p]] EXCEPT !.updates = @ + 1] IN
        /\ page.updates <= MaxUpdates
        /\ page_pool' = [m.pool EXCEPT ![m.cache[p]] = page]
        /\ free_pages' = m.free
        /\ cache' = m.cache
        /\ file' = FileWith(page)
        /\ pid_to_offset' = [q \in DOMAIN pid_to_offset \cup {p} |-> OffsetOf(q)]
        /\ stored' = [stored EXCEPT ![p] = page.updates]
        /\ UNCHANGED max_size

-----------------------------------------------------------------------------
(* Writing the pool out *)

\* Mutant: the pages are laid out from the start of the file.
FileStart == 0

\* Where prepareForBatchWrite starts: behind every page of the file.
BatchStart ==
    IF pid_to_offset = Nothing THEN 0 ELSE Max(Range(pid_to_offset)) + PageUnits

\* Every page of the pool gets a new offset, in the order of the hash table.
Prepared(order) ==
    [p \in Range(order) \cup DOMAIN pid_to_offset |->
        IF p \in Range(order)
        THEN BatchStart + PageUnits * ((CHOOSE i \in DOMAIN order : order[i] = p) - 1)
        ELSE pid_to_offset[p]]

\* The file with the pages of the pool written, one after the other.
Batch(order) ==
    LET offsets == Prepared(order)
        written[n \in 0..Len(order)] ==
            IF n = 0 THEN file
            ELSE LET p == order[n]
                 IN  WrittenAt(written[n - 1], offsets[p], page_pool[cache[p]])
    IN  written[Len(order)]

\* The file after FlushToDisk.
Flushed(order) == WithoutIndex(Batch(order)) \o IndexBlock(Prepared(order))

Orders == SetToSeqs(DOMAIN cache)

\* The destructor, and the constructor of the next process.
Reopen ==
    /\ Len(file) <= MaxFile
    /\ \E order \in Orders : file' = Flushed(order)
    /\ pid_to_offset' = ReadIndex(file')
    /\ page_pool' = [i \in 1..max_size |-> NoPage]
    /\ free_pages' = [i \in 1..max_size |-> i]
    /\ cache' = Nothing
    /\ UNCHANGED <<max_size, stored>>

Next ==
    \/ \E p \in Pid : Load(p)
    \/ \E p \in Pid : Commit(p)
    \/ Reopen

Spec == Init /\ [][Next]_vars

FlushToDisk ==
    /\ \E order \in Orders : file' = Flushed(order)
    /\ pid_to_offset' = Nothing
    /\ UNCHANGED <<max_size, memory, stored>>

\* With the Flush that Write of the Go wrapper calls after every block; it
\* forgets the offsets of all pages.
SpecFlush == Init /\ [][Next \/ FlushToDisk]_vars

-----------------------------------------------------------------------------
(* Properties *)

Unit ==
    [kind : {"zero"}] \cup [kind : {"page"}, page : Page, unit : 1..(PageUnits - 1)]
    \cup [kind : {"entry"}, pid : Pid, offset : Nat]
    \cup [kind : {"length"}, units : 0..Cardinality(Pid)]

\* The last unit of the file is one that IndexLength may read as a length.
TypeOK ==
    /\ max_size \in PoolSizes
    /\ page_pool \in [1..max_size -> Page \cup {NoPage}]
    /\ free_pages \in Seq(1..max_size)
    /\ DOMAIN cache \subseteq Pid /\ Range(cache) \subseteq 1..max_size
    /\ DOMAIN pid_to_offset \subseteq Pid /\ Range(pid_to_offset) \subseteq Nat
    /\ file \in Seq(Unit)
    /\ file # <<>> => Last(file).kind \in {"zero", "length"}
    /\ stored \in [Pid -> 0..MaxUpdates]

\* Every pool entry is free once or holds one page: none is lost, and no two
\* pages share one.
PoolPartitioned ==
    /\ IsInjective(cache) /\ IsInjective(free_pages)
    /\ Range(cache) \cap Range(free_pages) = {}
    /\ Range(cache) \cup Range(free_pages) = 1..max_size

\* Whatever was evicted, flushed or opened again in between, Get would return
\* every page as it was stored last.
StoredPageReturned ==
    \A p \in Pid :
        (IF p \in DOMAIN cache THEN page_pool[cache[p]] ELSE FromDisk(p))
            = [pid |-> p, updates |-> stored[p]]

\* No two pages of the file overlap.
OffsetsApart ==
    \A p, q \in DOMAIN pid_to_offset :
        p # q => \/ pid_to_offset[p] + PageUnits <= pid_to_offset[q]
                 \/ pid_to_offset[q] + PageUnits <= pid_to_offset[p]
=============================================================================
