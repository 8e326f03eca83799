------------------------------ MODULE PageChain ------------------------------
(***************************************************************************)
(* How the versions of ONE page of the trie are kept.  A commit            *)
(* (DMMTrie::CalcRootHash) applies its updates to the cached page and      *)
(* records each in the page's active delta page; after Td items the delta  *)
(* page is frozen and stored, after Tb items the whole page is stored as a *)
(* base page, and a commit too large for the delta pages stores a base     *)
(* page directly.  Stored pages form a chain through last_pagekey_, which  *)
(* LSVPS::LoadPage walks and replays to rebuild the page at any version.   *)
(*                                                                         *)
(* A slot is one child position (the two nibbles of                        *)
(* BasePage::UpdatePage); its contents are the version that last wrote it, *)
(* which stands for the child hash or value location written then.  The    *)
(* one or two delta items of one update (the child entry and the root      *)
(* entry above it) always travel together and are one item of the model    *)
(* that counts Weight items.                                               *)
(***************************************************************************)
EXTENDS Integers, Sequences, FiniteSets

CONSTANTS
    Slot,          \* child positions; 256 for an index page, 1 for a leaf page
    Weight,        \* delta items per update: 2 in an index page, 1 in a leaf page
    Td,            \* items after which a delta page is frozen (128)
    Tb,            \* items after which a base page is stored (256)
    FirstVersion,  \* version of the first commit
    LastVersion,   \* bound: version of the last commit
    NotCached,     \* the page is not in the LRU cache
    None,          \* no such page
    Broken         \* LoadPage threw "BasePage not found"

ASSUME SlotAssumption == Slot \subseteq Nat /\ IsFiniteSet(Slot)
ASSUME ThresholdAssumption ==
    /\ Weight \in {1, 2}
    /\ Td \in Nat \ {0} /\ Td % 2 = 0
    /\ Tb = 2 * Td
ASSUME VersionAssumption ==
    FirstVersion \in Nat /\ LastVersion \in Nat /\ FirstVersion <= LastVersion

VARIABLES
    version,             \* version of the commit under way or to come
    pc,                  \* "idle" between commits, "update" inside one
    pending,             \* slots the commit still has to update
    if_exceed,           \* the commit bypasses the delta page
    page,                \* the latest page in the LRU cache, or NotCached
    active,              \* the active delta page: items, last, count, bcount
    deltapage_versions,  \* versions at which a delta page was frozen
    page_version,        \* current: last update; base: last base page
    staged,              \* page_cache_: pages the commit will hand to LSVPS
    frozen,              \* frozen[v]: stored delta page with key version v
    base,                \* base[v]: stored base page with key version v
    history,             \* ghost: contents committed at each version
    latest               \* ghost: contents committed last

chainVars == <<active, deltapage_versions, page_version, staged>>
storeVars == <<frozen, base>>
ghostVars == <<history, latest>>
vars == <<version, pc, pending, if_exceed, page, active, deltapage_versions,
          page_version, staged, frozen, base, history, latest>>

Version == FirstVersion..LastVersion
Never == -1
Key == [type : {"base", "delta"}, version : 0..LastVersion]
Item == [slot : Slot, version : Version]
Contents == [Slot -> Version \cup {Never}]
Page == [version : 0..LastVersion, slots : Contents]
Delta == [items : Seq(Item), last : Key]

ASSUME NoneAssumption ==
    /\ None \notin Delta /\ None \notin Page /\ None \notin Contents
    /\ NotCached \notin Page
    /\ Broken \notin Page /\ Broken # None

BaseKey(v) == [type |-> "base", version |-> v]
DeltaKey(v) == [type |-> "delta", version |-> v]

\* new BasePage(trie, nullptr, pid): no root node yet.
NewPage == [version |-> 0, slots |-> [s \in Slot |-> Never]]

NothingStaged == [delta |-> None, base |-> None]

\* The page before its first commit.
Init ==
    /\ version = FirstVersion
    /\ pc = "idle"
    /\ pending = {}
    /\ if_exceed = FALSE
    /\ page = NotCached
    /\ active = [items |-> <<>>, last |-> BaseKey(0), count |-> 0, bcount |-> 0]
    /\ deltapage_versions = {}
    /\ page_version = [current |-> 0, base |-> 0]
    /\ staged = NothingStaged
    /\ frozen = [v \in Version |-> None]
    /\ base = [v \in Version |-> None]
    /\ history = [v \in Version |-> None]
    /\ latest = NewPage.slots

-----------------------------------------------------------------------------
(* Reading a version *)

\* LSVPS::pageLookup finds nothing under version 0.
Lookup(table, v) == IF v = 0 \/ v \notin Version THEN None ELSE table[v]

\* DMMTrie's current_version_: that of the last Put.
current_version ==
    IF pc = "update" THEN version ELSE IF version = FirstVersion THEN 0 ELSE version - 1

\* Mutant: lower_bound instead of upper_bound.
LowerBound(u) ==
    LET later == {v \in deltapage_versions : v >= u} IN
    IF deltapage_versions = {} THEN 0
    ELSE IF later = {} THEN current_version
    ELSE CHOOSE v \in later : \A w \in later : v <= w

\* The first frozen delta page after version u, else the trie's version.
VersionUpperbound(u) ==
    LET later == {v \in deltapage_versions : v > u} IN
    IF deltapage_versions = {} THEN 0
    ELSE IF later = {} THEN current_version
    ELSE CHOOSE v \in later : \A w \in later : v <= w

\* Mutant: applyDelta replays the whole delta page.
WholePage(items, u) == items

\* applyDelta stops at the first item newer than u.
Upto(items, u) ==
    LET newer == {i \in DOMAIN items : items[i].version > u} IN
    IF newer = {} THEN items
    ELSE SubSeq(items, 1, (CHOOSE i \in newer : \A j \in newer : i <= j) - 1)

\* Replaying items over contents: the last item of a slot wins.
Replay(contents, items) ==
    [s \in Slot |->
        LET writes == {i \in DOMAIN items : items[i].slot = s} IN
        IF writes = {} THEN contents[s]
        ELSE items[CHOOSE i \in writes : \A j \in writes : j <= i].version]

\* Where LoadPage starts: the delta page frozen after u when a newer base
\* page exists, otherwise the active delta page alone.
Sentinel(u) ==
    IF u >= page_version.base THEN None ELSE Lookup(frozen, VersionUpperbound(u))

\* From the page stored under a key back through the delta pages of a table:
\* the key the walk ends at, and the items it meets, oldest first, up to u.
Walk(table, u) ==
    LET walk[k \in Key] ==
            LET d == Lookup(table, k.version) IN
            IF k.type = "delta" /\ d # None
            THEN [from |-> walk[d.last].from,
                  items |-> walk[d.last].items \o Upto(d.items, u)]
            ELSE [from |-> k, items |-> <<>>]
    IN  walk

\* The same from a delta page that need not be stored.
Gathered(table, u, d) ==
    [from |-> Walk(table, u)[d.last].from,
     items |-> Walk(table, u)[d.last].items \o Upto(d.items, u)]

\* The pages LoadPage collects for version u: the page it starts from and the
\* items to replay over it; those of the active delta page come last.
Collected(u) ==
    IF Sentinel(u) = None THEN Gathered(frozen, u, active)
    ELSE [Gathered(frozen, u, Sentinel(u)) EXCEPT !.items = @ \o Upto(active.items, u)]

\* The page LoadPage starts from, stored under a key.
Start(table, k) ==
    IF k.version = 0 THEN NewPage
    ELSE IF k.type = "base" THEN Lookup(table, k.version) ELSE None

\* A page after items are replayed over it.
Built(start, items) ==
    [version |-> IF items = <<>> THEN start.version ELSE items[Len(items)].version,
     slots |-> Replay(start.slots, items)]

\* The page at version u, built over the base pages of a table.
Rebuilt(table, u, collected) ==
    LET start == Start(table, collected.from) IN
    IF start = None THEN Broken
    ELSE IF Built(start, collected.items).version < u THEN None
    ELSE Built(start, collected.items)

\* A function applied to the pages collected: TLC collects them once.
LoadPage(u) ==
    [collected \in {Collected(u)} |-> Rebuilt(base, u, collected)][Collected(u)]

\* DMMTrie::GetPage: the LRU cache first, under the page's last version.
GetPage(u) ==
    IF page # NotCached /\ page_version.current = u THEN page ELSE LoadPage(u)

\* What a reader of version u is told; a page without a root node is not there.
Answer(u) ==
    LET p == GetPage(u) IN
    IF p \in {None, Broken} THEN p ELSE IF p.slots = NewPage.slots THEN None ELSE p.slots

-----------------------------------------------------------------------------
(* CalcRootHash, the part that concerns this page *)

\* Mutant: a commit that fills two delta pages exactly goes through them.
ExceedsLate(S) == 2 * Cardinality(S) + active.count > 2 * Td

\* Mutant: no commit bypasses the delta page.
ExceedsNever(S) == FALSE

\* The commit of S is more than two delta pages can take.
Exceeds(S) == 2 * Cardinality(S) + active.count >= 2 * Td

\* The page the commit works on; a page nobody stored yet is created.
Loaded ==
    LET p == GetPage(page_version.current) IN IF p = None THEN NewPage ELSE p

Frozen(d) == [items |-> d.items, last |-> d.last]

\* Mutant: the frozen delta page is not linked from the next one.
ClearedUnlinked(d) == [d EXCEPT !.items = <<>>, !.count = 0]

\* The active delta page once it has been frozen at the commit's version.
Cleared(d) == [d EXCEPT !.items = <<>>, !.count = 0, !.last = DeltaKey(version)]

\* Everything before the first UpdatePage.  LoadPage may throw: then the
\* program ends here.
BeginCommit(S) ==
    /\ pc = "idle"
    /\ version <= LastVersion
    /\ Loaded \in Page
    /\ page' = Loaded
    /\ if_exceed' = Exceeds(S)
    /\ IF Exceeds(S) /\ active.count # 0
       THEN /\ staged' = [staged EXCEPT !.delta = Frozen(active)]
            /\ active' = Cleared(active)
            /\ deltapage_versions' = deltapage_versions \cup {version}
       ELSE UNCHANGED <<staged, active, deltapage_versions>>
    /\ pending' = S
    /\ pc' = "update"
    /\ latest' = [s \in Slot |-> IF s \in S THEN version ELSE latest[s]]
    /\ history' = [history EXCEPT ![version] = latest']
    /\ UNCHANGED <<version, page_version, storeVars>>

\* Mutant: the item carries the version the page had before the commit.
GrownStale(d, n) ==
    [d EXCEPT !.items = Append(@, [slot |-> n, version |-> page_version.current]),
              !.count = @ + Weight,
              !.bcount = @ + Weight]

\* AddIndexNodeUpdate / AddLeafNodeUpdate for slot n.
Grown(d, n) ==
    [d EXCEPT !.items = Append(@, [slot |-> n, version |-> version]),
              !.count = @ + Weight,
              !.bcount = @ + Weight]

\* Mutant: the delta page is frozen one update late.
FreezesLate(d) == d.count > Td

Freezes(d) == d.count >= Td

\* Mutant: the base page is stored one update late.
CheckpointsLate(d) == d.bcount > Tb

Checkpoints(d) == d.bcount >= Tb

\* Mutant: the delta page is linked to the key the page had before the commit.
RebasedOnOld(d) == [d EXCEPT !.bcount = 0, !.last = BaseKey(page_version.current)]

\* Mutant: the update count of the base page is not cleared.
RebasedKeepingCount(d) == [d EXCEPT !.last = BaseKey(version)]

\* The active delta page once the base page of this version is staged.
Rebased(d) == [d EXCEPT !.bcount = 0, !.last = BaseKey(version)]

Written(n) == [version |-> version, slots |-> [page.slots EXCEPT ![n] = version]]

\* UpdatePage with a delta page.
UpdateThroughDelta(n) ==
    LET grown == Grown(active, n)
        kept == IF Freezes(grown) THEN Cleared(grown) ELSE grown
    IN  /\ active' = IF Checkpoints(grown) THEN Rebased(kept) ELSE kept
        /\ deltapage_versions' = IF Freezes(grown) THEN deltapage_versions \cup {version}
                                 ELSE deltapage_versions
        /\ staged' = [delta |-> IF Freezes(grown) THEN Frozen(grown) ELSE staged.delta,
                      base |-> IF Checkpoints(grown) THEN Written(n) ELSE staged.base]
        /\ page_version' = [current |-> version,
                            base |-> IF Checkpoints(grown) THEN version
                                     ELSE page_version.base]

\* UpdatePage with deltapage = nullptr.
UpdateInPlace ==
    /\ page_version' = [page_version EXCEPT !.current = version]
    /\ UNCHANGED <<active, deltapage_versions, staged>>

\* The set of nibbles is traversed in ascending order.
UpdatePage(n) ==
    /\ pc = "update"
    /\ n \in pending
    /\ \A m \in pending : n <= m
    /\ page' = Written(n)
    /\ IF if_exceed THEN UpdateInPlace ELSE UpdateThroughDelta(n)
    /\ pending' = pending \ {n}
    /\ UNCHANGED <<version, pc, if_exceed, storeVars, ghostVars>>

\* StorePage: a staged page enters the table under the commit's version.
Stored(table, p) == IF p = None THEN table ELSE [table EXCEPT ![version] = p]

EndCommit ==
    /\ pc = "update"
    /\ pending = {}
    /\ frozen' = Stored(frozen, staged.delta)
    /\ base' = Stored(base, IF if_exceed THEN page ELSE staged.base)
    /\ active' = IF if_exceed THEN Rebased(active) ELSE active
    /\ page_version' = IF if_exceed THEN [current |-> version, base |-> version]
                       ELSE page_version
    /\ staged' = NothingStaged
    /\ pc' = "idle"
    /\ if_exceed' = FALSE
    /\ version' = version + 1
    /\ UNCHANGED <<pending, page, deltapage_versions, ghostVars>>

\* A commit that does not touch this page.
CommitElsewhere ==
    /\ pc = "idle"
    /\ version <= LastVersion
    /\ version' = version + 1
    /\ UNCHANGED <<pc, pending, if_exceed, page, chainVars, storeVars, ghostVars>>

-----------------------------------------------------------------------------
(* The LRU cache, between commits *)

\* PutPage of another page drops this one.
Evict ==
    /\ pc = "idle"
    /\ page # NotCached
    /\ page' = NotCached
    /\ UNCHANGED <<version, pc, pending, if_exceed, chainVars, storeVars, ghostVars>>

\* A read of the latest version brings the page back.
Fetch ==
    /\ pc = "idle"
    /\ page = NotCached
    /\ LoadPage(page_version.current) \in Page
    /\ page' = LoadPage(page_version.current)
    /\ UNCHANGED <<version, pc, pending, if_exceed, chainVars, storeVars, ghostVars>>

Next ==
    \/ \E S \in (SUBSET Slot) \ {{}} : BeginCommit(S)
    \/ \E n \in pending : UpdatePage(n)
    \/ EndCommit
    \/ CommitElsewhere
    \/ Evict
    \/ Fetch

Spec == Init /\ [][Next]_vars

-----------------------------------------------------------------------------
(* Properties *)

TypeOK ==
    /\ version \in FirstVersion..(LastVersion + 1)
    /\ pc \in {"idle", "update"}
    /\ pending \in SUBSET Slot
    /\ if_exceed \in BOOLEAN
    /\ page \in Page \cup {NotCached}
    /\ active \in [items : Seq(Item), last : Key, count : Nat, bcount : Nat]
    /\ deltapage_versions \in SUBSET Version
    /\ page_version \in [current : 0..LastVersion, base : 0..LastVersion]
    /\ staged \in [delta : Delta \cup {None}, base : Page \cup {None}]
    /\ frozen \in [Version -> Delta \cup {None}]
    /\ base \in [Version -> Page \cup {None}]
    /\ history \in [Version -> Contents \cup {None}]
    /\ latest \in Contents

\* Between commits every version answers with the contents committed at it,
\* and a version the page was not committed at is not found.
HistoryServed ==
    pc = "idle" => \A u \in Version : Answer(u) = history[u]

\* Between commits, no read of any version throws for a missing base page.
NeverBroken ==
    pc = "idle" => \A u \in Version : LoadPage(u) # Broken

\* The versions from the last base page on are served whatever the sizes of
\* the commits, from the cache or rebuilt from the store.
RecentServed ==
    pc = "idle" =>
        \A u \in Version :
            u >= page_version.base =>
                /\ Answer(u) = history[u]
                /\ history[u] # None => LoadPage(u) = [version |-> u, slots |-> history[u]]

\* Both update counters of the active delta page stay in step: outside an
\* oversized commit a base page is due exactly at every second freeze.
CountsInStep ==
    /\ active.count = Weight * Len(active.items)
    /\ active.count < Td
    /\ active.bcount < Tb
    /\ ~if_exceed => /\ active.bcount \in {active.count, active.count + Td}
                     /\ active.bcount # active.count => active.last.type = "delta"
                     /\ active.last.type = "delta" => active.bcount # active.count

\* A commit freezes at most one delta page, so page_cache_ never drops one.
FrozenOncePerCommit ==
    [][staged.delta # None => staged'.delta \in {staged.delta, None}]_vars

\* Whatever version is read, fewer than Tb items are replayed over the page
\* the replay starts from: checkpoints come after every Tb updates, even when
\* the delta pages are frozen early.
ReplayBounded ==
    pc = "idle" => \A u \in Version : Weight * Len(Collected(u).items) < Tb

\* What GetPage answers implements the versioned page.
Served == [u \in Version |-> IF pc = "idle" THEN Answer(u) ELSE history[u]]

Abstract == INSTANCE VersionedPage WITH pages <- Served

ImplementsVersionedPage == Abstract!Spec
=============================================================================
