-------------------------------- MODULE Pool --------------------------------
(***************************************************************************)
(* The page pools of kgsl_pool.c, the allocations of kgsl_sharedmem.c that *)
(* take pages from them and give them back, and the kernel's shrinker.     *)
(*                                                                         *)
(* Pages are counted, in pages of order 0.  Each pool's list_lock is held  *)
(* within a step; the sizes that are read without it, or one pool after    *)
(* the other, are read in steps of their own.                              *)
(***************************************************************************)
EXTENDS Integers, Sequences, FiniteSetsExt

CONSTANTS
    Scenes,     \* sequences of pools: the order, reserve and limit of each
    MaxPages,   \* kgsl_pool_max_pages: pools at this size take no more
    Pages,      \* pages the system has for all this
    Clients,    \* threads that allocate memory and free it, one piece each
    Sizes,      \* pages that user space asks for
    TopOrder,   \* the largest order an allocation starts from
    MaxScans    \* how often the kernel calls the shrinker

VARIABLES
    pools,      \* the sequence of pools, for good
    count,      \* page_count of each pool
    system,     \* pages that alloc_pages may give
    client,     \* per client: where it is, its memory and what it asks for next
    shrinker,   \* where kgsl_pool_reduce is: pool, pages left to take, pages taken
    scans       \* calls of the shrinker left

vars == <<pools, count, system, client, shrinker, scans>>

PoolAssumption ==
    /\ MaxPages \in Nat /\ Pages \in Nat /\ TopOrder \in Nat /\ MaxScans \in Nat
    /\ Sizes \subseteq Nat \ {0}
    \* kgsl_probe_page_pools is given the pools by rising order.
    /\ \A s \in Scenes : \A i, j \in DOMAIN s : i < j => s[i].order < s[j].order

Orders == 0 .. TopOrder
Index == DOMAIN pools
Larger == 2 ^ TopOrder

None == [o \in Orders |-> 0]

\* The pages of order 0 in a memory
Content(has) == MapThenSumSet(LAMBDA o : has[o] * 2 ^ o, Orders)

PoolOf(order) == {i \in Index : pools[i].order = order}

Idle == [at |-> "idle", size |-> 0, has |-> None, order |-> 0, align |-> 0,
         flushed |-> FALSE, deferred |-> FALSE, pool |-> 0, sum |-> 0]
Quiet == [at |-> "no", pool |-> 0, left |-> 0, freed |-> 0, asked |-> 0]

\* kgsl_pool_reserve_pages: the system may have less than the reserve.
Init ==
    /\ pools \in Scenes
    /\ count \in [Index -> 0 .. Pages]
    /\ \A i \in Index : count[i] <= pools[i].reserved
    /\ system = Pages - MapThenSumSet(LAMBDA i : count[i] * 2 ^ pools[i].order, Index)
    /\ client = [c \in Clients |-> Idle]
    /\ shrinker = Quiet /\ scans = MaxScans

-----------------------------------------------------------------------------
(* Allocation: _kgsl_alloc_pages and kgsl_pool_alloc_page.                 *)

Bug_PageOrder(size, align) ==
    Max({0} \cup {o \in Orders : o <= align /\ PoolOf(o) # {}})

\* kgsl_get_page_size: the largest pages that fit and that have a pool
PageOrder(size, align) ==
    Max({0} \cup {o \in Orders : o <= align /\ 2 ^ o <= size /\ PoolOf(o) # {}})

Asks(c, size) ==
    /\ client[c].at = "idle" /\ size \in Sizes
    /\ client' = [client EXCEPT ![c] =
           [Idle EXCEPT !.at = "asks", !.size = size, !.align = TopOrder,
                        !.order = PageOrder(size, TopOrder)]]
    /\ UNCHANGED <<pools, count, system, shrinker, scans>>

\* A page more; the next is as large as what is missing and align allow.
Bigger(r) ==
    LET has == [r.has EXCEPT ![r.order] = @ + 1]
        left == r.size - Content(has)
    IN  IF left = 0
        THEN [Idle EXCEPT !.at = "holds", !.has = has, !.size = r.size]
        ELSE [r EXCEPT !.has = has, !.order = PageOrder(left, r.align)]

TakesFromPool(c) ==
    /\ client[c].at = "asks"
    /\ \E i \in PoolOf(client[c].order) :
           count[i] > 0 /\ count' = [count EXCEPT ![i] = @ - 1]
    /\ client' = [client EXCEPT ![c] = Bigger(@)]
    /\ UNCHANGED <<pools, system, shrinker, scans>>

PoolIsEmpty(order) == \A i \in PoolOf(order) : count[i] = 0

TakesFromSystem(c) ==
    /\ client[c].at = "asks" /\ PoolIsEmpty(client[c].order)
    /\ system >= 2 ^ client[c].order
    /\ system' = system - 2 ^ client[c].order
    /\ client' = [client EXCEPT ![c] = Bigger(@)]
    /\ UNCHANGED <<pools, count, shrinker, scans>>

\* Larger pages may be missing in any system that has pages: it is fragmented.
SystemFails(order) == order > 0 \/ system = 0

IsFirst(order) == \A i \in Index : pools[i].order >= order

\* -EAGAIN: the order of the next smaller pool, and of no larger one any more
Lower(c) ==
    LET r == client[c]
        smaller == Max({pools[i].order : i \in {j \in Index : pools[j].order < r.order}})
        order == PageOrder(2 ^ smaller, smaller)
    IN  /\ r.at = "asks" /\ PoolIsEmpty(r.order) /\ SystemFails(r.order)
        /\ ~IsFirst(r.order)
        /\ client' = [client EXCEPT ![c].order = order, ![c].align = order]
        /\ UNCHANGED <<pools, count, system, shrinker, scans>>

OutOfMemory(c) ==
    LET r == client[c] IN
    r.at = "asks" /\ PoolIsEmpty(r.order) /\ SystemFails(r.order) /\ IsFirst(r.order)

Flushed == \A d \in Clients : ~client[d].deferred

\* The memory whose freeing waits in the lockless workqueue is freed first.
Flushes(c) ==
    /\ OutOfMemory(c) /\ ~client[c].flushed /\ Flushed
    /\ client' = [client EXCEPT ![c].flushed = TRUE]
    /\ UNCHANGED <<pools, count, system, shrinker, scans>>

Freeing(has, deferred) ==
    [Idle EXCEPT !.at = "frees", !.has = has, !.deferred = deferred, !.pool = 1]

Bug_GiveUp(r) == Idle

\* Goes through the pages it got and frees each.
GiveUp(r) == Freeing(r.has, FALSE)

Fails(c) ==
    /\ OutOfMemory(c) /\ client[c].flushed
    /\ client' = [client EXCEPT ![c] = GiveUp(@)]
    /\ UNCHANGED <<pools, count, system, shrinker, scans>>

\* -EINTR: a fatal signal of the thread, looked at before each page
Killed(c) ==
    /\ client[c].at = "asks"
    /\ client' = [client EXCEPT ![c] = GiveUp(@)]
    /\ UNCHANGED <<pools, count, system, shrinker, scans>>

-----------------------------------------------------------------------------
(* Freeing: kgsl_pool_free_pages, one page after the other.                *)

\* By the thread itself or by the lockless workqueue
Frees(c) ==
    /\ client[c].at = "holds"
    /\ \E deferred \in BOOLEAN :
           client' = [client EXCEPT ![c] = Freeing(@.has, deferred)]
    /\ UNCHANGED <<pools, count, system, shrinker, scans>>

NextPage(c) == {o \in Orders : client[c].has[o] > 0}
PageIs(c, o) == client[c].at = "frees" /\ o \in NextPage(c)
Without(r, o) == [r EXCEPT !.has[o] = @ - 1, !.pool = 1, !.sum = 0]

\* kgsl_pool_size_total: one pool's lock after the other's
Sums(c) ==
    LET r == client[c] IN
    /\ r.at = "frees" /\ NextPage(c) # {} /\ r.pool \in Index
    /\ client' = [client EXCEPT ![c].sum = @ + count[r.pool] * 2 ^ pools[r.pool].order,
                                ![c].pool = @ + 1]
    /\ UNCHANGED <<pools, count, system, shrinker, scans>>

Bug_TotalLow(sum) == TRUE
TotalLow(sum) == MaxPages = 0 \/ sum < MaxPages

Bug_HasRoom(i) == TRUE
HasRoom(i) == count[i] < pools[i].max

\* The two limits are looked at without the lock of the pool; the next step adds.
FindsRoom(c, o) ==
    /\ PageIs(c, o) /\ o = Min(NextPage(c))
    /\ client[c].pool = Len(pools) + 1 /\ TotalLow(client[c].sum)
    /\ \E i \in PoolOf(o) : HasRoom(i)
    /\ client' = [client EXCEPT ![c].pool = 0, ![c].sum = 0]
    /\ UNCHANGED <<pools, count, system, shrinker, scans>>

AddPage(c, o) ==
    /\ PageIs(c, o) /\ o = Min(NextPage(c)) /\ client[c].pool = 0
    /\ \E i \in PoolOf(o) : count' = [count EXCEPT ![i] = @ + 1]
    /\ client' = [client EXCEPT ![c] = Without(@, o)]
    /\ UNCHANGED <<pools, system, shrinker, scans>>

GiveBack(c, o) ==
    /\ PageIs(c, o) /\ o = Min(NextPage(c)) /\ client[c].pool = Len(pools) + 1
    /\ ~TotalLow(client[c].sum) \/ \A i \in PoolOf(o) : ~HasRoom(i)
    /\ system' = system + 2 ^ o
    /\ client' = [client EXCEPT ![c] = Without(@, o)]
    /\ UNCHANGED <<pools, count, shrinker, scans>>

Freed(c) ==
    /\ client[c].at = "frees" /\ NextPage(c) = {}
    /\ client' = [client EXCEPT ![c] = Idle]
    /\ UNCHANGED <<pools, count, system, shrinker, scans>>

-----------------------------------------------------------------------------
(* The shrinker.                                                           *)

\* kgsl_pool_shrink_scan_objects: from the pool of the largest pages
Scan(n) ==
    /\ shrinker.at = "no" /\ scans > 0
    /\ scans' = scans - 1
    /\ shrinker' = [Quiet EXCEPT !.at = "reduce", !.pool = Len(pools),
                                 !.left = n, !.asked = n]
    /\ UNCHANGED <<pools, count, system, client>>

Bug_MayTake(i) == count[i] > 0

\* _kgsl_pool_get_nonreserved_page, under the lock
MayTake(i) == count[i] > pools[i].reserved

Shrinks(i) == shrinker.at = "reduce" /\ shrinker.pool = i /\ shrinker.left > 0

Shrink(i) ==
    /\ Shrinks(i) /\ MayTake(i)
    /\ count' = [count EXCEPT ![i] = @ - 1]
    /\ system' = system + 2 ^ pools[i].order
    /\ shrinker' = [shrinker EXCEPT !.left = @ - 2 ^ pools[i].order,
                                    !.freed = @ + 2 ^ pools[i].order]
    /\ UNCHANGED <<pools, client, scans>>

NextPool(i) ==
    /\ Shrinks(i) /\ ~MayTake(i)
    /\ shrinker' = [shrinker EXCEPT !.pool = @ - 1]
    /\ UNCHANGED <<pools, count, system, client, scans>>

Reduced ==
    /\ shrinker.at = "reduce" /\ (shrinker.left <= 0 \/ shrinker.pool = 0)
    /\ shrinker' = Quiet
    /\ UNCHANGED <<pools, count, system, client, scans>>

Next ==
    \/ \E c \in Clients :
           \/ \E size \in Sizes : Asks(c, size)
           \/ TakesFromPool(c) \/ TakesFromSystem(c)
           \/ Lower(c) \/ Flushes(c) \/ Fails(c) \/ Killed(c)
           \/ Frees(c) \/ Sums(c) \/ Freed(c)
           \/ \E o \in Orders : FindsRoom(c, o) \/ AddPage(c, o) \/ GiveBack(c, o)
    \/ \E n \in 1 .. Larger : Scan(n)
    \/ \E i \in Index : Shrink(i) \/ NextPool(i)
    \/ Reduced

Spec == Init /\ [][Next]_vars

-----------------------------------------------------------------------------
(* Properties.                                                             *)

Pooled == MapThenSumSet(LAMBDA i : count[i] * 2 ^ pools[i].order, Index)
Held == MapThenSumSet(LAMBDA c : Content(client[c].has), Clients)

\* Every page is the system's, a pool's or a client's.
NothingLost == system + Pooled + Held = Pages

\* An allocation that succeeds has just the pages it asked for; one that is
\* over, and one whose memory is freed, keeps none.
WholeOrNothing ==
    \A c \in Clients :
        /\ client[c].at = "holds" => Content(client[c].has) = client[c].size
        /\ client[c].at = "asks" => Content(client[c].has) < client[c].size
        /\ client[c].at = "idle" => client[c].has = None

\* The limits are looked at without a lock over look and addition, and the total
\* one pool after the other: each thread may exceed them by one page.
WithinBounds ==
    /\ \A i \in Index : count[i] <= pools[i].max + Cardinality(Clients) - 1
    /\ MaxPages > 0 => Pooled < MaxPages + Larger * Cardinality(Clients)

\* The shrinker leaves each pool its reserve, and takes less than one page more
\* than it was asked for.
ShrinksAsAsked ==
    /\ shrinker'.freed < shrinker'.asked + Larger
    /\ shrinker'.freed > shrinker.freed =>
           \A i \in Index : count'[i] < count[i] => count'[i] >= pools[i].reserved

\* Pages are not lost between allocations, frees and the shrinker, and the pools
\* keep to their limits and their reserve.
StepKept == NothingLost' /\ WholeOrNothing' /\ WithinBounds' /\ ShrinksAsAsked
=============================================================================
