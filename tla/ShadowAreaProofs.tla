-------------------------- MODULE ShadowAreaProofs --------------------------
(***************************************************************************)
(* ShadowArea for any number of processes, threads, slots and stacks, with *)
(* careful or careless clients and any failures.  First, the shape of      *)
(* its states: types, no NULL dereference, and what the other proofs need  *)
(* to know about which operation is at which control point.  Then who owns *)
(* the pages of the shadow stacks and who refers to the allocator          *)
(* descriptors: the free list never takes a stack in use, its counter is   *)
(* right and bounded although gl_free reads it without gl_lock, the stack  *)
(* that sa_fork copies stays the parent's during the copy, and kref covers *)
(* every reference.                                                        *)
(***************************************************************************)
EXTENDS ShadowArea, FiniteSetTheorems, TLAPS

\* Which operation a control point belongs to.
OpAt ==
    \A t \in Threads :
        /\ pc[t] \in {"get", "stack"} => op[t] \in {"alloc", "fork"}
        /\ pc[t] = "stack" /\ op[t] = "fork" => parent[t] # NULL
        /\ pc[t] \in {"reserve", "map", "store", "erase"} => op[t] = "alloc"
        /\ pc[t] \in {"free_erase", "unmap"} => op[t] = "free"
        /\ pc[t] \in {"fork_parent", "fork_lookup", "fork_copy", "fork_insert",
                      "fork_map", "fork_erase"} => op[t] = "fork"

\* A process reaches its own descriptor only.
OwnDesc ==
    /\ \A d \in Descs : desc[d] = "none" => tgid[d] = NULL
    /\ \A g \in Tgids : sa_allocators[g] # NULL => tgid[sa_allocators[g]] = g
    /\ \A t \in Threads : alloc[t] # NULL => tgid[alloc[t]] = Group[t]

\* A process that runs sa_fork runs nothing else.
ForkAlone ==
    \A t, u \in Threads :
        Forking(t) /\ u # t /\ Group[u] = Group[t] => pc[u] = "idle"

\* Between xa_insert and the end of sa_fork the slot is the caller's.
ForkEntry ==
    \A t \in Threads : pc[t] \in {"fork_map", "fork_erase"} =>
        threads[alloc[t]][id[t]] = [tid |-> t, pagelist |-> pagelist[t]]

\* The inductive invariant: TypeOK alone is not, since a label does not tell
\* which pointers the operation at it has set.
Shape == TypeOK /\ OpAt /\ OwnDesc /\ ForkAlone /\ ForkEntry

\* The table of slots keeps its type when xa_alloc, xa_store or xa_insert change
\* one entry.
LEMMA SlotSort ==
    ASSUME DescSorts, NEW d \in Descs, NEW i \in Ids,
           NEW z \in ThreadDesc \cup {NULL, XA_ZERO},
           threads' = [threads EXCEPT ![d][i] = z]
    PROVE  threads' \in [Descs -> [Ids -> ThreadDesc \cup {NULL, XA_ZERO}]]
BY DEF DescSorts

\* The same for the page tables.
LEMMA PteSort ==
    ASSUME PageSorts, NEW g \in Tgids, NEW i \in Ids,
           NEW s \in SUBSET Pagelists,
           ptes' = [ptes EXCEPT ![g][i] = s]
    PROVE  ptes' \in [Tgids -> [Ids -> SUBSET Pagelists]]
BY DEF PageSorts

\* While a thread is inside the kernel, the slots that a forking process has just
\* filled are in another descriptor than the one the thread works on: sa_fork
\* runs in a process that has no other thread yet.
LEMMA ForkApart ==
    ASSUME Shape, NEW t \in Threads, NEW u \in Threads \ {t},
           pc[t] # "idle", alloc[t] \in Descs,
           pc[u] \in {"fork_map", "fork_erase"}
    PROVE  alloc[u] \in Descs /\ alloc[u] # alloc[t]
<1>1. Forking(u) /\ alloc[u] \in Descs
    BY DEF Shape, TypeOK, OpAt, Forking, LocalSorts, NoNullDeref, UsesAlloc,
           Labels
<1>2. Group[u] # Group[t]
    BY <1>1 DEF Shape, ForkAlone
<1> QED
    BY <1>1, <1>2, Constants DEF Shape, OwnDesc

\* Every step keeps the shape, action by action and conjunct by conjunct.
LEMMA ShapeNext == Shape /\ [Next]_vars => Shape'
<1> SUFFICES ASSUME Shape, [Next]_vars PROVE Shape'
    OBVIOUS
<1> USE Constants DEF Shape, TypeOK, Goto, Fail,
        descVars, pageVars, localVars, userVars
<1>1. ASSUME NEW t \in Threads, AllocCreate(t) PROVE Shape'
    <2>1. DescSorts'
        BY <1>1 DEF AllocCreate, DescSorts, LocalSorts, ThreadDesc, Ready
    <2>2. PageSorts'
        BY <1>1 DEF AllocCreate, PageSorts, LocalSorts, Ready
    <2>3. LocalSorts'
        BY <1>1 DEF AllocCreate, LocalSorts, DescSorts, PageSorts, Ready,
               Labels, Errors
    <2>4. NoNullDeref'
        BY <1>1 DEF AllocCreate, LocalSorts, DescSorts, PageSorts, NoNullDeref,
               OpAt, Forking, UsesParent, UsesPages, UsesAlloc, Labels, Ready,
               Blocked
    <2>5. OpAt'
        BY <1>1 DEF AllocCreate, LocalSorts, OpAt, Ready, Blocked
    <2>6. OwnDesc'
        BY <1>1 DEF AllocCreate, DescSorts, LocalSorts, OwnDesc, NoNullDeref,
               UsesParent, UsesPages, UsesAlloc, Labels, Ready, Blocked
    <2>7. ForkAlone'
        BY <1>1 DEF AllocCreate, LocalSorts, ForkAlone, Forking, Ready, Blocked
    <2>8. ForkEntry'
        BY <1>1 DEF AllocCreate, DescSorts, LocalSorts, OpAt, OwnDesc,
               ForkAlone, ForkEntry, Forking, Ready, Blocked, ThreadDesc
    <2> QED
        BY <2>1, <2>2, <2>3, <2>4, <2>5, <2>6, <2>7, <2>8
<1>2. ASSUME NEW t \in Threads, AllocDestroy(t) PROVE Shape'
    <2>1. DescSorts'
        BY <1>2 DEF AllocDestroy, DescSorts, LocalSorts, ThreadDesc,
               Ready
    <2>2. PageSorts'
        BY <1>2 DEF AllocDestroy, PageSorts, LocalSorts, Ready
    <2>3. LocalSorts'
        BY <1>2 DEF AllocDestroy, LocalSorts, DescSorts, PageSorts,
               Ready, Labels, Errors
    <2>4. NoNullDeref'
        BY <1>2 DEF AllocDestroy, LocalSorts, DescSorts, PageSorts,
               NoNullDeref, OpAt, Forking, UsesParent, UsesPages, UsesAlloc,
               Labels, Ready, Blocked
    <2>5. OpAt'
        BY <1>2 DEF AllocDestroy, LocalSorts, OpAt, Ready, Blocked
    <2>6. OwnDesc'
        BY <1>2 DEF AllocDestroy, DescSorts, LocalSorts, OwnDesc,
               NoNullDeref, UsesParent, UsesPages, UsesAlloc, Labels, Ready,
               Blocked
    <2>7. ForkAlone'
        BY <1>2 DEF AllocDestroy, LocalSorts, ForkAlone, Forking, Ready,
               Blocked
    <2>8. ForkEntry'
        BY <1>2 DEF AllocDestroy, DescSorts, LocalSorts, OpAt, OwnDesc,
               ForkAlone, ForkEntry, Forking, Ready, Blocked, ThreadDesc
    <2> QED
        BY <2>1, <2>2, <2>3, <2>4, <2>5, <2>6, <2>7, <2>8
<1>3. ASSUME NEW t \in Threads, AllocPut(t) PROVE Shape'
    <2>1. alloc[t] \in Descs
        BY <1>3 DEF AllocPut, LocalSorts, NoNullDeref, UsesParent, UsesPages,
               UsesAlloc, Labels
    <2>2. DescSorts'
        <3>1. kref' \in [Descs -> Int]
            BY <1>3, <2>1 DEF AllocPut, DescSorts, LocalSorts, ThreadDesc
        <3>2. desc' \in [Descs -> {"none", "live", "freed"}]
            BY <1>3, <2>1 DEF AllocPut, DescSorts, LocalSorts, ThreadDesc
        <3> QED
            BY <1>3, <3>1, <3>2 DEF AllocPut, DescSorts
    <2>3. PageSorts'
        <3>1. tgid[alloc[t]] \in Tgids
            BY <2>1 DEF OwnDesc
        <3>2. \/ ptes' = ptes
              \/ ptes' = [ptes EXCEPT ![tgid[alloc[t]]] = [i \in Ids |-> {}]]
            BY <1>3 DEF AllocPut, FreePgdRange
        <3>3. ptes' \in [Tgids -> [Ids -> SUBSET Pagelists]]
            BY <3>1, <3>2 DEF PageSorts
        <3> QED
            BY <1>3, <3>3 DEF AllocPut, PageSorts
    <2>4. LocalSorts'
        BY <1>3, <2>1 DEF AllocPut, LocalSorts, DescSorts, PageSorts, Labels,
               Errors
    <2>5. NoNullDeref'
        BY <1>3, <2>1 DEF AllocPut, LocalSorts, DescSorts, PageSorts,
               NoNullDeref, OpAt, Forking, UsesParent, UsesPages, UsesAlloc,
               Labels
    <2>6. OpAt'
        BY <1>3, <2>1 DEF AllocPut, LocalSorts, OpAt
    <2>7. OwnDesc'
        BY <1>3, <2>1 DEF AllocPut, DescSorts, LocalSorts, OwnDesc,
               NoNullDeref, UsesParent, UsesPages, UsesAlloc, Labels
    <2>8. ForkAlone'
        BY <1>3, <2>1 DEF AllocPut, LocalSorts, ForkAlone, Forking
    <2>9. ForkEntry'
        BY <1>3, <2>1 DEF AllocPut, DescSorts, LocalSorts, OpAt, OwnDesc,
               ForkAlone, ForkEntry, Forking, ThreadDesc
    <2> QED
        BY <2>2, <2>3, <2>4, <2>5, <2>6, <2>7, <2>8, <2>9
<1>4. ASSUME NEW t \in Threads, AllocGet(t) PROVE Shape'
    <2>1. alloc[t] \in Descs
        BY <1>4 DEF AllocGet, LocalSorts, NoNullDeref, UsesParent, UsesPages,
               UsesAlloc, Labels
    <2>2. \E l \in {"reserve", "fork_parent", "ret"} :
            pc' = [pc EXCEPT ![t] = l]
        BY <1>4 DEF AllocGet, KrefGet
    <2>3. \E e \in {"ok", "ENOMEM"} : err' = [err EXCEPT ![t] = e]
        BY <1>4 DEF AllocGet, KrefGet
    <2>4. DescSorts'
        BY <1>4, <2>1 DEF AllocGet, KrefGet, DescSorts, LocalSorts, ThreadDesc
    <2>5. PageSorts'
        BY <1>4, <2>1 DEF AllocGet, KrefGet, PageSorts, LocalSorts
    <2>6. LocalSorts'
        <3>1. pc' \in [Threads -> Labels]
            BY <2>2 DEF LocalSorts, Labels
        <3>2. err' \in [Threads -> Errors]
            BY <2>3 DEF LocalSorts, Errors
        <3> QED
            BY <1>4, <3>1, <3>2 DEF AllocGet, LocalSorts
    <2>7. NoNullDeref'
        BY <1>4, <2>1, <2>2 DEF AllocGet, KrefGet, LocalSorts, DescSorts,
               PageSorts, NoNullDeref, OpAt, Forking, UsesParent, UsesPages,
               UsesAlloc, Labels
    <2>8. OpAt'
        BY <1>4, <2>1, <2>2 DEF AllocGet, KrefGet, LocalSorts, OpAt
    <2>9. OwnDesc'
        BY <1>4, <2>1, <2>2 DEF AllocGet, KrefGet, DescSorts, LocalSorts,
               OwnDesc, NoNullDeref, UsesParent, UsesPages, UsesAlloc, Labels
    <2>10. ForkAlone'
        BY <1>4, <2>1, <2>2 DEF AllocGet, KrefGet, LocalSorts, ForkAlone,
               Forking
    <2>11. ForkEntry'
        BY <1>4, <2>1, <2>2 DEF AllocGet, KrefGet, DescSorts, LocalSorts, OpAt,
               OwnDesc, ForkAlone, ForkEntry, Forking, ThreadDesc
    <2> QED
        BY <2>4, <2>5, <2>6, <2>7, <2>8, <2>9, <2>10, <2>11
<1>5. ASSUME NEW t \in Threads, GlAllocStack(t) PROVE Shape'
    <2>1. alloc[t] \in Descs
        BY <1>5 DEF GlAllocStack, LocalSorts, NoNullDeref, UsesParent,
               UsesPages, UsesAlloc, Labels
    <2>2. \E l \in {"map", "fork_lookup", "erase", "put"} :
            pc' = [pc EXCEPT ![t] = l]
        BY <1>5 DEF GlAllocStack, GlSizeTaken
    <2>3. \E e \in {"ok", "ENOMEM"} : err' = [err EXCEPT ![t] = e]
        BY <1>5 DEF GlAllocStack, GlSizeTaken
    <2>4. DescSorts'
        BY <1>5, <2>1 DEF GlAllocStack, GlSizeTaken, DescSorts, LocalSorts,
               ThreadDesc
    <2>5. PageSorts'
        <3>1. gl_sa' \in SUBSET Pagelists
            BY <1>5, <2>1 DEF GlAllocStack, GlSizeTaken, PageSorts, LocalSorts
        <3>2. gl_size' \in Int
            BY <1>5, <2>1 DEF GlAllocStack, GlSizeTaken, PageSorts, LocalSorts
        <3>3. allocated' \in SUBSET Pagelists
            BY <1>5, <2>1 DEF GlAllocStack, GlSizeTaken, PageSorts, LocalSorts
        <3>4. contents' \in [Pagelists -> Threads \cup {Zeroed}]
            BY <1>5, <2>1 DEF GlAllocStack, GlSizeTaken, PageSorts, LocalSorts
        <3> QED
            BY <1>5, <3>1, <3>2, <3>3, <3>4 DEF GlAllocStack, PageSorts
    <2>6. LocalSorts'
        <3>1. pc' \in [Threads -> Labels]
            BY <2>2 DEF LocalSorts, Labels
        <3>2. err' \in [Threads -> Errors]
            BY <2>3 DEF LocalSorts, Errors
        <3>3. pagelist' \in [Threads -> Pagelists \cup {NULL}]
            BY <1>5, <2>1 DEF GlAllocStack, GlSizeTaken, LocalSorts, DescSorts,
                   PageSorts
        <3> QED
            BY <1>5, <3>1, <3>2, <3>3 DEF GlAllocStack, LocalSorts
    <2>7. NoNullDeref'
        BY <1>5, <2>1, <2>2 DEF GlAllocStack, GlSizeTaken, LocalSorts,
               DescSorts, PageSorts, NoNullDeref, OpAt, Forking, UsesParent,
               UsesPages, UsesAlloc, Labels
    <2>8. OpAt'
        BY <1>5, <2>1, <2>2 DEF GlAllocStack, GlSizeTaken, LocalSorts, OpAt
    <2>9. OwnDesc'
        BY <1>5, <2>1, <2>2 DEF GlAllocStack, GlSizeTaken, DescSorts,
               LocalSorts, OwnDesc, NoNullDeref, UsesParent, UsesPages,
               UsesAlloc, Labels
    <2>10. ForkAlone'
        BY <1>5, <2>1, <2>2 DEF GlAllocStack, GlSizeTaken, LocalSorts,
               ForkAlone, Forking
    <2>11. ForkEntry'
        BY <1>5, <2>1, <2>2 DEF GlAllocStack, GlSizeTaken, DescSorts,
               LocalSorts, OpAt, OwnDesc, ForkAlone, ForkEntry, Forking,
               ThreadDesc
    <2> QED
        BY <2>4, <2>5, <2>6, <2>7, <2>8, <2>9, <2>10, <2>11
<1>6. ASSUME NEW t \in Threads, GlFreeCheck(t) PROVE Shape'
    <2>1. alloc[t] \in Descs /\ pagelist[t] \in Pagelists
        BY <1>6 DEF GlFreeCheck, LocalSorts, NoNullDeref, UsesParent,
               UsesPages, UsesAlloc, Labels
    <2>2. \E l \in {"gl_insert", "erase", "put"} :
            pc' = [pc EXCEPT ![t] = l]
        BY <1>6 DEF GlFreeCheck, GlFull, FreePages, ClearPages, AfterGlFree
    <2>3. DescSorts'
        BY <1>6, <2>1 DEF GlFreeCheck, GlFull, FreePages, ClearPages,
               AfterGlFree, DescSorts, LocalSorts, ThreadDesc
    <2>4. PageSorts'
        BY <1>6, <2>1 DEF GlFreeCheck, GlFull, FreePages, ClearPages,
               AfterGlFree, PageSorts, LocalSorts
    <2>5. LocalSorts'
        <3>1. pc' \in [Threads -> Labels]
            BY <2>2 DEF LocalSorts, Labels
        <3>2. pagelist' \in [Threads -> Pagelists \cup {NULL}]
            <4>1. \/ pagelist' = pagelist
                  \/ pagelist' = [pagelist EXCEPT ![t] = NULL]
                BY <1>6 DEF GlFreeCheck
            <4> QED
                BY <4>1 DEF LocalSorts
        <3> QED
            BY <1>6, <3>1, <3>2 DEF GlFreeCheck, LocalSorts
    <2>6. NoNullDeref'
        BY <1>6, <2>1, <2>2 DEF GlFreeCheck, GlFull, FreePages, ClearPages,
               AfterGlFree, LocalSorts, DescSorts, PageSorts, NoNullDeref,
               OpAt, Forking, UsesParent, UsesPages, UsesAlloc, Labels
    <2>7. OpAt'
        BY <1>6, <2>1, <2>2 DEF GlFreeCheck, GlFull, FreePages, ClearPages,
               AfterGlFree, LocalSorts, OpAt
    <2>8. OwnDesc'
        BY <1>6, <2>1, <2>2 DEF GlFreeCheck, GlFull, FreePages, ClearPages,
               AfterGlFree, DescSorts, LocalSorts, OwnDesc, NoNullDeref,
               UsesParent, UsesPages, UsesAlloc, Labels
    <2>9. ForkAlone'
        BY <1>6, <2>1, <2>2 DEF GlFreeCheck, GlFull, FreePages, ClearPages,
               AfterGlFree, LocalSorts, ForkAlone, Forking
    <2>10. ForkEntry'
        BY <1>6, <2>1, <2>2 DEF GlFreeCheck, GlFull, FreePages, ClearPages,
               AfterGlFree, DescSorts, LocalSorts, OpAt, OwnDesc, ForkAlone,
               ForkEntry, Forking, ThreadDesc
    <2> QED
        BY <2>3, <2>4, <2>5, <2>6, <2>7, <2>8, <2>9, <2>10
<1>7. ASSUME NEW t \in Threads, GlFreeInsert(t) PROVE Shape'
    <2>1. alloc[t] \in Descs /\ pagelist[t] \in Pagelists
        BY <1>7 DEF GlFreeInsert, LocalSorts, NoNullDeref, UsesParent,
               UsesPages, UsesAlloc, Labels
    <2>2. DescSorts'
        BY <1>7, <2>1 DEF GlFreeInsert, AfterGlFree, DescSorts, LocalSorts,
               ThreadDesc
    <2>3. PageSorts'
        BY <1>7, <2>1 DEF GlFreeInsert, AfterGlFree, PageSorts, LocalSorts
    <2>4. LocalSorts'
        BY <1>7, <2>1 DEF GlFreeInsert, AfterGlFree, LocalSorts, DescSorts,
               PageSorts, Labels, Errors
    <2>5. NoNullDeref'
        BY <1>7, <2>1 DEF GlFreeInsert, AfterGlFree, LocalSorts, DescSorts,
               PageSorts, NoNullDeref, OpAt, Forking, UsesParent, UsesPages,
               UsesAlloc, Labels
    <2>6. OpAt'
        BY <1>7, <2>1 DEF GlFreeInsert, AfterGlFree, LocalSorts, OpAt
    <2>7. OwnDesc'
        BY <1>7, <2>1 DEF GlFreeInsert, AfterGlFree, DescSorts, LocalSorts,
               OwnDesc, NoNullDeref, UsesParent, UsesPages, UsesAlloc, Labels
    <2>8. ForkAlone'
        BY <1>7, <2>1 DEF GlFreeInsert, AfterGlFree, LocalSorts, ForkAlone,
               Forking
    <2>9. ForkEntry'
        BY <1>7, <2>1 DEF GlFreeInsert, AfterGlFree, DescSorts, LocalSorts,
               OpAt, OwnDesc, ForkAlone, ForkEntry, Forking, ThreadDesc
    <2> QED
        BY <2>2, <2>3, <2>4, <2>5, <2>6, <2>7, <2>8, <2>9
<1>8. ASSUME NEW t \in Threads, Map(t) PROVE Shape'
    <2>1. alloc[t] \in Descs /\ pagelist[t] \in Pagelists
        BY <1>8 DEF Map, LocalSorts, NoNullDeref, UsesParent, UsesPages,
               UsesAlloc, Labels
    <2>2. \E l \in {"store", "ret", "gl_free", "fork_erase"} :
            pc' = [pc EXCEPT ![t] = l]
        BY <1>8 DEF Map, MapRange, MapRangeFailed, UnmapRange, AtomicMax
    <2>3. \E e \in {"ok", "ENOMEM"} : err' = [err EXCEPT ![t] = e]
        BY <1>8 DEF Map, MapRange, MapRangeFailed, UnmapRange, AtomicMax
    <2>4. DescSorts'
        <3>1. max_id' \in [Descs -> Ids]
            BY <1>8, <2>1 DEF Map, MapRange, MapRangeFailed, UnmapRange,
                   AtomicMax, DescSorts, LocalSorts, ThreadDesc
        <3> QED
            BY <1>8, <3>1 DEF Map, DescSorts
    <2>5. PageSorts'
        <3>1. ptes' \in [Tgids -> [Ids -> SUBSET Pagelists]]
            <4>1. Group[t] \in Tgids /\ id[t] \in Ids
                BY DEF LocalSorts
            <4>2. \/ ptes' = ptes
                  \/ ptes' = [ptes EXCEPT ![Group[t]][id[t]] = {pagelist[t]}]
                  \/ ptes' = [ptes EXCEPT ![Group[t]][id[t]] =
                                    ptes[Group[t]][id[t]] \cup {pagelist[t]}]
                BY <1>8 DEF Map, MapRange, MapRangeFailed, UnmapRange
            <4>3. /\ {pagelist[t]} \in SUBSET Pagelists
                  /\ ptes[Group[t]][id[t]] \cup {pagelist[t]}
                        \in SUBSET Pagelists
                BY <2>1, <4>1 DEF PageSorts
            <4> QED
                BY <4>1, <4>2, <4>3, PteSort DEF PageSorts
        <3> QED
            BY <1>8, <3>1 DEF Map, PageSorts
    <2>6. LocalSorts'
        <3>1. pc' \in [Threads -> Labels]
            BY <2>2 DEF LocalSorts, Labels
        <3>2. err' \in [Threads -> Errors]
            BY <2>3 DEF LocalSorts, Errors
        <3>3. pagelist' \in [Threads -> Pagelists \cup {NULL}]
            BY <1>8, <2>1 DEF Map, MapRange, MapRangeFailed, UnmapRange,
                   AtomicMax, LocalSorts, DescSorts, PageSorts
        <3> QED
            BY <1>8, <3>1, <3>2, <3>3 DEF Map, LocalSorts
    <2>7. NoNullDeref'
        BY <1>8, <2>1, <2>2 DEF Map, MapRange, MapRangeFailed, UnmapRange,
               AtomicMax, LocalSorts, DescSorts, PageSorts, NoNullDeref, OpAt,
               Forking, UsesParent, UsesPages, UsesAlloc, Labels
    <2>8. OpAt'
        BY <1>8, <2>1, <2>2 DEF Map, MapRange, MapRangeFailed, UnmapRange,
               AtomicMax, LocalSorts, OpAt
    <2>9. OwnDesc'
        BY <1>8, <2>1, <2>2 DEF Map, MapRange, MapRangeFailed, UnmapRange,
               AtomicMax, DescSorts, LocalSorts, OwnDesc, NoNullDeref,
               UsesParent, UsesPages, UsesAlloc, Labels
    <2>10. ForkAlone'
        BY <1>8, <2>1, <2>2 DEF Map, MapRange, MapRangeFailed, UnmapRange,
               AtomicMax, LocalSorts, ForkAlone, Forking
    <2>11. ForkEntry'
        BY <1>8, <2>1, <2>2 DEF Map, MapRange, MapRangeFailed, UnmapRange,
               AtomicMax, DescSorts, LocalSorts, OpAt, OwnDesc, ForkAlone,
               ForkEntry, Forking, ThreadDesc
    <2> QED
        BY <2>4, <2>5, <2>6, <2>7, <2>8, <2>9, <2>10, <2>11
<1>9. ASSUME NEW t \in Threads, SaAlloc(t) PROVE Shape'
    <2>1. \E l \in {"get", "ret"} :
            pc' = [pc EXCEPT ![t] = l]
        BY <1>9 DEF SaAlloc, FindAlloc
    <2>2. \E e \in {"ok", "ENOMEM"} : err' = [err EXCEPT ![t] = e]
        BY <1>9 DEF SaAlloc, FindAlloc
    <2>3. DescSorts'
        BY <1>9 DEF SaAlloc, FindAlloc, DescSorts, LocalSorts, ThreadDesc,
               Ready
    <2>4. PageSorts'
        BY <1>9 DEF SaAlloc, FindAlloc, PageSorts, LocalSorts, Ready
    <2>5. LocalSorts'
        <3>1. op' \in [Threads -> {"none", "alloc", "free", "fork", "destroy"}]
            BY <1>9 DEF SaAlloc, FindAlloc, LocalSorts, DescSorts, PageSorts,
                   Ready
        <3>2. alloc' \in [Threads -> Descs \cup {NULL}]
            BY <1>9 DEF SaAlloc, FindAlloc, LocalSorts, DescSorts, PageSorts,
                   Ready
        <3>3. pc' \in [Threads -> Labels]
            BY <2>1 DEF LocalSorts, Labels
        <3>4. err' \in [Threads -> Errors]
            BY <2>2 DEF LocalSorts, Errors
        <3> QED
            BY <1>9, <3>1, <3>2, <3>3, <3>4 DEF SaAlloc, LocalSorts
    <2>6. NoNullDeref'
        BY <1>9, <2>1 DEF SaAlloc, FindAlloc, LocalSorts, DescSorts, PageSorts,
               NoNullDeref, OpAt, Forking, UsesParent, UsesPages, UsesAlloc,
               Labels, Ready, Blocked
    <2>7. OpAt'
        BY <1>9, <2>1 DEF SaAlloc, FindAlloc, LocalSorts, OpAt, Ready, Blocked
    <2>8. OwnDesc'
        BY <1>9, <2>1 DEF SaAlloc, FindAlloc, DescSorts, LocalSorts, OwnDesc,
               NoNullDeref, UsesParent, UsesPages, UsesAlloc, Labels, Ready,
               Blocked
    <2>9. ForkAlone'
        BY <1>9, <2>1 DEF SaAlloc, FindAlloc, LocalSorts, ForkAlone, Forking,
               Ready, Blocked
    <2>10. ForkEntry'
        BY <1>9, <2>1 DEF SaAlloc, FindAlloc, DescSorts, LocalSorts, OpAt,
               OwnDesc, ForkAlone, ForkEntry, Forking, Ready, Blocked,
               ThreadDesc
    <2> QED
        BY <2>3, <2>4, <2>5, <2>6, <2>7, <2>8, <2>9, <2>10
<1>10. ASSUME NEW t \in Threads, XaAlloc(t) PROVE Shape'
    <2>1. alloc[t] \in Descs
        BY <1>10 DEF XaAlloc, LocalSorts, NoNullDeref, UsesParent, UsesPages,
               UsesAlloc, Labels
    <2>2. \E l \in {"stack", "put"} :
            pc' = [pc EXCEPT ![t] = l]
        BY <1>10 DEF XaAlloc
    <2>3. \E e \in {"ok", "ENOMEM"} : err' = [err EXCEPT ![t] = e]
        BY <1>10 DEF XaAlloc
    <2>4. \A u \in Threads \ {t} : pc[u] \in {"fork_map", "fork_erase"} =>
            alloc[u] \in Descs /\ alloc[u] # alloc[t]
        BY <1>10, <2>1, ForkApart DEF XaAlloc
    <2>5. DescSorts'
        <3>1. threads' \in [Descs -> [Ids -> ThreadDesc \cup {NULL, XA_ZERO}]]
            <4>1. \/ threads' = threads
                  \/ \E i \in Ids :
                       threads' = [threads EXCEPT ![alloc[t]][i] = XA_ZERO]
                BY <1>10 DEF XaAlloc
            <4> QED
                BY <2>1, <4>1, SlotSort DEF DescSorts
        <3> QED
            BY <1>10, <3>1 DEF XaAlloc, DescSorts
    <2>6. PageSorts'
        BY <1>10, <2>1 DEF XaAlloc, PageSorts, LocalSorts
    <2>7. LocalSorts'
        <3>1. pc' \in [Threads -> Labels]
            BY <2>2 DEF LocalSorts, Labels
        <3>2. err' \in [Threads -> Errors]
            BY <2>3 DEF LocalSorts, Errors
        <3>3. id' \in [Threads -> Ids]
            BY <1>10, <2>1 DEF XaAlloc, LocalSorts, DescSorts, PageSorts
        <3> QED
            BY <1>10, <3>1, <3>2, <3>3 DEF XaAlloc, LocalSorts
    <2>8. NoNullDeref'
        BY <1>10, <2>1, <2>2 DEF XaAlloc, LocalSorts, DescSorts, PageSorts,
               NoNullDeref, OpAt, Forking, UsesParent, UsesPages, UsesAlloc,
               Labels
    <2>9. OpAt'
        BY <1>10, <2>1, <2>2 DEF XaAlloc, LocalSorts, OpAt
    <2>10. OwnDesc'
        BY <1>10, <2>1, <2>2 DEF XaAlloc, DescSorts, LocalSorts, OwnDesc,
               NoNullDeref, UsesParent, UsesPages, UsesAlloc, Labels
    <2>11. ForkAlone'
        BY <1>10, <2>1, <2>2 DEF XaAlloc, LocalSorts, ForkAlone, Forking
    <2>12. ForkEntry'
        BY <1>10, <2>1, <2>2, <2>4 DEF XaAlloc, DescSorts, LocalSorts,
               ForkEntry, NoNullDeref, UsesParent, UsesPages, UsesAlloc, Labels
    <2> QED
        BY <2>5, <2>6, <2>7, <2>8, <2>9, <2>10, <2>11, <2>12
<1>11. ASSUME NEW t \in Threads, SaAllocStore(t) PROVE Shape'
    <2>1. alloc[t] \in Descs /\ pagelist[t] \in Pagelists
        BY <1>11 DEF SaAllocStore, LocalSorts, NoNullDeref, UsesParent,
               UsesPages, UsesAlloc, Labels
    <2>2. \A u \in Threads \ {t} : pc[u] \in {"fork_map", "fork_erase"} =>
            alloc[u] \in Descs /\ alloc[u] # alloc[t]
        BY <1>11, <2>1, ForkApart DEF SaAllocStore
    <2>3. DescSorts'
        BY <1>11, <2>1 DEF SaAllocStore, AtomicMax, DescSorts, LocalSorts,
               ThreadDesc
    <2>4. PageSorts'
        BY <1>11, <2>1 DEF SaAllocStore, AtomicMax, PageSorts, LocalSorts
    <2>5. LocalSorts'
        BY <1>11, <2>1 DEF SaAllocStore, AtomicMax, LocalSorts, DescSorts,
               PageSorts, Labels, Errors
    <2>6. NoNullDeref'
        BY <1>11, <2>1 DEF SaAllocStore, AtomicMax, LocalSorts, DescSorts,
               PageSorts, NoNullDeref, OpAt, Forking, UsesParent, UsesPages,
               UsesAlloc, Labels
    <2>7. OpAt'
        BY <1>11, <2>1 DEF SaAllocStore, AtomicMax, LocalSorts, OpAt
    <2>8. OwnDesc'
        BY <1>11, <2>1 DEF SaAllocStore, AtomicMax, DescSorts, LocalSorts,
               OwnDesc, NoNullDeref, UsesParent, UsesPages, UsesAlloc, Labels
    <2>9. ForkAlone'
        BY <1>11, <2>1 DEF SaAllocStore, AtomicMax, LocalSorts, ForkAlone,
               Forking
    <2>10. ForkEntry'
        BY <1>11, <2>1, <2>2 DEF SaAllocStore, AtomicMax, DescSorts,
               LocalSorts, ForkEntry, NoNullDeref, UsesParent, UsesPages,
               UsesAlloc, Labels
    <2> QED
        BY <2>3, <2>4, <2>5, <2>6, <2>7, <2>8, <2>9, <2>10
<1>12. ASSUME NEW t \in Threads, EraseSlot(t) PROVE Shape'
    <2>1. alloc[t] \in Descs
        BY <1>12 DEF EraseSlot, LocalSorts, NoNullDeref, UsesParent, UsesPages,
               UsesAlloc, Labels
    <2>2. \A u \in Threads \ {t} : pc[u] \in {"fork_map", "fork_erase"} =>
            alloc[u] \in Descs /\ alloc[u] # alloc[t]
        BY <1>12, <2>1, ForkApart DEF EraseSlot
    <2>3. DescSorts'
        BY <1>12, <2>1 DEF EraseSlot, XaErase, DescSorts, LocalSorts,
               ThreadDesc
    <2>4. PageSorts'
        BY <1>12, <2>1 DEF EraseSlot, XaErase, PageSorts, LocalSorts
    <2>5. LocalSorts'
        BY <1>12, <2>1 DEF EraseSlot, XaErase, LocalSorts, DescSorts,
               PageSorts, Labels, Errors
    <2>6. NoNullDeref'
        BY <1>12, <2>1 DEF EraseSlot, XaErase, LocalSorts, DescSorts,
               PageSorts, NoNullDeref, OpAt, Forking, UsesParent, UsesPages,
               UsesAlloc, Labels
    <2>7. OpAt'
        BY <1>12, <2>1 DEF EraseSlot, XaErase, LocalSorts, OpAt
    <2>8. OwnDesc'
        BY <1>12, <2>1 DEF EraseSlot, XaErase, DescSorts, LocalSorts, OwnDesc,
               NoNullDeref, UsesParent, UsesPages, UsesAlloc, Labels
    <2>9. ForkAlone'
        BY <1>12, <2>1 DEF EraseSlot, XaErase, LocalSorts, ForkAlone, Forking
    <2>10. ForkEntry'
        BY <1>12, <2>1, <2>2 DEF EraseSlot, XaErase, DescSorts, LocalSorts,
               ForkEntry, NoNullDeref, UsesParent, UsesPages, UsesAlloc, Labels
    <2> QED
        BY <2>3, <2>4, <2>5, <2>6, <2>7, <2>8, <2>9, <2>10
<1>13. ASSUME NEW t \in Threads, NEW i \in Ids, SaFree(t, i) PROVE Shape'
    <2>1. \E l \in {"free_erase", "ret"} :
            pc' = [pc EXCEPT ![t] = l]
        BY <1>13 DEF SaFree, FindAlloc
    <2>2. \E e \in {"ok", "EINVAL"} : err' = [err EXCEPT ![t] = e]
        BY <1>13 DEF SaFree, FindAlloc
    <2>3. DescSorts'
        BY <1>13 DEF SaFree, FindAlloc, DescSorts, LocalSorts, ThreadDesc,
               Ready
    <2>4. PageSorts'
        BY <1>13 DEF SaFree, FindAlloc, PageSorts, LocalSorts, Ready
    <2>5. LocalSorts'
        <3>1. op' \in [Threads -> {"none", "alloc", "free", "fork", "destroy"}]
            BY <1>13 DEF SaFree, FindAlloc, LocalSorts, DescSorts, PageSorts,
                   Ready
        <3>2. alloc' \in [Threads -> Descs \cup {NULL}]
            BY <1>13 DEF SaFree, FindAlloc, LocalSorts, DescSorts, PageSorts,
                   Ready
        <3>3. pc' \in [Threads -> Labels]
            BY <2>1 DEF LocalSorts, Labels
        <3>4. err' \in [Threads -> Errors]
            BY <2>2 DEF LocalSorts, Errors
        <3>5. id' \in [Threads -> Ids]
            BY <1>13 DEF SaFree, FindAlloc, LocalSorts, DescSorts, PageSorts,
                   Ready
        <3>6. held' \in [Threads -> Ids \cup {NULL}]
            BY <1>13 DEF SaFree, FindAlloc, LocalSorts, DescSorts, PageSorts,
                   Ready
        <3> QED
            BY <1>13, <3>1, <3>2, <3>3, <3>4, <3>5, <3>6 DEF SaFree, LocalSorts
    <2>6. NoNullDeref'
        BY <1>13, <2>1 DEF SaFree, FindAlloc, LocalSorts, DescSorts, PageSorts,
               NoNullDeref, OpAt, Forking, UsesParent, UsesPages, UsesAlloc,
               Labels, Ready, Blocked
    <2>7. OpAt'
        BY <1>13, <2>1 DEF SaFree, FindAlloc, LocalSorts, OpAt, Ready, Blocked
    <2>8. OwnDesc'
        BY <1>13, <2>1 DEF SaFree, FindAlloc, DescSorts, LocalSorts, OwnDesc,
               NoNullDeref, UsesParent, UsesPages, UsesAlloc, Labels, Ready,
               Blocked
    <2>9. ForkAlone'
        BY <1>13, <2>1 DEF SaFree, FindAlloc, LocalSorts, ForkAlone, Forking,
               Ready, Blocked
    <2>10. ForkEntry'
        BY <1>13, <2>1 DEF SaFree, FindAlloc, DescSorts, LocalSorts, OpAt,
               OwnDesc, ForkAlone, ForkEntry, Forking, Ready, Blocked,
               ThreadDesc
    <2> QED
        BY <2>3, <2>4, <2>5, <2>6, <2>7, <2>8, <2>9, <2>10
<1>14. ASSUME NEW t \in Threads, SaFreeErase(t) PROVE Shape'
    <2>1. alloc[t] \in Descs
        BY <1>14 DEF SaFreeErase, LocalSorts, NoNullDeref, UsesParent,
               UsesPages, UsesAlloc, Labels
    <2>2. \E l \in {"unmap", "ret"} :
            pc' = [pc EXCEPT ![t] = l]
        BY <1>14 DEF SaFreeErase, XaErase, CanWriteLock
    <2>3. \E e \in {"ok", "EINVAL"} : err' = [err EXCEPT ![t] = e]
        BY <1>14 DEF SaFreeErase, XaErase, CanWriteLock
    <2>4. \A u \in Threads \ {t} : pc[u] \in {"fork_map", "fork_erase"} =>
            alloc[u] \in Descs /\ alloc[u] # alloc[t]
        BY <1>14, <2>1, ForkApart DEF SaFreeErase
    <2>5. DescSorts'
        BY <1>14, <2>1 DEF SaFreeErase, XaErase, CanWriteLock, DescSorts,
               LocalSorts, ThreadDesc, ThreadDesc
    <2>6. PageSorts'
        BY <1>14, <2>1 DEF SaFreeErase, XaErase, CanWriteLock, PageSorts,
               LocalSorts, ThreadDesc
    <2>7. LocalSorts'
        <3>1. pc' \in [Threads -> Labels]
            BY <2>2 DEF LocalSorts, Labels
        <3>2. err' \in [Threads -> Errors]
            BY <2>3 DEF LocalSorts, Errors
        <3>3. pagelist' \in [Threads -> Pagelists \cup {NULL}]
            BY <1>14, <2>1 DEF SaFreeErase, XaErase, CanWriteLock, LocalSorts,
                   DescSorts, PageSorts, ThreadDesc
        <3> QED
            BY <1>14, <3>1, <3>2, <3>3 DEF SaFreeErase, LocalSorts
    <2>8. NoNullDeref'
        BY <1>14, <2>1, <2>2 DEF SaFreeErase, XaErase, CanWriteLock,
               LocalSorts, DescSorts, PageSorts, NoNullDeref, OpAt, Forking,
               UsesParent, UsesPages, UsesAlloc, Labels, ThreadDesc
    <2>9. OpAt'
        BY <1>14, <2>1, <2>2 DEF SaFreeErase, XaErase, CanWriteLock,
               LocalSorts, OpAt, ThreadDesc
    <2>10. OwnDesc'
        BY <1>14, <2>1, <2>2 DEF SaFreeErase, XaErase, CanWriteLock, DescSorts,
               LocalSorts, OwnDesc, NoNullDeref, UsesParent, UsesPages,
               UsesAlloc, Labels, ThreadDesc
    <2>11. ForkAlone'
        BY <1>14, <2>1, <2>2 DEF SaFreeErase, XaErase, CanWriteLock,
               LocalSorts, ForkAlone, Forking, ThreadDesc
    <2>12. ForkEntry'
        BY <1>14, <2>1, <2>2, <2>4 DEF SaFreeErase, XaErase, CanWriteLock,
               DescSorts, LocalSorts, ForkEntry, NoNullDeref, UsesParent,
               UsesPages, UsesAlloc, Labels
    <2> QED
        BY <2>5, <2>6, <2>7, <2>8, <2>9, <2>10, <2>11, <2>12
<1>15. ASSUME NEW t \in Threads, SaFreeUnmap(t) PROVE Shape'
    <2>1. alloc[t] \in Descs /\ pagelist[t] \in Pagelists
        BY <1>15 DEF SaFreeUnmap, LocalSorts, NoNullDeref, UsesParent,
               UsesPages, UsesAlloc, Labels
    <2>2. DescSorts'
        BY <1>15, <2>1 DEF SaFreeUnmap, UnmapRange, DescSorts, LocalSorts,
               ThreadDesc
    <2>3. PageSorts'
        BY <1>15, <2>1 DEF SaFreeUnmap, UnmapRange, PageSorts, LocalSorts
    <2>4. LocalSorts'
        BY <1>15, <2>1 DEF SaFreeUnmap, UnmapRange, LocalSorts, DescSorts,
               PageSorts, Labels, Errors
    <2>5. NoNullDeref'
        BY <1>15, <2>1 DEF SaFreeUnmap, UnmapRange, LocalSorts, DescSorts,
               PageSorts, NoNullDeref, OpAt, Forking, UsesParent, UsesPages,
               UsesAlloc, Labels
    <2>6. OpAt'
        BY <1>15, <2>1 DEF SaFreeUnmap, UnmapRange, LocalSorts, OpAt
    <2>7. OwnDesc'
        BY <1>15, <2>1 DEF SaFreeUnmap, UnmapRange, DescSorts, LocalSorts,
               OwnDesc, NoNullDeref, UsesParent, UsesPages, UsesAlloc, Labels
    <2>8. ForkAlone'
        BY <1>15, <2>1 DEF SaFreeUnmap, UnmapRange, LocalSorts, ForkAlone,
               Forking
    <2>9. ForkEntry'
        BY <1>15, <2>1 DEF SaFreeUnmap, UnmapRange, DescSorts, LocalSorts,
               OpAt, OwnDesc, ForkAlone, ForkEntry, Forking, ThreadDesc
    <2> QED
        BY <2>2, <2>3, <2>4, <2>5, <2>6, <2>7, <2>8, <2>9
<1>16. ASSUME NEW t \in Threads, NEW p \in Threads, SaFork(t, p) PROVE Shape'
    <2>1. \E l \in {"get", "ret"} :
            pc' = [pc EXCEPT ![t] = l]
        BY <1>16 DEF SaFork, FindAlloc
    <2>2. \E e \in {"ok", "ENOMEM"} : err' = [err EXCEPT ![t] = e]
        BY <1>16 DEF SaFork, FindAlloc
    <2>3. DescSorts'
        BY <1>16 DEF SaFork, FindAlloc, DescSorts, LocalSorts, ThreadDesc,
               Ready
    <2>4. PageSorts'
        BY <1>16 DEF SaFork, FindAlloc, PageSorts, LocalSorts, Ready
    <2>5. LocalSorts'
        <3>1. op' \in [Threads -> {"none", "alloc", "free", "fork", "destroy"}]
            BY <1>16 DEF SaFork, FindAlloc, LocalSorts, DescSorts, PageSorts,
                   Ready
        <3>2. alloc' \in [Threads -> Descs \cup {NULL}]
            BY <1>16 DEF SaFork, FindAlloc, LocalSorts, DescSorts, PageSorts,
                   Ready
        <3>3. pc' \in [Threads -> Labels]
            BY <2>1 DEF LocalSorts, Labels
        <3>4. err' \in [Threads -> Errors]
            BY <2>2 DEF LocalSorts, Errors
        <3>5. ppid' \in [Threads -> Threads \cup {NULL}]
            BY <1>16 DEF SaFork, FindAlloc, LocalSorts, DescSorts, PageSorts,
                   Ready
        <3> QED
            BY <1>16, <3>1, <3>2, <3>3, <3>4, <3>5 DEF SaFork, LocalSorts
    <2>6. NoNullDeref'
        BY <1>16, <2>1 DEF SaFork, FindAlloc, LocalSorts, DescSorts, PageSorts,
               NoNullDeref, OpAt, Forking, UsesParent, UsesPages, UsesAlloc,
               Labels, Ready, Blocked
    <2>7. OpAt'
        BY <1>16, <2>1 DEF SaFork, FindAlloc, LocalSorts, OpAt, Ready, Blocked
    <2>8. OwnDesc'
        BY <1>16, <2>1 DEF SaFork, FindAlloc, DescSorts, LocalSorts, OwnDesc,
               NoNullDeref, UsesParent, UsesPages, UsesAlloc, Labels, Ready,
               Blocked
    <2>9. ForkAlone'
        BY <1>16, <2>1 DEF SaFork, FindAlloc, LocalSorts, ForkAlone, Forking,
               Ready, Blocked
    <2>10. ForkEntry'
        BY <1>16, <2>1 DEF SaFork, FindAlloc, DescSorts, LocalSorts, OpAt,
               OwnDesc, ForkAlone, ForkEntry, Forking, Ready, Blocked,
               ThreadDesc
    <2> QED
        BY <2>3, <2>4, <2>5, <2>6, <2>7, <2>8, <2>9, <2>10
<1>17. ASSUME NEW t \in Threads, SaForkParent(t) PROVE Shape'
    <2>1. alloc[t] \in Descs /\ ppid[t] \in Threads
        BY <1>17 DEF SaForkParent, LocalSorts, NoNullDeref, OpAt, Forking,
               UsesParent, UsesPages, UsesAlloc, Labels
    <2>2. \E l \in {"put", "stack"} :
            pc' = [pc EXCEPT ![t] = l]
        BY <1>17 DEF SaForkParent
    <2>3. \E e \in {"ok", "ENOENT"} : err' = [err EXCEPT ![t] = e]
        BY <1>17 DEF SaForkParent
    <2>4. DescSorts'
        BY <1>17, <2>1 DEF SaForkParent, DescSorts, LocalSorts, ThreadDesc
    <2>5. PageSorts'
        BY <1>17, <2>1 DEF SaForkParent, PageSorts, LocalSorts
    <2>6. LocalSorts'
        <3>1. parent' \in [Threads -> Descs \cup {NULL}]
            BY <1>17, <2>1 DEF SaForkParent, LocalSorts, DescSorts, PageSorts
        <3>2. pc' \in [Threads -> Labels]
            BY <2>2 DEF LocalSorts, Labels
        <3>3. err' \in [Threads -> Errors]
            BY <2>3 DEF LocalSorts, Errors
        <3> QED
            BY <1>17, <3>1, <3>2, <3>3 DEF SaForkParent, LocalSorts
    <2>7. NoNullDeref'
        BY <1>17, <2>1, <2>2 DEF SaForkParent, LocalSorts, DescSorts,
               PageSorts, NoNullDeref, OpAt, Forking, UsesParent, UsesPages,
               UsesAlloc, Labels
    <2>8. OpAt'
        BY <1>17, <2>1, <2>2 DEF SaForkParent, LocalSorts, OpAt
    <2>9. OwnDesc'
        BY <1>17, <2>1, <2>2 DEF SaForkParent, DescSorts, LocalSorts, OwnDesc,
               NoNullDeref, UsesParent, UsesPages, UsesAlloc, Labels
    <2>10. ForkAlone'
        BY <1>17, <2>1, <2>2 DEF SaForkParent, LocalSorts, ForkAlone, Forking
    <2>11. ForkEntry'
        BY <1>17, <2>1, <2>2 DEF SaForkParent, DescSorts, LocalSorts, OpAt,
               OwnDesc, ForkAlone, ForkEntry, Forking, ThreadDesc
    <2> QED
        BY <2>4, <2>5, <2>6, <2>7, <2>8, <2>9, <2>10, <2>11
<1>18. ASSUME NEW t \in Threads, SaForkLookup(t) PROVE Shape'
    <2>1. alloc[t] \in Descs /\ parent[t] \in Descs /\ pagelist[t] \in Pagelists
        BY <1>18 DEF SaForkLookup, LocalSorts, NoNullDeref, UsesParent,
               UsesPages, UsesAlloc, Labels
    <2>2. \/ /\ \E l \in {"fork_copy", "gl_free"} : pc' = [pc EXCEPT ![t] = l]
             /\ op' = op /\ ppid' = ppid
          \/ /\ pc' = [pc EXCEPT ![t] = "oops"]
             /\ op' = [op EXCEPT ![t] = "none"]
             /\ ppid' = [ppid EXCEPT ![t] = NULL]
        BY <1>18 DEF SaForkLookup
    <2>3. err' = err \/ \E e \in {"ok", "ENOENT"} : err' = [err EXCEPT ![t] = e]
        BY <1>18 DEF SaForkLookup
    <2>4. DescSorts'
        <3>1. readers' \in [Descs -> SUBSET Threads]
            <4>1. \/ readers' = readers
                  \/ readers' = [readers EXCEPT ![parent[t]] = @ \cup {t}]
                BY <1>18 DEF SaForkLookup
            <4> QED
                BY <2>1, <4>1 DEF DescSorts
        <3> QED
            BY <1>18, <3>1 DEF SaForkLookup, DescSorts
    <2>5. PageSorts'
        BY <1>18, <2>1 DEF SaForkLookup, PageSorts, LocalSorts, ThreadDesc
    <2>6. LocalSorts'
        <3>1. pc' \in [Threads -> Labels]
            BY <2>2 DEF LocalSorts, Labels
        <3>2. err' \in [Threads -> Errors]
            BY <2>3 DEF LocalSorts, Errors
        <3>3. id' \in [Threads -> Ids]
            <4>1. id' = id \/ \E i \in Ids : id' = [id EXCEPT ![t] = i]
                BY <1>18 DEF SaForkLookup
            <4> QED
                BY <4>1 DEF LocalSorts
        <3>4. src' \in [Threads -> Pagelists \cup {NULL}]
            <4>1. src' = src \/ \E l \in Pagelists : src' = [src EXCEPT ![t] = l]
                BY <1>18, <2>1 DEF SaForkLookup, ThreadDesc
            <4> QED
                BY <4>1 DEF LocalSorts
        <3>5. /\ op' \in [Threads -> {"none", "alloc", "free", "fork", "destroy"}]
              /\ ppid' \in [Threads -> Threads \cup {NULL}]
            BY <2>2 DEF LocalSorts
        <3> QED
            BY <1>18, <3>1, <3>2, <3>3, <3>4, <3>5 DEF SaForkLookup, LocalSorts
    <2>7. NoNullDeref'
        <3>1. \/ /\ pc' = [pc EXCEPT ![t] = "fork_copy"]
                 /\ \E l \in Pagelists : src' = [src EXCEPT ![t] = l]
              \/ /\ \E l \in {"gl_free", "oops"} : pc' = [pc EXCEPT ![t] = l]
                 /\ src' = src
            BY <1>18, <2>1 DEF SaForkLookup, ThreadDesc
        <3>2. \A u \in Threads : Forking(u)' => Forking(u) /\ ppid'[u] = ppid[u]
            BY <1>18, <2>2 DEF SaForkLookup, LocalSorts, Forking
        <3> QED
            BY <1>18, <2>1, <3>1, <3>2 DEF SaForkLookup, LocalSorts, NoNullDeref,
                   UsesParent, UsesPages, UsesAlloc, Labels
    <2>8. OpAt'
        BY <1>18, <2>1, <2>2 DEF SaForkLookup, LocalSorts, OpAt
    <2>9. OwnDesc'
        BY <1>18, <2>1, <2>2 DEF SaForkLookup, DescSorts, LocalSorts, OwnDesc,
               NoNullDeref, UsesParent, UsesPages, UsesAlloc, Labels
    <2>10. ForkAlone'
        BY <1>18, <2>1, <2>2 DEF SaForkLookup, LocalSorts, ForkAlone, Forking
    <2>11. ForkEntry'
        BY <1>18, <2>1, <2>2 DEF SaForkLookup, DescSorts, LocalSorts, OpAt,
               OwnDesc, ForkAlone, ForkEntry, Forking, ThreadDesc
    <2> QED
        BY <2>4, <2>5, <2>6, <2>7, <2>8, <2>9, <2>10, <2>11
<1>19. ASSUME NEW t \in Threads, SaForkCopy(t) PROVE Shape'
    <2>1. /\ alloc[t] \in Descs /\ parent[t] \in Descs
          /\ pagelist[t] \in Pagelists /\ src[t] \in Pagelists
        BY <1>19 DEF SaForkCopy, LocalSorts, NoNullDeref, UsesParent,
               UsesPages, UsesAlloc, Labels
    <2>2. DescSorts'
        BY <1>19, <2>1 DEF SaForkCopy, UpRead, CopyPages, DescSorts,
               LocalSorts, ThreadDesc
    <2>3. PageSorts'
        BY <1>19, <2>1 DEF SaForkCopy, UpRead, CopyPages, PageSorts, LocalSorts
    <2>4. LocalSorts'
        BY <1>19, <2>1 DEF SaForkCopy, UpRead, CopyPages, LocalSorts,
               DescSorts, PageSorts, Labels, Errors
    <2>5. NoNullDeref'
        BY <1>19, <2>1 DEF SaForkCopy, UpRead, CopyPages, LocalSorts,
               DescSorts, PageSorts, NoNullDeref, OpAt, Forking, UsesParent,
               UsesPages, UsesAlloc, Labels
    <2>6. OpAt'
        BY <1>19, <2>1 DEF SaForkCopy, UpRead, CopyPages, LocalSorts, OpAt
    <2>7. OwnDesc'
        BY <1>19, <2>1 DEF SaForkCopy, UpRead, CopyPages, DescSorts,
               LocalSorts, OwnDesc, NoNullDeref, UsesParent, UsesPages,
               UsesAlloc, Labels
    <2>8. ForkAlone'
        BY <1>19, <2>1 DEF SaForkCopy, UpRead, CopyPages, LocalSorts,
               ForkAlone, Forking
    <2>9. ForkEntry'
        BY <1>19, <2>1 DEF SaForkCopy, UpRead, CopyPages, DescSorts,
               LocalSorts, OpAt, OwnDesc, ForkAlone, ForkEntry, Forking,
               ThreadDesc
    <2> QED
        BY <2>2, <2>3, <2>4, <2>5, <2>6, <2>7, <2>8, <2>9
<1>20. ASSUME NEW t \in Threads, SaForkInsert(t) PROVE Shape'
    <2>1. alloc[t] \in Descs /\ pagelist[t] \in Pagelists
        BY <1>20 DEF SaForkInsert, LocalSorts, NoNullDeref, UsesParent,
               UsesPages, UsesAlloc, Labels
    <2>2. \E l \in {"fork_map", "gl_free"} :
            pc' = [pc EXCEPT ![t] = l]
        BY <1>20 DEF SaForkInsert
    <2>3. \E e \in {"ok", "EBUSY", "ENOMEM"} : err' = [err EXCEPT ![t] = e]
        BY <1>20 DEF SaForkInsert
    <2>4. \A u \in Threads \ {t} : pc[u] \in {"fork_map", "fork_erase"} =>
            alloc[u] \in Descs /\ alloc[u] # alloc[t]
        BY <1>20, <2>1, ForkApart DEF SaForkInsert
    <2>5. DescSorts'
        <3>1. threads' \in [Descs -> [Ids -> ThreadDesc \cup {NULL, XA_ZERO}]]
            <4>1. \/ threads' = threads
                  \/ threads' = [threads EXCEPT ![alloc[t]][id[t]] =
                                    [tid |-> t, pagelist |-> pagelist[t]]]
                BY <1>20 DEF SaForkInsert
            <4>2. /\ id[t] \in Ids
                  /\ [tid |-> t, pagelist |-> pagelist[t]] \in ThreadDesc
                BY <2>1 DEF LocalSorts, ThreadDesc
            <4> QED
                BY <2>1, <4>1, <4>2, SlotSort DEF DescSorts
        <3> QED
            BY <1>20, <3>1 DEF SaForkInsert, DescSorts
    <2>6. PageSorts'
        BY <1>20, <2>1 DEF SaForkInsert, PageSorts, LocalSorts
    <2>7. LocalSorts'
        <3>1. pc' \in [Threads -> Labels]
            BY <2>2 DEF LocalSorts, Labels
        <3>2. err' \in [Threads -> Errors]
            BY <2>3 DEF LocalSorts, Errors
        <3> QED
            BY <1>20, <3>1, <3>2 DEF SaForkInsert, LocalSorts
    <2>8. NoNullDeref'
        BY <1>20, <2>1, <2>2 DEF SaForkInsert, LocalSorts, DescSorts,
               PageSorts, NoNullDeref, OpAt, Forking, UsesParent, UsesPages,
               UsesAlloc, Labels
    <2>9. OpAt'
        BY <1>20, <2>1, <2>2 DEF SaForkInsert, LocalSorts, OpAt
    <2>10. OwnDesc'
        BY <1>20, <2>1, <2>2 DEF SaForkInsert, DescSorts, LocalSorts, OwnDesc,
               NoNullDeref, UsesParent, UsesPages, UsesAlloc, Labels
    <2>11. ForkAlone'
        BY <1>20, <2>1, <2>2 DEF SaForkInsert, LocalSorts, ForkAlone, Forking
    <2>12. ForkEntry'
        BY <1>20, <2>1, <2>2, <2>4 DEF SaForkInsert, DescSorts, LocalSorts,
               ForkEntry, NoNullDeref, UsesParent, UsesPages, UsesAlloc, Labels
    <2> QED
        BY <2>5, <2>6, <2>7, <2>8, <2>9, <2>10, <2>11, <2>12
<1>21. ASSUME NEW t \in Threads, Return(t) PROVE Shape'
    <2>1. (op[t] = "fork" => ppid[t] \in Threads)
        BY <1>21 DEF Return, LocalSorts, NoNullDeref, OpAt, Forking,
               UsesParent, UsesPages, UsesAlloc, Labels
    <2>2. DescSorts'
        BY <1>21, <2>1 DEF Return, DescSorts, LocalSorts, ThreadDesc
    <2>3. PageSorts'
        BY <1>21, <2>1 DEF Return, PageSorts, LocalSorts
    <2>4. LocalSorts'
        <3>1. op' \in [Threads -> {"none", "alloc", "free", "fork", "destroy"}]
            BY <1>21, <2>1 DEF Return, LocalSorts, DescSorts, PageSorts
        <3>2. pc' \in [Threads -> Labels]
            BY <1>21, <2>1 DEF Return, LocalSorts, DescSorts, PageSorts, Labels
        <3>3. alloc' \in [Threads -> Descs \cup {NULL}]
            BY <1>21, <2>1 DEF Return, LocalSorts, DescSorts, PageSorts
        <3>4. parent' \in [Threads -> Descs \cup {NULL}]
            BY <1>21, <2>1 DEF Return, LocalSorts, DescSorts, PageSorts
        <3>5. ppid' \in [Threads -> Threads \cup {NULL}]
            BY <1>21, <2>1 DEF Return, LocalSorts, DescSorts, PageSorts
        <3>6. id' \in [Threads -> Ids]
            <4>1. id' = [id EXCEPT ![t] = 0] /\ 0 \in Ids
                BY <1>21 DEF Return, Ids
            <4> QED
                BY <4>1 DEF LocalSorts
        <3>7. pagelist' \in [Threads -> Pagelists \cup {NULL}]
            BY <1>21, <2>1 DEF Return, LocalSorts, DescSorts, PageSorts
        <3>8. err' \in [Threads -> Errors]
            BY <1>21, <2>1 DEF Return, LocalSorts, DescSorts, PageSorts, Errors
        <3>9. held' \in [Threads -> Ids \cup {NULL}]
            <4>1. \/ held' = held
                  \/ held' = [held EXCEPT ![t] = id[t]]
                  \/ /\ ppid[t] \in Threads
                     /\ held' = [held EXCEPT ![t] = held[ppid[t]]]
                BY <1>21, <2>1 DEF Return
            <4> QED
                BY <4>1 DEF LocalSorts
        <3>10. expect' \in [Threads -> Threads \cup {Zeroed}]
            BY <1>21, <2>1 DEF Return, LocalSorts, DescSorts, PageSorts
        <3> QED
            BY <1>21, <3>1, <3>2, <3>3, <3>4, <3>5, <3>6, <3>7, <3>8, <3>9,
               <3>10
               DEF Return, LocalSorts
    <2>5. NoNullDeref'
        BY <1>21, <2>1 DEF Return, LocalSorts, DescSorts, PageSorts,
               NoNullDeref, OpAt, Forking, UsesParent, UsesPages, UsesAlloc,
               Labels
    <2>6. OpAt'
        BY <1>21, <2>1 DEF Return, LocalSorts, OpAt
    <2>7. OwnDesc'
        BY <1>21, <2>1 DEF Return, DescSorts, LocalSorts, OwnDesc, NoNullDeref,
               UsesParent, UsesPages, UsesAlloc, Labels
    <2>8. ForkAlone'
        BY <1>21, <2>1 DEF Return, LocalSorts, ForkAlone, Forking
    <2>9. ForkEntry'
        BY <1>21, <2>1 DEF Return, DescSorts, LocalSorts, OpAt, OwnDesc,
               ForkAlone, ForkEntry, Forking, ThreadDesc
    <2> QED
        BY <2>2, <2>3, <2>4, <2>5, <2>6, <2>7, <2>8, <2>9
<1>22. ASSUME NEW t \in Threads, UserWrite(t) PROVE Shape'
    <2>1. DescSorts'
        BY <1>22 DEF UserWrite, DescSorts, LocalSorts, ThreadDesc, Ready
    <2>2. PageSorts'
        BY <1>22 DEF UserWrite, PageSorts, LocalSorts, Ready
    <2>3. LocalSorts'
        BY <1>22 DEF UserWrite, LocalSorts, DescSorts, PageSorts, Ready,
               Labels, Errors
    <2>4. NoNullDeref'
        BY <1>22 DEF UserWrite, LocalSorts, DescSorts, PageSorts, NoNullDeref,
               OpAt, Forking, UsesParent, UsesPages, UsesAlloc, Labels, Ready,
               Blocked
    <2>5. OpAt'
        BY <1>22 DEF UserWrite, LocalSorts, OpAt, Ready, Blocked
    <2>6. OwnDesc'
        BY <1>22 DEF UserWrite, DescSorts, LocalSorts, OwnDesc, NoNullDeref,
               UsesParent, UsesPages, UsesAlloc, Labels, Ready, Blocked
    <2>7. ForkAlone'
        BY <1>22 DEF UserWrite, LocalSorts, ForkAlone, Forking, Ready, Blocked
    <2>8. ForkEntry'
        BY <1>22 DEF UserWrite, DescSorts, LocalSorts, OpAt, OwnDesc,
               ForkAlone, ForkEntry, Forking, Ready, Blocked, ThreadDesc
    <2> QED
        BY <2>1, <2>2, <2>3, <2>4, <2>5, <2>6, <2>7, <2>8
<1>23. ASSUME VmaFree PROVE Shape'
    <2>1. DescSorts'
        BY <1>23 DEF VmaFree, DescSorts, LocalSorts, ThreadDesc
    <2>2. PageSorts'
        BY <1>23 DEF VmaFree, PageSorts, LocalSorts
    <2>3. LocalSorts'
        BY <1>23 DEF VmaFree, LocalSorts, DescSorts, PageSorts, Labels, Errors
    <2>4. NoNullDeref'
        BY <1>23 DEF VmaFree, LocalSorts, DescSorts, PageSorts, NoNullDeref,
               OpAt, Forking, UsesParent, UsesPages, UsesAlloc, Labels
    <2>5. OpAt'
        BY <1>23 DEF VmaFree, LocalSorts, OpAt
    <2>6. OwnDesc'
        BY <1>23 DEF VmaFree, DescSorts, LocalSorts, OwnDesc, NoNullDeref,
               UsesParent, UsesPages, UsesAlloc, Labels
    <2>7. ForkAlone'
        BY <1>23 DEF VmaFree, LocalSorts, ForkAlone, Forking
    <2>8. ForkEntry'
        BY <1>23 DEF VmaFree, DescSorts, LocalSorts, OpAt, OwnDesc, ForkAlone,
               ForkEntry, Forking, ThreadDesc
    <2> QED
        BY <2>1, <2>2, <2>3, <2>4, <2>5, <2>6, <2>7, <2>8
<1>24. ASSUME UNCHANGED vars PROVE Shape'
    BY <1>24 DEF vars, DescSorts, PageSorts, LocalSorts, NoNullDeref, OpAt,
           OwnDesc, ForkAlone, ForkEntry, Forking
<1> QED
    BY <1>1, <1>2, <1>3, <1>4, <1>5, <1>6, <1>7, <1>8, <1>9, <1>10, <1>11,
       <1>12, <1>13, <1>14, <1>15, <1>16, <1>17, <1>18, <1>19, <1>20, <1>21,
       <1>22, <1>23, <1>24
       DEF Next, KernelNext, Step

\* The module is loaded with no descriptor, no stack and no operation running.
LEMMA ShapeInit == Init => Shape
<1> SUFFICES ASSUME Init PROVE Shape
    OBVIOUS
<1> USE Constants DEF Init
<1>1. DescSorts /\ PageSorts
    BY DEF DescSorts, PageSorts, Ids
<1>2. LocalSorts
    BY DEF LocalSorts, Labels, Errors, Ids
<1>3. NoNullDeref
    BY DEF NoNullDeref, UsesParent, UsesPages, UsesAlloc, Labels, Forking
<1>4. OpAt /\ OwnDesc /\ ForkAlone /\ ForkEntry
    BY DEF OpAt, OwnDesc, ForkAlone, ForkEntry, Forking
<1> QED
    BY <1>1, <1>2, <1>3, <1>4 DEF Shape, TypeOK

\* The shape is an invariant of the allocator.
THEOREM AreaShape == Spec => []Shape
<1> QED
    BY ShapeInit, ShapeNext, PTL DEF Spec

\* Types, and the absence of NULL dereferences in sa_alloc, sa_fork, sa_free and
\* the gl_* helpers, whatever fails and however the calls interleave.
THEOREM AreaTypes == Spec => []TypeOK
<1>1. Shape => TypeOK
    BY DEF Shape
<1> QED
    BY <1>1, AreaShape, PTL

-----------------------------------------------------------------------------
(***************************************************************************)
(* The owners of the pages and the references to the descriptors.          *)
(***************************************************************************)

\* A step after which nobody owns a pagelist he did not own before.
NoNewOwner ==
    /\ gl_sa' = gl_sa /\ allocated' = allocated
    /\ \A u \in Threads : pc'[u] \in OwnsPages =>
            pc[u] \in OwnsPages /\ pagelist'[u] = pagelist[u]
    /\ \A d \in Descs, i \in Ids : threads'[d][i] \in ThreadDesc =>
            threads'[d][i] = threads[d][i]

\* Such a step keeps the pagelists exclusive.
LEMMA NoNewOwnerKeeps ==
    ASSUME ExclusivePages, NoNewOwner PROVE ExclusivePages'
BY DEF ExclusivePages, NoNewOwner, Registered, OwnsPages, UsesPages

\* The inductive invariant of the page owners.
Pages == Shape /\ ExclusivePages

\* The operations that neither take, register nor give up a stack.
LEMMA QuietSteps ==
    ASSUME Shape, NEW t \in Threads,
           \/ AllocCreate(t) \/ AllocDestroy(t) \/ AllocPut(t) \/ AllocGet(t)
           \/ Map(t) \/ SaAlloc(t) \/ XaAlloc(t)
           \/ (\E i \in Ids : SaFree(t, i)) \/ SaFreeUnmap(t)
           \/ (\E p \in Threads : SaFork(t, p)) \/ SaForkParent(t)
           \/ SaForkLookup(t) \/ SaForkCopy(t) \/ Return(t) \/ UserWrite(t)
    PROVE  NoNewOwner
<1> USE DEF Shape, TypeOK, LocalSorts, NoNewOwner, OwnsPages, UsesPages, Goto,
        Fail, descVars, pageVars, localVars, userVars, Ready
<1>1. CASE AllocCreate(t)
    BY <1>1 DEF AllocCreate
<1>2. CASE AllocDestroy(t)
    BY <1>2 DEF AllocDestroy
<1>3. CASE AllocPut(t)
    BY <1>3 DEF AllocPut
<1>4. CASE AllocGet(t)
    BY <1>4 DEF AllocGet
<1>5. CASE Map(t)
    BY <1>5 DEF Map
<1>6. CASE SaAlloc(t)
    BY <1>6 DEF SaAlloc, FindAlloc
<1>7. CASE XaAlloc(t)
    <2>1. alloc[t] \in Descs
        BY <1>7 DEF XaAlloc, NoNullDeref, UsesAlloc, Labels
    <2>2. \/ threads' = threads
          \/ \E i \in Ids : threads' = [threads EXCEPT ![alloc[t]][i] = XA_ZERO]
        BY <1>7 DEF XaAlloc
    <2>3. \A d \in Descs, i \in Ids : threads'[d][i] \in ThreadDesc =>
                threads'[d][i] = threads[d][i]
        <3>1. ASSUME NEW j \in Ids,
                     threads' = [threads EXCEPT ![alloc[t]][j] = XA_ZERO],
                     NEW d \in Descs, NEW i \in Ids
              PROVE  threads'[d][i] \in {threads[d][i], XA_ZERO}
            BY <2>1, <3>1 DEF DescSorts
        <3>2. XA_ZERO \notin ThreadDesc
            BY Constants
        <3> QED
            BY <2>2, <3>1, <3>2
    <2> QED
        BY <1>7, <2>3 DEF XaAlloc
<1>8. ASSUME NEW i \in Ids, SaFree(t, i) PROVE NoNewOwner
    BY <1>8 DEF SaFree, FindAlloc
<1>9. CASE SaFreeUnmap(t)
    BY <1>9 DEF SaFreeUnmap
<1>10. ASSUME NEW p \in Threads, SaFork(t, p) PROVE NoNewOwner
    BY <1>10 DEF SaFork, FindAlloc
<1>11. CASE SaForkParent(t)
    BY <1>11 DEF SaForkParent
<1>12. CASE SaForkLookup(t)
    BY <1>12 DEF SaForkLookup
<1>13. CASE SaForkCopy(t)
    BY <1>13 DEF SaForkCopy
<1>14. CASE Return(t)
    BY <1>14 DEF Return
<1>15. CASE UserWrite(t)
    BY <1>15 DEF UserWrite
<1> QED
    BY <1>1, <1>2, <1>3, <1>4, <1>5, <1>6, <1>7, <1>8, <1>9, <1>10, <1>11,
       <1>12, <1>13, <1>14, <1>15

(***************************************************************************)
(* What the other operations do to the owners.                             *)
(***************************************************************************)

\* The operations of the other threads keep what they have.
OthersKeep(t) ==
    \A u \in Threads \ {t} : pc'[u] = pc[u] /\ pagelist'[u] = pagelist[u]

\* Slot i of descriptor d becomes e, the others stay.
SlotBecomes(d, i, e) ==
    \A c \in Descs, j \in Ids :
        threads'[c][j] = IF c = d /\ j = i THEN e ELSE threads[c][j]

\* gl_alloc_stack takes a stack of the free list, or one nobody had, or none.
LEMMA GlAllocEffect ==
    ASSUME Shape, NEW t \in Threads, GlAllocStack(t)
    PROVE  /\ OthersKeep(t) /\ threads' = threads
           /\ \/ \E l \in gl_sa : /\ gl_sa' = gl_sa \ {l}
                                  /\ allocated' = allocated
                                  /\ pagelist'[t] = l
              \/ \E l \in Pagelists \ allocated :
                    /\ gl_sa' = gl_sa /\ allocated' = allocated \cup {l}
                    /\ pagelist'[t] = l
              \/ /\ gl_sa' = gl_sa /\ allocated' = allocated
                 /\ pc'[t] \notin OwnsPages
<1>1. LocalSorts
    BY DEF Shape, TypeOK
<1>2. OthersKeep(t) /\ threads' = threads
    BY <1>1 DEF GlAllocStack, LocalSorts, OthersKeep, Goto, Fail, descVars
<1> QED
    BY <1>1, <1>2
       DEF GlAllocStack, LocalSorts, OwnsPages, UsesPages, Goto, Fail

\* gl_free gives the stack of the caller to the page allocator or keeps it.
LEMMA GlFreeEffect ==
    ASSUME Shape, NEW t \in Threads, GlFreeCheck(t)
    PROVE  /\ OthersKeep(t) /\ threads' = threads /\ gl_sa' = gl_sa
           /\ pc[t] \in OwnsPages
           /\ \/ /\ allocated' = allocated \ {pagelist[t]}
                 /\ pc'[t] \notin OwnsPages
              \/ allocated' = allocated /\ pagelist' = pagelist
<1>1. LocalSorts
    BY DEF Shape, TypeOK
<1>2. OthersKeep(t) /\ threads' = threads /\ gl_sa' = gl_sa
    BY <1>1 DEF GlFreeCheck, LocalSorts, OthersKeep, Goto, descVars
<1> QED
    BY <1>1, <1>2 DEF GlFreeCheck, FreePages, AfterGlFree, LocalSorts,
                      OwnsPages, UsesPages, Goto

\* The insertion of gl_free passes the stack to the free list.
LEMMA GlInsertEffect ==
    ASSUME Shape, NEW t \in Threads, GlFreeInsert(t)
    PROVE  /\ OthersKeep(t) /\ threads' = threads /\ allocated' = allocated
           /\ gl_sa' = gl_sa \cup {pagelist[t]}
           /\ pc[t] \in OwnsPages /\ pc'[t] \notin OwnsPages
<1>1. LocalSorts
    BY DEF Shape, TypeOK
<1>2. OthersKeep(t) /\ threads' = threads
    BY <1>1 DEF GlFreeInsert, LocalSorts, OthersKeep, Goto, descVars
<1> QED
    BY <1>1, <1>2 DEF GlFreeInsert, AfterGlFree, LocalSorts, OwnsPages,
                      UsesPages, Goto

\* xa_store of sa_alloc and xa_insert of sa_fork pass the stack to a slot, or
\* xa_insert fails.
LEMMA RegisterEffect ==
    ASSUME Shape, NEW t \in Threads, SaAllocStore(t) \/ SaForkInsert(t)
    PROVE  /\ OthersKeep(t) /\ gl_sa' = gl_sa /\ allocated' = allocated
           /\ alloc[t] \in Descs /\ id[t] \in Ids /\ pagelist[t] \in Pagelists
           /\ pc[t] \in OwnsPages
           /\ \/ /\ SlotBecomes(alloc[t], id[t],
                                [tid |-> t, pagelist |-> pagelist[t]])
                 /\ pc'[t] \notin OwnsPages
              \/ threads' = threads /\ pagelist' = pagelist
<1>1. LocalSorts /\ DescSorts /\ NoNullDeref
    BY DEF Shape, TypeOK
<1>2. /\ alloc[t] \in Descs /\ id[t] \in Ids /\ pagelist[t] \in Pagelists
      /\ pc[t] \in OwnsPages /\ gl_sa' = gl_sa /\ allocated' = allocated
    BY <1>1 DEF SaAllocStore, SaForkInsert, NoNullDeref, LocalSorts, UsesAlloc,
                UsesPages, OwnsPages, Labels, pageVars
<1>3. OthersKeep(t)
    BY <1>1 DEF SaAllocStore, SaForkInsert, LocalSorts, OthersKeep, Goto, Fail
<1>4. \/ /\ threads' = [threads EXCEPT ![alloc[t]][id[t]] =
                            [tid |-> t, pagelist |-> pagelist[t]]]
         /\ pc'[t] \notin OwnsPages
      \/ threads' = threads /\ pagelist' = pagelist
    BY <1>1 DEF SaAllocStore, SaForkInsert, LocalSorts, OwnsPages, UsesPages,
                Goto, Fail
<1>5. ASSUME threads' = [threads EXCEPT ![alloc[t]][id[t]] =
                            [tid |-> t, pagelist |-> pagelist[t]]]
      PROVE  SlotBecomes(alloc[t], id[t], [tid |-> t, pagelist |-> pagelist[t]])
    BY <1>1, <1>2, <1>5 DEF DescSorts, SlotBecomes
<1> QED
    BY <1>2, <1>3, <1>4, <1>5

\* The error path of sa_fork takes its own stack back from the slot; that of
\* sa_alloc leaves an operation without a stack.
LEMMA EraseEffect ==
    ASSUME Shape, NEW t \in Threads, EraseSlot(t)
    PROVE  /\ OthersKeep(t) /\ gl_sa' = gl_sa /\ allocated' = allocated
           /\ pagelist' = pagelist /\ alloc[t] \in Descs /\ id[t] \in Ids
           /\ SlotBecomes(alloc[t], id[t], NULL)
           /\ \/ pc'[t] \notin OwnsPages
              \/ /\ threads[alloc[t]][id[t]] =
                        [tid |-> t, pagelist |-> pagelist[t]]
                 /\ pagelist[t] \in Pagelists
<1>1. LocalSorts /\ DescSorts /\ NoNullDeref /\ ForkEntry
    BY DEF Shape, TypeOK
<1>2. /\ alloc[t] \in Descs /\ id[t] \in Ids /\ gl_sa' = gl_sa
      /\ allocated' = allocated /\ pagelist' = pagelist
    BY <1>1 DEF EraseSlot, NoNullDeref, LocalSorts, UsesAlloc, Labels, pageVars
<1>3. OthersKeep(t)
    BY <1>1, <1>2 DEF EraseSlot, LocalSorts, OthersKeep, Goto
<1>4. SlotBecomes(alloc[t], id[t], NULL)
    BY <1>1, <1>2 DEF EraseSlot, XaErase, DescSorts, SlotBecomes
<1>5. \/ pc'[t] \notin OwnsPages
      \/ /\ threads[alloc[t]][id[t]] = [tid |-> t, pagelist |-> pagelist[t]]
         /\ pagelist[t] \in Pagelists
    BY <1>1 DEF EraseSlot, ForkEntry, LocalSorts, NoNullDeref, OwnsPages,
                UsesPages, Goto
<1> QED
    BY <1>2, <1>3, <1>4, <1>5

\* sa_free takes the stack out of the slot, if it holds one.
LEMMA FreeEffect ==
    ASSUME Shape, NEW t \in Threads, SaFreeErase(t)
    PROVE  /\ OthersKeep(t) /\ gl_sa' = gl_sa /\ allocated' = allocated
           /\ alloc[t] \in Descs /\ id[t] \in Ids
           /\ SlotBecomes(alloc[t], id[t], NULL)
           /\ \/ pc'[t] \notin OwnsPages
              \/ /\ Registered(alloc[t], id[t])
                 /\ pagelist'[t] = threads[alloc[t]][id[t]].pagelist
<1>1. LocalSorts /\ DescSorts /\ NoNullDeref
    BY DEF Shape, TypeOK
<1>2. /\ alloc[t] \in Descs /\ id[t] \in Ids /\ gl_sa' = gl_sa
      /\ allocated' = allocated
    BY <1>1 DEF SaFreeErase, NoNullDeref, LocalSorts, UsesAlloc, Labels,
                pageVars
<1>3. OthersKeep(t)
    BY <1>1, <1>2 DEF SaFreeErase, LocalSorts, OthersKeep, Goto, Fail
<1>4. SlotBecomes(alloc[t], id[t], NULL)
    BY <1>1, <1>2 DEF SaFreeErase, XaErase, DescSorts, SlotBecomes
<1>5. \/ pc'[t] \notin OwnsPages
      \/ /\ threads[alloc[t]][id[t]] \in ThreadDesc
         /\ pagelist'[t] = threads[alloc[t]][id[t]].pagelist
    BY <1>1 DEF SaFreeErase, LocalSorts, OwnsPages, UsesPages, Goto, Fail
<1> QED
    BY <1>2, <1>3, <1>4, <1>5 DEF Registered

\* Every step keeps the pagelists exclusive.
LEMMA ExclusiveNext == Pages /\ [Next]_vars => ExclusivePages'
<1> SUFFICES ASSUME Pages, [Next]_vars PROVE ExclusivePages'
    OBVIOUS
<1> USE DEF Pages
<1>1. ASSUME NEW t \in Threads, GlAllocStack(t) PROVE ExclusivePages'
    BY <1>1, GlAllocEffect DEF ExclusivePages, Registered, OthersKeep
<1>2. ASSUME NEW t \in Threads, GlFreeCheck(t) PROVE ExclusivePages'
    BY <1>2, GlFreeEffect DEF ExclusivePages, Registered, OthersKeep
<1>3. ASSUME NEW t \in Threads, GlFreeInsert(t) PROVE ExclusivePages'
    BY <1>3, GlInsertEffect DEF ExclusivePages, Registered, OthersKeep
<1>4. ASSUME NEW t \in Threads, SaAllocStore(t) \/ SaForkInsert(t)
      PROVE  ExclusivePages'
    <2>1. CASE threads' = threads /\ pagelist' = pagelist
        BY <1>4, <2>1, RegisterEffect
           DEF ExclusivePages, Registered, OthersKeep
    <2>2. CASE /\ SlotBecomes(alloc[t], id[t],
                              [tid |-> t, pagelist |-> pagelist[t]])
               /\ pc'[t] \notin OwnsPages
        BY <1>4, <2>2, RegisterEffect
           DEF ExclusivePages, Registered, OthersKeep, SlotBecomes
    <2> QED
        BY <1>4, <2>1, <2>2, RegisterEffect
<1>5. ASSUME NEW t \in Threads, EraseSlot(t) PROVE ExclusivePages'
    <2>1. /\ OthersKeep(t) /\ gl_sa' = gl_sa /\ allocated' = allocated
          /\ pagelist' = pagelist /\ alloc[t] \in Descs /\ id[t] \in Ids
          /\ SlotBecomes(alloc[t], id[t], NULL)
        BY <1>5, EraseEffect
    <2>2. \/ pc'[t] \notin OwnsPages
          \/ /\ threads[alloc[t]][id[t]] =
                    [tid |-> t, pagelist |-> pagelist[t]]
             /\ pagelist[t] \in Pagelists
        BY <1>5, EraseEffect
    <2> QED
        BY <2>1, <2>2, Constants
           DEF ExclusivePages, Registered, ThreadDesc, OthersKeep, SlotBecomes
<1>6. ASSUME NEW t \in Threads, SaFreeErase(t) PROVE ExclusivePages'
    BY <1>6, FreeEffect, Constants
       DEF ExclusivePages, Registered, OthersKeep, SlotBecomes
<1>7. CASE VmaFree
    <2>1. \A t \in Threads : pc'[t] = "idle"
        BY <1>7 DEF VmaFree, localVars
    <2> QED
        BY <1>7, <2>1 DEF VmaFree, ExclusivePages, Registered, OwnsPages,
                          UsesPages, descVars
<1>8. CASE UNCHANGED vars
    BY <1>8, NoNewOwnerKeeps
       DEF vars, NoNewOwner, descVars, pageVars, localVars
<1> QED
    BY <1>1, <1>2, <1>3, <1>4, <1>5, <1>6, <1>7, <1>8, QuietSteps,
       NoNewOwnerKeeps DEF Next, KernelNext, Step

\* The pagelists are exclusive when the module is loaded.
LEMMA ExclusiveInit == Init => ExclusivePages
BY Constants DEF Init, ExclusivePages, Registered, OwnsPages, UsesPages

\* No shadow stack ever has two owners, nor one whose pages the kernel has got
\* back: the free list, the registered threads of all processes and the running
\* operations of sa_alloc, sa_fork, sa_free hold different pagelists.
THEOREM AreaExclusive == Spec => []ExclusivePages
<1>1. Init => Pages
    BY ShapeInit, ExclusiveInit DEF Pages
<1>2. Pages /\ [Next]_vars => Pages'
    BY ShapeNext, ExclusiveNext DEF Pages
<1>3. Pages => ExclusivePages
    BY DEF Pages
<1> QED
    BY <1>1, <1>2, <1>3, PTL DEF Spec

-----------------------------------------------------------------------------
(***************************************************************************)
(* The counter of the free list.                                           *)
(***************************************************************************)

\* The operations that are between the test and the insertion of gl_free.
Inserting == {t \in Threads : pc[t] = "gl_insert"}

\* A step that leaves the free list alone and starts no insertion.
ListKept ==
    gl_size' = gl_size /\ gl_sa' = gl_sa /\ Inserting' \subseteq Inserting

\* The steps that do not touch the free list start no insertion either.
LEMMA ListUntouched ==
    ASSUME Shape, NEW t \in Threads,
           \/ AllocCreate(t) \/ AllocDestroy(t) \/ AllocPut(t) \/ AllocGet(t)
           \/ Map(t) \/ SaAlloc(t) \/ XaAlloc(t) \/ SaAllocStore(t)
           \/ EraseSlot(t) \/ (\E i \in Ids : SaFree(t, i))
           \/ SaFreeErase(t) \/ SaFreeUnmap(t)
           \/ (\E p \in Threads : SaFork(t, p)) \/ SaForkParent(t)
           \/ SaForkLookup(t) \/ SaForkCopy(t) \/ SaForkInsert(t)
           \/ Return(t) \/ UserWrite(t)
    PROVE  ListKept
<1> USE DEF Shape, TypeOK, LocalSorts, ListKept, Inserting, Goto, Fail,
        descVars, pageVars, localVars, userVars, Ready
<1>1. CASE AllocCreate(t)
    BY <1>1 DEF AllocCreate
<1>2. CASE AllocDestroy(t)
    BY <1>2 DEF AllocDestroy
<1>3. CASE AllocPut(t)
    BY <1>3 DEF AllocPut
<1>4. CASE AllocGet(t)
    BY <1>4 DEF AllocGet
<1>5. CASE Map(t)
    BY <1>5 DEF Map
<1>6. CASE SaAlloc(t)
    BY <1>6 DEF SaAlloc, FindAlloc
<1>7. CASE XaAlloc(t)
    BY <1>7 DEF XaAlloc
<1>8. ASSUME NEW i \in Ids, SaFree(t, i)
      PROVE  ListKept
    BY <1>8 DEF SaFree, FindAlloc
<1>9. CASE SaFreeErase(t) \/ SaFreeUnmap(t)
    BY <1>9 DEF SaFreeErase, SaFreeUnmap
<1>10. ASSUME NEW p \in Threads, SaFork(t, p)
      PROVE  ListKept
    BY <1>10 DEF SaFork, FindAlloc
<1>11. CASE SaForkParent(t)
    BY <1>11 DEF SaForkParent
<1>12. CASE SaForkLookup(t)
    BY <1>12 DEF SaForkLookup
<1>13. CASE SaForkCopy(t) \/ SaForkInsert(t)
    BY <1>13 DEF SaForkCopy, SaForkInsert
<1>14. CASE Return(t)
    BY <1>14 DEF Return
<1>15. CASE UserWrite(t)
    BY <1>15 DEF UserWrite
<1>16. CASE SaAllocStore(t) \/ EraseSlot(t)
    BY <1>16 DEF SaAllocStore, EraseSlot
<1> QED
    BY <1>1, <1>2, <1>3, <1>4, <1>5, <1>6, <1>7, <1>8, <1>9, <1>10, <1>11,
       <1>12, <1>13, <1>14, <1>15, <1>16

\* The set of insertions in progress is finite.
LEMMA InsertingFinite ==
    /\ IsFiniteSet(Inserting) /\ Cardinality(Inserting) \in Nat
    /\ Cardinality(Inserting) <= Cardinality(Threads)
    /\ Cardinality(Threads) \in Nat
<1>1. Inserting \subseteq Threads
    BY DEF Inserting
<1> QED
    BY <1>1, Constants, FS_Subset, FS_CardinalityType

\* What each step does to the counter and to the insertions in progress.
LEMMA ListSteps ==
    ASSUME Shape, [Next]_vars
    PROVE  \/ ListKept
           \/ /\ gl_size' = gl_size - 1
              /\ \E l \in gl_sa : gl_sa' = gl_sa \ {l}
              /\ Inserting' \subseteq Inserting
           \/ /\ gl_size < GL_SA_CAPACITY
              /\ gl_size' = gl_size /\ gl_sa' = gl_sa
           \/ \E t \in Inserting :
                /\ gl_size' = gl_size + 1
                /\ gl_sa' = gl_sa \cup {pagelist[t]}
                /\ Inserting' = Inserting \ {t}
           \/ gl_size' = 0 /\ gl_sa' = {} /\ Inserting = {} /\ Inserting' = {}
<1> USE DEF Goto, Fail, descVars, pageVars, localVars, userVars
<1>0. LocalSorts /\ gl_size \in Int /\ GL_SA_CAPACITY \in Int
    BY Constants DEF Shape, TypeOK, PageSorts
<1>1. ASSUME NEW t \in Threads, GlAllocStack(t)
      PROVE  /\ Inserting' \subseteq Inserting
             /\ \/ gl_size' = gl_size /\ gl_sa' = gl_sa
                \/ /\ gl_size' = gl_size - 1
                   /\ \E l \in gl_sa : gl_sa' = gl_sa \ {l}
    <2>1. \E l \in Labels \ {"gl_insert"} : pc' = [pc EXCEPT ![t] = l]
        BY <1>1 DEF GlAllocStack, Labels
    <2> QED
        BY <1>0, <1>1, <2>1
           DEF GlAllocStack, GlSizeTaken, Inserting, LocalSorts
<1>2. ASSUME NEW t \in Threads, GlFreeCheck(t)
      PROVE  /\ gl_size' = gl_size /\ gl_sa' = gl_sa
             /\ gl_size < GL_SA_CAPACITY \/ Inserting' \subseteq Inserting
    <2>1. CASE GlFull
        BY <1>0, <1>2, <2>1
           DEF GlFreeCheck, AfterGlFree, Inserting, LocalSorts
    <2>2. CASE ~GlFull
        BY <1>0, <1>2, <2>2 DEF GlFreeCheck, GlFull
    <2> QED
        BY <2>1, <2>2
<1>3. ASSUME NEW t \in Threads, GlFreeInsert(t)
      PROVE  /\ t \in Inserting
             /\ gl_size' = gl_size + 1 /\ gl_sa' = gl_sa \cup {pagelist[t]}
             /\ Inserting' = Inserting \ {t}
    BY <1>0, <1>3 DEF GlFreeInsert, AfterGlFree, Inserting, LocalSorts
<1>4. ASSUME VmaFree
      PROVE  gl_size' = 0 /\ gl_sa' = {} /\ Inserting = {} /\ Inserting' = {}
    BY <1>4 DEF VmaFree, Inserting
<1>5. ASSUME UNCHANGED vars
      PROVE  gl_size' = gl_size /\ gl_sa' = gl_sa /\ Inserting' = Inserting
    BY <1>5 DEF vars, Inserting
<1> QED
    BY <1>1, <1>2, <1>3, <1>4, <1>5, ListUntouched
       DEF Next, KernelNext, Step, ListKept

\* The free list may outgrow GL_SA_CAPACITY, since gl_free tests gl_size before
\* it takes gl_lock, but by less than one stack for each thread, however many
\* threads of whatever processes free at once.
THEOREM AreaGlBound == Spec => []GlBound
<1>1. Init => GlBound
    <2> SUFFICES ASSUME Init PROVE GlBound
        OBVIOUS
    <2>1. gl_size = 0 /\ Inserting = {}
        BY DEF Init, Inserting
    <2> QED
        BY <2>1, Constants, InsertingFinite, FS_EmptySet
           DEF GlBound, Inserting
<1>2. Shape /\ GlBound /\ [Next]_vars => GlBound'
    <2> SUFFICES ASSUME Shape, GlBound, [Next]_vars PROVE GlBound'
        OBVIOUS
    <2> DEFINE n == Cardinality(Inserting)
               c == Cardinality(Threads)
    <2>1. gl_size \in Int /\ gl_size + n <= GL_SA_CAPACITY - 1 + c
        BY DEF Shape, TypeOK, PageSorts, GlBound, Inserting
    <2>2. IsFiniteSet(Inserting) /\ n \in Nat /\ c \in Nat /\ n <= c
        BY InsertingFinite
    <2>3. n' \in Nat /\ n' <= c
        <3>1. Inserting' \subseteq Threads
            BY DEF Inserting
        <3> QED
            BY <3>1, Constants, FS_Subset, FS_CardinalityType
    <2>4. Inserting' \subseteq Inserting => n' <= n
        BY <2>2, FS_Subset
    <2>5. \A t \in Inserting : Inserting' = Inserting \ {t} => n' = n - 1
        BY <2>2, FS_RemoveElement
    <2>6. GL_SA_CAPACITY \in Nat \ {0}
        BY Constants
    <2>7. gl_size' + n' <= GL_SA_CAPACITY - 1 + c
        <3> HIDE DEF n, c
        <3>1. Inserting' = {} => Inserting' \subseteq Inserting
            OBVIOUS
        <3> QED
            BY <2>1, <2>2, <2>3, <2>4, <2>5, <2>6, ListSteps DEF ListKept
    <2> QED
        BY <2>7 DEF GlBound, Inserting
<1> QED
    BY <1>1, <1>2, AreaShape, PTL DEF Spec

\* gl_size, which gl_free trusts without taking gl_lock, is the number of stacks
\* on the free list: no stack is counted twice, because none is inserted twice.
THEOREM AreaGlSize == Spec => []GlSize
<1> DEFINE Counted == IsFiniteSet(gl_sa) /\ GlSize
<1>1. Init => Counted
    BY FS_EmptySet DEF Init, GlSize
<1>2. Pages /\ Counted /\ [Next]_vars => Counted'
    <2> SUFFICES ASSUME Pages, Counted, [Next]_vars PROVE Counted'
        OBVIOUS
    <2>1. \A t \in Inserting : pagelist[t] \notin gl_sa
        BY DEF Pages, ExclusivePages, Inserting, OwnsPages, UsesPages
    <2>2. Cardinality(gl_sa) \in Nat
        BY FS_CardinalityType
    <2>3. ASSUME NEW l \in gl_sa, gl_sa' = gl_sa \ {l}, gl_size' = gl_size - 1
          PROVE  Counted'
        BY <2>2, <2>3, FS_RemoveElement DEF GlSize
    <2>4. ASSUME NEW t \in Inserting, gl_sa' = gl_sa \cup {pagelist[t]},
                 gl_size' = gl_size + 1
          PROVE  Counted'
        BY <2>1, <2>2, <2>4, FS_AddElement DEF GlSize
    <2>5. ASSUME gl_sa' = {}, gl_size' = 0 PROVE Counted'
        BY <2>5, FS_EmptySet DEF GlSize
    <2>6. ASSUME gl_sa' = gl_sa, gl_size' = gl_size PROVE Counted'
        BY <2>6 DEF GlSize
    <2> QED
        BY <2>3, <2>4, <2>5, <2>6, ListSteps DEF Pages, ListKept
<1>3. Init => Pages
    BY ShapeInit, ExclusiveInit DEF Pages
<1>4. Pages /\ [Next]_vars => Pages'
    BY ShapeNext, ExclusiveNext DEF Pages
<1>5. Counted => GlSize
    OBVIOUS
<1> QED
    BY <1>1, <1>2, <1>3, <1>4, <1>5, PTL DEF Spec

-----------------------------------------------------------------------------
(***************************************************************************)
(* Why the stack that sa_fork copies stays the parent's during the copy,   *)
(* careless clients included.                                              *)
(***************************************************************************)

\* The parent of a running sa_fork waits in fork(), or closes the device as its
\* process is killed there.  Its process is not running sa_fork itself.
ParentWaits ==
    \A t \in Threads : Forking(t) =>
        /\ ppid[t] \in Threads
        /\ pc[ppid[t]] = "idle" \/ op[ppid[t]] = "destroy"
        /\ \A u \in Threads : Forking(u) => Group[ppid[t]] # Group[u]

\* During the copy the caller is a reader of its parent's table.  No owner but
\* a slot of that table can have the source, and then the slot is the parent's.
Source(u) ==
    /\ u \in readers[parent[u]]
    /\ src[u] \in allocated \ gl_sa
    /\ \A v \in Threads : pc[v] \in OwnsPages => pagelist[v] # src[u]
    /\ \A d \in Descs, i \in Ids :
            Registered(d, i) /\ threads[d][i].pagelist = src[u]
                => d = parent[u] /\ threads[d][i].tid = ppid[u]

SourceHeld == \A t \in Threads : pc[t] = "fork_copy" => Source(t)

\* The inductive invariant of the copy.
ForkInv == Pages /\ ParentWaits /\ SourceHeld

\* What a step does to the threads that wait for a fork.
LEMMA ParentWaitsNext == Shape /\ ParentWaits /\ [Next]_vars => ParentWaits'
<1> SUFFICES ASSUME Shape, ParentWaits, [Next]_vars PROVE ParentWaits'
    OBVIOUS
<1>0. LocalSorts
    BY DEF Shape, TypeOK
<1> USE DEF ParentWaits, Forking, Goto, Fail, descVars, pageVars, localVars,
        userVars, Ready, Blocked
<1>1. ASSUME NEW t \in Threads, AllocCreate(t) \/ UserWrite(t)
      PROVE ParentWaits'
    BY <1>1 DEF AllocCreate, UserWrite
<1>2. ASSUME NEW t \in Threads, AllocDestroy(t) PROVE ParentWaits'
    BY <1>0, <1>2 DEF AllocDestroy, LocalSorts
<1>3. ASSUME NEW t \in Threads, SaAlloc(t) PROVE ParentWaits'
    BY <1>0, <1>3 DEF SaAlloc, FindAlloc, LocalSorts
<1>4. ASSUME NEW t \in Threads, NEW i \in Ids, SaFree(t, i) PROVE ParentWaits'
    BY <1>0, <1>4 DEF SaFree, FindAlloc, LocalSorts
<1>5. ASSUME NEW t \in Threads, NEW p \in Threads, SaFork(t, p)
      PROVE ParentWaits'
    BY <1>0, <1>5 DEF SaFork, FindAlloc, LocalSorts
<1>6. ASSUME NEW t \in Threads, Return(t) PROVE ParentWaits'
    BY <1>0, <1>6 DEF Return, LocalSorts
<1>7. ASSUME NEW t \in Threads, Step(t), ~Return(t) PROVE ParentWaits'
    <2>0. CASE SaForkLookup(t)
        <3>1. /\ pc[t] = "fork_lookup" /\ op[t] = "fork"
              /\ \A u \in Threads \ {t} :
                    pc'[u] = pc[u] /\ op'[u] = op[u] /\ ppid'[u] = ppid[u]
              /\ (op'[t] = op[t] /\ ppid'[t] = ppid[t]) \/ op'[t] = "none"
            BY <1>0, <2>0 DEF SaForkLookup, LocalSorts, Shape, OpAt
        <3> QED
            BY <1>0, <3>1
    <2>1. CASE ~SaForkLookup(t)
        <3>1. op' = op /\ ppid' = ppid /\ pc[t] # "idle"
            BY <1>7, <2>1 DEF Step, AllocPut, AllocGet, GlAllocStack,
                   GlFreeCheck, GlFreeInsert, Map, XaAlloc, SaAllocStore,
                   EraseSlot, SaFreeErase, SaFreeUnmap, SaForkParent,
                   SaForkCopy, SaForkInsert
        <3>2. \A u \in Threads \ {t} : pc'[u] = pc[u]
            BY <1>0, <1>7, <2>1 DEF Step, AllocPut, AllocGet, GlAllocStack,
                   GlFreeCheck, GlFreeInsert, Map, XaAlloc, SaAllocStore,
                   EraseSlot, SaFreeErase, SaFreeUnmap, SaForkParent,
                   SaForkCopy, SaForkInsert, LocalSorts
        <3> QED
            BY <3>1, <3>2
    <2> QED
        BY <2>0, <2>1
<1>8. CASE VmaFree \/ UNCHANGED vars
    BY <1>8 DEF VmaFree, vars
<1> QED
    BY <1>1, <1>2, <1>3, <1>4, <1>5, <1>6, <1>7, <1>8 DEF Next, KernelNext

\* A copy of u in progress goes on with its locals and its read lock.
CopyKept(u) ==
    /\ pc[u] = "fork_copy"
    /\ src'[u] = src[u] /\ ppid'[u] = ppid[u] /\ parent'[u] = parent[u]
    /\ u \in readers[parent[u]] => u \in readers'[parent[u]]

\* Only SaForkLookup starts a copy, and nobody else drops its read lock.
LEMMA CopiesKept ==
    ASSUME Shape, [Next]_vars, NEW u \in Threads, pc'[u] = "fork_copy",
           ~SaForkLookup(u)
    PROVE  CopyKept(u)
<1>0. LocalSorts /\ DescSorts /\ NoNullDeref
    BY DEF Shape, TypeOK
<1> USE DEF CopyKept, LocalSorts, Goto, Fail, descVars, pageVars, localVars,
        userVars, Ready
<1>1. ASSUME NEW t \in Threads, AllocCreate(t) \/ UserWrite(t)
      PROVE CopyKept(u)
    BY <1>0, <1>1 DEF AllocCreate, UserWrite
<1>2. ASSUME NEW t \in Threads, AllocDestroy(t) PROVE CopyKept(u)
    BY <1>0, <1>2 DEF AllocDestroy
<1>3. ASSUME NEW t \in Threads, SaAlloc(t) PROVE CopyKept(u)
    BY <1>0, <1>3 DEF SaAlloc, FindAlloc
<1>4. ASSUME NEW t \in Threads, NEW i \in Ids, SaFree(t, i) PROVE CopyKept(u)
    BY <1>0, <1>4 DEF SaFree, FindAlloc
<1>5. ASSUME NEW t \in Threads, NEW p \in Threads, SaFork(t, p)
      PROVE CopyKept(u)
    BY <1>0, <1>5 DEF SaFork, FindAlloc
<1>6. ASSUME NEW t \in Threads, Return(t) PROVE CopyKept(u)
    BY <1>0, <1>6 DEF Return
<1>7. ASSUME NEW t \in Threads, AllocPut(t) \/ AllocGet(t) PROVE CopyKept(u)
    BY <1>0, <1>7 DEF AllocPut, AllocGet
<1>8. ASSUME NEW t \in Threads, GlAllocStack(t) PROVE CopyKept(u)
    BY <1>0, <1>8 DEF GlAllocStack
<1>9. ASSUME NEW t \in Threads, GlFreeCheck(t) \/ GlFreeInsert(t)
      PROVE CopyKept(u)
    BY <1>0, <1>9 DEF GlFreeCheck, GlFreeInsert, AfterGlFree
<1>10. ASSUME NEW t \in Threads, Map(t) PROVE CopyKept(u)
    BY <1>0, <1>10 DEF Map
<1>11. ASSUME NEW t \in Threads, XaAlloc(t) PROVE CopyKept(u)
    BY <1>0, <1>11 DEF XaAlloc
<1>12. ASSUME NEW t \in Threads, SaAllocStore(t) \/ EraseSlot(t)
      PROVE CopyKept(u)
    BY <1>0, <1>12 DEF SaAllocStore, EraseSlot
<1>13. ASSUME NEW t \in Threads, SaFreeErase(t) \/ SaFreeUnmap(t)
      PROVE CopyKept(u)
    BY <1>0, <1>13 DEF SaFreeErase, SaFreeUnmap
<1>14. ASSUME NEW t \in Threads, SaForkParent(t) \/ SaForkInsert(t)
      PROVE CopyKept(u)
    BY <1>0, <1>14 DEF SaForkParent, SaForkInsert
<1>15. ASSUME NEW t \in Threads, SaForkLookup(t) PROVE CopyKept(u)
    <2>1. t # u /\ parent[t] \in Descs
        BY <1>0, <1>15
           DEF SaForkLookup, NoNullDeref, UsesParent, UsesPages, UsesAlloc
    <2>2. /\ pc'[u] = pc[u] /\ src'[u] = src[u]
          /\ ppid'[u] = ppid[u] /\ parent' = parent
        BY <1>0, <1>15, <2>1 DEF SaForkLookup
    <2>3. parent[u] \in Descs
        BY <1>0, <2>2 DEF NoNullDeref, UsesParent
    <2>4. \/ readers' = readers
          \/ readers' = [readers EXCEPT ![parent[t]] = @ \cup {t}]
        BY <1>15 DEF SaForkLookup
    <2>5. readers[parent[u]] \subseteq readers'[parent[u]]
        <3>1. readers \in [Descs -> SUBSET Threads]
            BY <1>0 DEF DescSorts
        <3> QED
            BY <2>1, <2>3, <2>4, <3>1
    <2> QED
        BY <2>2, <2>5
<1>16. ASSUME NEW t \in Threads, SaForkCopy(t) PROVE CopyKept(u)
    <2>1. t # u /\ parent[t] \in Descs
        BY <1>0, <1>16 DEF SaForkCopy, NoNullDeref, UsesParent
    <2>2. /\ pc'[u] = pc[u] /\ src'[u] = src[u]
          /\ ppid' = ppid /\ parent' = parent
        BY <1>0, <1>16, <2>1 DEF SaForkCopy
    <2>3. parent[u] \in Descs
        BY <1>0, <2>2 DEF NoNullDeref, UsesParent
    <2>4. u \in readers[parent[u]] => u \in readers'[parent[u]]
        BY <1>0, <1>16, <2>1, <2>3 DEF DescSorts, SaForkCopy, UpRead
    <2> QED
        BY <2>2, <2>4
<1>17. CASE VmaFree \/ UNCHANGED vars
    BY <1>0, <1>17 DEF VmaFree, vars
<1> QED
    BY <1>1, <1>2, <1>3, <1>4, <1>5, <1>6, <1>7, <1>8, <1>9, <1>10, <1>11,
       <1>12, <1>13, <1>14, <1>15, <1>16, <1>17 DEF Next, KernelNext, Step

\* The lookup of sa_fork finds a source that only the parent's slot owns.
LEMMA SourceFound ==
    ASSUME Pages, NEW u \in Threads, SaForkLookup(u), pc'[u] = "fork_copy"
    PROVE  Source(u)'
<1>0. /\ LocalSorts /\ DescSorts /\ NoNullDeref /\ ExclusivePages
      /\ parent[u] \in Descs /\ pc[u] = "fork_lookup"
    BY DEF Pages, Shape, TypeOK, SaForkLookup, NoNullDeref, UsesParent,
           LocalSorts
<1>1. PICK i \in Ids :
        /\ Registered(parent[u], i)
        /\ threads[parent[u]][i].tid = ppid[u]
        /\ src' = [src EXCEPT ![u] = threads[parent[u]][i].pagelist]
        /\ readers' = [readers EXCEPT ![parent[u]] = @ \cup {u}]
    BY <1>0 DEF SaForkLookup, Registered, Goto, Fail, LocalSorts
<1>2. /\ threads' = threads /\ gl_sa' = gl_sa /\ allocated' = allocated
      /\ pagelist' = pagelist /\ parent' = parent /\ ppid' = ppid
      /\ \A v \in Threads : pc'[v] \in OwnsPages => pc[v] \in OwnsPages
    BY <1>0 DEF SaForkLookup, pageVars, Goto, Fail, LocalSorts, OwnsPages,
                UsesPages
<1>3. src'[u] = threads[parent[u]][i].pagelist /\ u \in readers'[parent[u]]
    BY <1>0, <1>1 DEF LocalSorts, DescSorts
<1> QED
    BY <1>0, <1>1, <1>2, <1>3 DEF Source, Registered, ExclusivePages

\* Every step leaves the source of a running copy alone.
LEMMA SourceHeldNext ==
    ASSUME ForkInv, [Next]_vars, NEW u \in Threads, CopyKept(u),
           pc'[u] = "fork_copy"
    PROVE  Source(u)'
<1>0. /\ Shape /\ ExclusivePages /\ Source(u) /\ Forking(u)
      /\ ppid[u] \in Threads /\ parent[u] \in Descs
      /\ pc[ppid[u]] = "idle" \/ op[ppid[u]] = "destroy"
    BY DEF ForkInv, Pages, SourceHeld, Source, CopyKept, Shape, OpAt, Forking,
           ParentWaits, TypeOK, NoNullDeref, UsesParent, LocalSorts
<1>1. /\ u \in readers'[parent[u]] /\ src'[u] = src[u] /\ ppid'[u] = ppid[u]
      /\ parent'[u] = parent[u]
    BY <1>0 DEF CopyKept, Source
<1>2. ASSUME NoNewOwner PROVE Source(u)'
    BY <1>0, <1>1, <1>2 DEF Source, NoNewOwner, Registered, OwnsPages,
                            UsesPages
<1>3. ASSUME NEW t \in Threads, GlAllocStack(t) PROVE Source(u)'
    <2>1. \/ pc'[t] \notin OwnsPages
          \/ pagelist'[t] \in gl_sa \cup (Pagelists \ allocated)
        BY <1>0, <1>3, GlAllocEffect
    <2>2. src[u] \in allocated' \ gl_sa'
        BY <1>0, <1>3, GlAllocEffect DEF Source
    <2>3. threads' = threads /\ OthersKeep(t)
        BY <1>0, <1>3, GlAllocEffect
    <2> QED
        BY <1>0, <1>1, <2>1, <2>2, <2>3 DEF Source, Registered, OthersKeep
<1>4. ASSUME NEW t \in Threads, GlFreeCheck(t) PROVE Source(u)'
    BY <1>0, <1>1, <1>4, GlFreeEffect DEF Source, Registered, OthersKeep
<1>5. ASSUME NEW t \in Threads, GlFreeInsert(t) PROVE Source(u)'
    BY <1>0, <1>1, <1>5, GlInsertEffect DEF Source, Registered, OthersKeep
<1>6. ASSUME NEW t \in Threads, SaAllocStore(t) \/ SaForkInsert(t)
      PROVE  Source(u)'
    <2>1. CASE threads' = threads /\ pagelist' = pagelist
        BY <1>0, <1>1, <1>6, <2>1, RegisterEffect
           DEF Source, Registered, OthersKeep
    <2>2. CASE /\ SlotBecomes(alloc[t], id[t],
                              [tid |-> t, pagelist |-> pagelist[t]])
               /\ pc'[t] \notin OwnsPages
        BY <1>0, <1>1, <1>6, <2>2, RegisterEffect
           DEF Source, Registered, OthersKeep, SlotBecomes
    <2> QED
        BY <1>0, <1>6, <2>1, <2>2, RegisterEffect
<1>7. ASSUME NEW t \in Threads, EraseSlot(t) PROVE Source(u)'
    <2>1. /\ OthersKeep(t) /\ gl_sa' = gl_sa /\ allocated' = allocated
          /\ pagelist' = pagelist /\ alloc[t] \in Descs /\ id[t] \in Ids
          /\ SlotBecomes(alloc[t], id[t], NULL)
        BY <1>0, <1>7, EraseEffect
    <2>2. t # ppid[u]
        BY <1>0, <1>7 DEF EraseSlot, Shape, OpAt
    <2>3. ASSUME pc'[t] \in OwnsPages PROVE pagelist[t] # src[u]
        <3>1. /\ threads[alloc[t]][id[t]] =
                    [tid |-> t, pagelist |-> pagelist[t]]
              /\ pagelist[t] \in Pagelists
            BY <1>0, <1>7, <2>3, EraseEffect
        <3>2. Registered(alloc[t], id[t]) /\ threads[alloc[t]][id[t]].tid = t
            BY <3>1 DEF Registered, ThreadDesc
        <3> QED
            BY <1>0, <2>1, <2>2, <3>1, <3>2 DEF Source
    <2>4. \A v \in Threads : pc'[v] \in OwnsPages => pagelist'[v] # src[u]
        BY <1>0, <2>1, <2>3 DEF Source, OthersKeep
    <2> QED
        BY <1>0, <1>1, <2>1, <2>4, Constants
           DEF Source, Registered, SlotBecomes
<1>8. ASSUME NEW t \in Threads, SaFreeErase(t) PROVE Source(u)'
    <2>1. /\ OthersKeep(t) /\ gl_sa' = gl_sa /\ allocated' = allocated
          /\ alloc[t] \in Descs /\ id[t] \in Ids
          /\ SlotBecomes(alloc[t], id[t], NULL)
        BY <1>0, <1>8, FreeEffect
    <2>2. alloc[t] # parent[u]
        BY <1>0, <1>8 DEF SaFreeErase, CanWriteLock, Source
    <2>3. ASSUME pc'[t] \in OwnsPages PROVE pagelist'[t] # src[u]
        BY <1>0, <1>8, <2>1, <2>2, <2>3, FreeEffect DEF Source
    <2>4. \A v \in Threads : pc'[v] \in OwnsPages => pagelist'[v] # src[u]
        BY <1>0, <2>1, <2>3 DEF Source, OthersKeep
    <2> QED
        BY <1>0, <1>1, <2>1, <2>4, Constants
           DEF Source, Registered, SlotBecomes
<1>9. ~VmaFree
    BY DEF VmaFree, CopyKept
<1>10. UNCHANGED vars => NoNewOwner
    BY DEF vars, NoNewOwner, descVars, pageVars, localVars
<1> QED
    BY <1>0, <1>2, <1>3, <1>4, <1>5, <1>6, <1>7, <1>8, <1>9, <1>10, QuietSteps
       DEF Next, KernelNext, Step

\* No copy is in progress when the module is loaded.
LEMMA ForkInvInit == Init => ForkInv
<1>1. Init => Pages
    BY ShapeInit, ExclusiveInit DEF Pages
<1>2. Init => ParentWaits /\ SourceHeld
    BY DEF Init, ParentWaits, Forking, SourceHeld
<1> QED
    BY <1>1, <1>2 DEF ForkInv

\* Every step of every operation leaves the sources to the copies.
LEMMA ForkInvNext == ForkInv /\ [Next]_vars => ForkInv'
<1> SUFFICES ASSUME ForkInv, [Next]_vars PROVE ForkInv'
    OBVIOUS
<1>1. Pages' /\ ParentWaits'
    BY ShapeNext, ExclusiveNext, ParentWaitsNext DEF ForkInv, Pages
<1>2. ASSUME NEW u \in Threads, pc'[u] = "fork_copy" PROVE Source(u)'
    BY <1>2, CopiesKept, SourceFound, SourceHeldNext DEF ForkInv, Pages
<1>3. SourceHeld'
    BY <1>2 DEF SourceHeld
<1> QED
    BY <1>1, <1>3 DEF ForkInv

\* While sa_fork copies the parent's stack, no sa_free of another thread, no
\* failing operation and no reuse by gl_alloc_stack gets hold of it: the read
\* lock on al_lock, the wait of the parent in fork() and the exclusive owners of
\* pagelists suffice, even if the parent's process frees areas it does not hold.
THEOREM AreaForkSource == Spec => []ForkSourceStable
<1>1. ForkInv => ForkSourceStable
    BY DEF ForkInv, SourceHeld, Source, ForkSourceStable
<1> QED
    BY <1>1, ForkInvInit, ForkInvNext, PTL DEF Spec

-----------------------------------------------------------------------------
(***************************************************************************)
(* The references to the allocator descriptors: kref covers every          *)
(* reference somebody will drop, whatever fails and however careless the   *)
(* clients are, so no descriptor is freed while an operation uses it.      *)
(***************************************************************************)

\* The references to d, by who has them.
Table(d)   == {g \in Tgids : sa_allocators[g] = d}
Slots(d)   == {i \in Ids : Registered(d, i)}
Holders(d) == {t \in Threads : pc[t] \in HoldsRef /\ alloc[t] = d}

\* An operation works on the descriptor sa_allocators has for its process, which
\* no close of the device takes out meanwhile.  The exception is that close.
Pinned ==
    \A t \in Threads :
        /\ op[t] = "destroy" => pc[t] \in {"put", "ret"}
        /\ pc[t] \in UsesAlloc /\ op[t] # "destroy" =>
                sa_allocators[Group[t]] = alloc[t]

\* The descriptor sa_fork found for its parent is that of the parent's process,
\* be it closed by now or not.
ParentOwns ==
    \A t \in Threads :
        pc[t] \in UsesParent \/ (pc[t] = "stack" /\ op[t] = "fork") =>
            tgid[parent[t]] = Group[ppid[t]]

\* A descriptor that is not live has no references left.
LiveRefs == \A d \in Descs : kref[d] > 0 => desc[d] = "live"

\* The inductive invariant of the references.
Refs == Shape /\ ParentWaits /\ Pinned /\ ParentOwns /\ LiveRefs /\ RefsCovered
-----------------------------------------------------------------------------
\* The three sets of references are finite: a process has one entry in
\* sa_allocators.
LEMMA RefSets ==
    ASSUME Shape, NEW d \in Descs
    PROVE  /\ IsFiniteSet(Table(d)) /\ Cardinality(Table(d)) \in Nat
           /\ IsFiniteSet(Slots(d)) /\ Cardinality(Slots(d)) \in Nat
           /\ IsFiniteSet(Holders(d)) /\ Cardinality(Holders(d)) \in Nat
           /\ References(d) = Cardinality(Table(d)) + Cardinality(Slots(d))
                              + Cardinality(Holders(d))
<1>1. IsFiniteSet(Table(d))
    <2>1. \A g \in Table(d) : g = tgid[d]
        BY Constants DEF Shape, TypeOK, OwnDesc, DescSorts, Table
    <2>2. Table(d) \in SUBSET {tgid[d]}
        BY <2>1
    <2> QED
        BY <2>2, FS_Singleton, FS_Subset
<1>2. IsFiniteSet(Slots(d))
    <2>1. Slots(d) \in SUBSET (0 .. THREADS_LIMIT)
        BY DEF Slots, Ids
    <2>2. IsFiniteSet(0 .. THREADS_LIMIT)
        BY Constants, FS_Interval
    <2> QED
        BY <2>1, <2>2, FS_Subset
<1>3. IsFiniteSet(Holders(d))
    <2>1. Holders(d) \in SUBSET Threads
        BY DEF Holders
    <2> QED
        BY <2>1, Constants, FS_Subset
<1>4. References(d) = Cardinality(Table(d)) + Cardinality(Slots(d))
                      + Cardinality(Holders(d))
    BY DEF References, Table, Slots, Holders
<1> QED
    BY <1>1, <1>2, <1>3, <1>4, FS_CardinalityType

\* The references to d are as before.
SameRefs(d) ==
    /\ kref'[d] = kref[d]
    /\ Table(d)' = Table(d) /\ Slots(d)' = Slots(d) /\ Holders(d)' = Holders(d)

\* Then so is their number.
LEMMA SameRefsCount ==
    ASSUME NEW d \in Descs, SameRefs(d)
    PROVE  References(d)' = References(d)
<1>1. References(d)' = Cardinality(Table(d)') + Cardinality(Slots(d)')
                       + Cardinality(Holders(d)')
    BY DEF References, Table, Slots, Holders
<1>2. References(d) = Cardinality(Table(d)) + Cardinality(Slots(d))
                      + Cardinality(Holders(d))
    BY DEF References, Table, Slots, Holders
<1> QED
    BY <1>1, <1>2 DEF SameRefs

\* Threads other than t neither take nor drop a reference.
OthersHold(t) ==
    \A u \in Threads \ {t} : pc'[u] = pc[u] /\ alloc'[u] = alloc[u]

\* What a step of t does to the holders of references.
LEMMA HoldersStep ==
    ASSUME NEW t \in Threads, OthersHold(t), NEW d \in Descs
    PROVE  /\ (pc[t] \in HoldsRef /\ alloc[t] = d) = (pc'[t] \in HoldsRef /\ alloc'[t] = d)
                => Holders(d)' = Holders(d)
           /\ pc'[t] \in HoldsRef /\ alloc'[t] = d => Holders(d)' = Holders(d) \cup {t}
           /\ ~(pc'[t] \in HoldsRef /\ alloc'[t] = d) => Holders(d)' = Holders(d) \ {t}
BY DEF OthersHold, Holders, HoldsRef, UsesAlloc, Labels

\* The steps in which no reference changes hands.
LEMMA QuietRefs ==
    ASSUME Shape, NEW t \in Threads, NEW d \in Descs,
           \/ Map(t) \/ SaAlloc(t) \/ XaAlloc(t) \/ GlAllocStack(t)
           \/ GlFreeCheck(t) \/ GlFreeInsert(t)
           \/ (\E i \in Ids : SaFree(t, i)) \/ SaFreeUnmap(t)
           \/ (\E p \in Threads : SaFork(t, p)) \/ SaForkParent(t)
           \/ SaForkLookup(t) \/ SaForkCopy(t) \/ Return(t) \/ UserWrite(t)
    PROVE  SameRefs(d)
<1> USE DEF Shape, TypeOK, LocalSorts, Goto, Fail, descVars, pageVars, localVars,
        userVars, Ready
<1> DEFINE Held == (pc[t] \in HoldsRef /\ alloc[t] = d)
                        = (pc'[t] \in HoldsRef /\ alloc'[t] = d)
<1>1. kref' = kref /\ sa_allocators' = sa_allocators
    BY DEF Map, SaAlloc, XaAlloc, GlAllocStack, GlFreeCheck, GlFreeInsert, SaFree,
           SaFreeUnmap, SaFork, SaForkParent, SaForkLookup, SaForkCopy, Return,
           UserWrite
<1>2. Slots(d)' = Slots(d)
    <2>1. CASE XaAlloc(t)
        <3>1. alloc[t] \in Descs
            BY <2>1 DEF XaAlloc, NoNullDeref, UsesAlloc, Labels
        <3>2. ASSUME NEW i \in Ids, threads[alloc[t]][i] = NULL,
                     threads' = [threads EXCEPT ![alloc[t]][i] = XA_ZERO],
                     NEW j \in Ids
              PROVE  threads'[d][j] \in ThreadDesc <=> threads[d][j] \in ThreadDesc
            BY <3>1, <3>2, Constants DEF DescSorts
        <3>3. ASSUME NEW j \in Ids
              PROVE  threads'[d][j] \in ThreadDesc <=> threads[d][j] \in ThreadDesc
            BY <2>1, <3>2 DEF XaAlloc
        <3> QED
            BY <3>3 DEF Slots, Registered
    <2>2. CASE ~XaAlloc(t)
        <3>1. threads' = threads
            BY <2>2 DEF Map, SaAlloc, GlAllocStack, GlFreeCheck, GlFreeInsert, SaFree,
                   SaFreeUnmap, SaFork, SaForkParent, SaForkLookup, SaForkCopy,
                   Return, UserWrite
        <3> QED
            BY <3>1 DEF Slots, Registered
    <2> QED
        BY <2>1, <2>2
<1>3. OthersHold(t)
    BY DEF OthersHold, Map, SaAlloc, XaAlloc, GlAllocStack, GlFreeCheck, GlFreeInsert,
           SaFree, FindAlloc, SaFreeUnmap, SaFork, SaForkParent, SaForkLookup,
           SaForkCopy, Return, UserWrite
<1>4. Held
    <2> USE DEF HoldsRef, UsesAlloc, Labels
    <2>1. CASE SaAlloc(t)
        BY <2>1 DEF SaAlloc, FindAlloc
    <2>2. ASSUME NEW i \in Ids, SaFree(t, i) PROVE Held
        BY <2>2 DEF SaFree, FindAlloc
    <2>3. ASSUME NEW p \in Threads, SaFork(t, p) PROVE Held
        BY <2>3 DEF SaFork, FindAlloc
    <2>4. CASE Return(t) \/ UserWrite(t)
        BY <2>4 DEF Return, UserWrite
    <2>5. CASE Map(t)
        BY <2>5 DEF Map
    <2>6. CASE XaAlloc(t)
        BY <2>6 DEF XaAlloc
    <2>7. CASE GlAllocStack(t)
        BY <2>7 DEF GlAllocStack
    <2>8. CASE GlFreeCheck(t) \/ GlFreeInsert(t)
        BY <2>8 DEF GlFreeCheck, GlFreeInsert, AfterGlFree
    <2>9. CASE SaFreeUnmap(t)
        BY <2>9 DEF SaFreeUnmap
    <2>10. CASE SaForkParent(t)
        BY <2>10 DEF SaForkParent
    <2>11. CASE SaForkLookup(t)
        BY <2>11 DEF SaForkLookup
    <2>12. CASE SaForkCopy(t)
        BY <2>12 DEF SaForkCopy
    <2> QED
        BY <2>1, <2>2, <2>3, <2>4, <2>5, <2>6, <2>7, <2>8, <2>9, <2>10, <2>11, <2>12
<1>5. Holders(d)' = Holders(d)
    BY <1>3, <1>4, HoldersStep
<1> QED
    BY <1>1, <1>2, <1>5 DEF SameRefs, Table

-----------------------------------------------------------------------------
(***************************************************************************)
(* How the number of references follows the sets.                          *)
(***************************************************************************)

\* References in the next state, by who has them.
LEMMA RefsAfter ==
    ASSUME NEW d \in Descs
    PROVE  References(d)' = Cardinality(Table(d)') + Cardinality(Slots(d)')
                            + Cardinality(Holders(d)')
BY DEF References, Table, Slots, Holders

\* A descriptor without references is nowhere.
LEMMA NoRefs ==
    ASSUME Shape, RefsCovered, NEW d \in Descs, ~(kref[d] > 0)
    PROVE  Table(d) = {} /\ Slots(d) = {} /\ Holders(d) = {}
<1>1. kref[d] \in Int /\ kref[d] >= References(d)
    BY DEF Shape, TypeOK, DescSorts, RefsCovered
<1>2. /\ Cardinality(Table(d)) \in Nat /\ Cardinality(Slots(d)) \in Nat
      /\ Cardinality(Holders(d)) \in Nat
      /\ References(d) = Cardinality(Table(d)) + Cardinality(Slots(d))
                         + Cardinality(Holders(d))
    BY RefSets
<1>3. /\ Cardinality(Table(d)) = 0 /\ Cardinality(Slots(d)) = 0
      /\ Cardinality(Holders(d)) = 0
    BY <1>1, <1>2
<1> QED
    BY <1>3, RefSets, FS_EmptySet

\* An entry in sa_allocators or an operation that holds a reference keeps kref
\* above zero.
LEMMA HasRefs ==
    ASSUME Shape, RefsCovered, NEW d \in Descs, Table(d) # {} \/ Holders(d) # {}
    PROVE  kref[d] > 0
BY NoRefs

-----------------------------------------------------------------------------
(***************************************************************************)
(* The steps in which a reference changes hands.                           *)
(***************************************************************************)

\* kref covers the references after a step too.
Covered(d) == kref'[d] >= References(d)'

\* The step changes kref by as much as the number of references.
Exact(d) == kref[d] = References(d) => kref'[d] = References(d)'

\* A slot that sa_alloc is about to fill or to give up is not registered.
OnlyReserved(t) == pc[t] \in {"store", "erase"} => ~Registered(alloc[t], id[t])

\* A step that changes no reference to d and not its kref.
LEMMA SameCovered ==
    ASSUME RefsCovered, NEW d \in Descs, SameRefs(d)
    PROVE  Covered(d) /\ Exact(d)
BY SameRefsCount DEF Covered, Exact, SameRefs, RefsCovered

\* alloc_create: the reference of the new descriptor is for its place in
\* sa_allocators.
LEMMA CreateCovers ==
    ASSUME Refs, NEW t \in Threads, AllocCreate(t), NEW d \in Descs
    PROVE  Covered(d) /\ Exact(d)
<1>0. Shape /\ RefsCovered /\ LiveRefs /\ DescSorts /\ Group[t] \in Tgids
    BY Constants DEF Refs, Shape, TypeOK
<1>1. PICK c \in Descs :
        /\ desc[c] = "none" /\ sa_allocators[Group[t]] = NULL
        /\ kref' = [kref EXCEPT ![c] = 1]
        /\ sa_allocators' = [sa_allocators EXCEPT ![Group[t]] = c]
        /\ threads' = threads /\ pc' = pc /\ alloc' = alloc
    BY DEF AllocCreate, localVars
<1>2. Slots(d)' = Slots(d) /\ Holders(d)' = Holders(d)
    BY <1>1 DEF Slots, Registered, Holders
<1>3. CASE d = c
    <2>1. Table(d) = {} /\ Slots(d) = {} /\ Holders(d) = {}
        BY <1>0, <1>1, <1>3, NoRefs DEF LiveRefs
    <2>2. Table(d)' = {Group[t]}
        BY <1>0, <1>1, <1>3, <2>1 DEF Table, DescSorts
    <2>3. References(d)' = 1 + 0 + 0
        BY <1>2, <2>1, <2>2, RefsAfter, FS_EmptySet, FS_Singleton
    <2> QED
        BY <1>0, <1>1, <1>3, <2>3 DEF Covered, Exact, DescSorts
<1>4. CASE d # c
    <2>1. Table(d)' = Table(d) /\ kref'[d] = kref[d]
        BY <1>0, <1>1, <1>4, Constants DEF Table, DescSorts
    <2> QED
        BY <1>0, <1>2, <2>1, SameCovered DEF SameRefs
<1> QED
    BY <1>3, <1>4

\* alloc_destroy: the reference of sa_allocators passes to the caller, who puts
\* it.
LEMMA DestroyCovers ==
    ASSUME Refs, NEW t \in Threads, AllocDestroy(t), NEW d \in Descs
    PROVE  Covered(d) /\ Exact(d)
<1>0. Shape /\ RefsCovered /\ DescSorts /\ LocalSorts /\ Group[t] \in Tgids
    BY Constants DEF Refs, Shape, TypeOK
<1>1. /\ sa_allocators[Group[t]] \in Descs /\ pc[t] = "idle"
      /\ kref' = kref /\ threads' = threads
      /\ sa_allocators' = [sa_allocators EXCEPT ![Group[t]] = NULL]
      /\ pc' = [pc EXCEPT ![t] = "put"]
      /\ alloc' = [alloc EXCEPT ![t] = sa_allocators[Group[t]]]
    BY <1>0 DEF AllocDestroy, Goto, Fail, DescSorts
<1>2. Slots(d)' = Slots(d) /\ OthersHold(t) /\ t \notin Holders(d)
    BY <1>0, <1>1
       DEF Slots, Registered, OthersHold, LocalSorts, Holders, HoldsRef, UsesAlloc
<1>3. pc'[t] \in HoldsRef /\ alloc'[t] = sa_allocators[Group[t]]
    BY <1>0, <1>1 DEF LocalSorts, HoldsRef, UsesAlloc, Labels
<1>4. CASE d = sa_allocators[Group[t]]
    <2>1. Table(d)' = Table(d) \ {Group[t]} /\ Group[t] \in Table(d)
        BY <1>0, <1>1, <1>4, Constants DEF Table, DescSorts
    <2>2. Holders(d)' = Holders(d) \cup {t}
        BY <1>2, <1>3, <1>4, HoldersStep
    <2>3. Cardinality(Table(d)') = Cardinality(Table(d)) - 1
        BY <1>0, <2>1, RefSets, FS_RemoveElement
    <2>4. Cardinality(Holders(d)') = Cardinality(Holders(d)) + 1
        BY <1>0, <1>2, <2>2, RefSets, FS_AddElement
    <2>5. References(d)' = References(d)
        BY <1>0, <1>2, <2>3, <2>4, RefSets, RefsAfter
    <2> QED
        BY <1>0, <1>1, <2>5 DEF Covered, Exact, RefsCovered
<1>5. CASE d # sa_allocators[Group[t]]
    <2>1. Table(d)' = Table(d)
        BY <1>0, <1>1, <1>5, Constants DEF Table, DescSorts
    <2>2. Holders(d)' = Holders(d) \ {t}
        BY <1>2, <1>3, <1>5, HoldersStep
    <2> QED
        BY <1>0, <1>1, <1>2, <2>1, <2>2, SameCovered DEF SameRefs
<1> QED
    BY <1>4, <1>5

\* kref_put drops the caller's reference, kref_get_unless_zero takes one.
LEMMA CountCovers ==
    ASSUME Refs, NEW t \in Threads, AllocPut(t) \/ AllocGet(t), NEW d \in Descs
    PROVE  Covered(d) /\ Exact(d)
<1>0. /\ Shape /\ RefsCovered /\ DescSorts /\ LocalSorts /\ alloc[t] \in Descs
      /\ kref[d] \in Int /\ kref[d] >= References(d)
    BY DEF Refs, Shape, TypeOK, AllocPut, AllocGet, NoNullDeref, LocalSorts,
           DescSorts, UsesAlloc, Labels, RefsCovered
<1>1. /\ sa_allocators' = sa_allocators /\ threads' = threads /\ alloc' = alloc
      /\ OthersHold(t)
    BY <1>0 DEF AllocPut, AllocGet, Goto, Fail, OthersHold, LocalSorts
<1>2. Table(d)' = Table(d) /\ Slots(d)' = Slots(d)
    BY <1>1 DEF Table, Slots, Registered
<1>3. CASE d # alloc[t]
    <2>1. kref'[d] = kref[d]
        BY <1>0, <1>3 DEF AllocPut, AllocGet, KrefGet, DescSorts
    <2>2. Holders(d)' = Holders(d)
        BY <1>1, <1>3, HoldersStep
    <2> QED
        BY <1>0, <1>2, <2>1, <2>2, SameCovered DEF SameRefs
<1>4. CASE d = alloc[t] /\ AllocPut(t)
    <2>1. /\ kref'[d] = kref[d] - 1 /\ t \in Holders(d) /\ pc'[t] \notin HoldsRef
        BY <1>0, <1>4 DEF AllocPut, Goto, DescSorts, LocalSorts, Holders, HoldsRef,
                          UsesAlloc, Labels
    <2>2. Holders(d)' = Holders(d) \ {t}
        BY <1>1, <2>1, HoldersStep
    <2>3. Cardinality(Holders(d)') = Cardinality(Holders(d)) - 1
        BY <1>0, <2>1, <2>2, RefSets, FS_RemoveElement
    <2>4. References(d)' = References(d) - 1
        BY <1>0, <1>2, <2>3, RefSets, RefsAfter
    <2>5. References(d) \in Int
        BY <1>0, RefSets
    <2> QED
        BY <1>0, <2>1, <2>4, <2>5 DEF Covered, Exact
<1>5. CASE d = alloc[t] /\ AllocGet(t) /\ kref[d] > 0
    <2>1. /\ kref'[d] = kref[d] + 1 /\ t \notin Holders(d) /\ pc'[t] \in HoldsRef
        BY <1>0, <1>5 DEF AllocGet, KrefGet, Goto, Fail, DescSorts, LocalSorts,
                          Holders, HoldsRef, UsesAlloc, Labels
    <2>2. Holders(d)' = Holders(d) \cup {t}
        BY <1>1, <1>5, <2>1, HoldersStep
    <2>3. Cardinality(Holders(d)') = Cardinality(Holders(d)) + 1
        BY <1>0, <2>1, <2>2, RefSets, FS_AddElement
    <2>4. References(d)' = References(d) + 1
        BY <1>0, <1>2, <2>3, RefSets, RefsAfter
    <2>5. References(d) \in Int
        BY <1>0, RefSets
    <2> QED
        BY <1>0, <2>1, <2>4, <2>5 DEF Covered, Exact
<1>6. CASE d = alloc[t] /\ AllocGet(t) /\ ~(kref[d] > 0)
    <2>1. kref' = kref /\ pc[t] \notin HoldsRef /\ pc'[t] \notin HoldsRef
        BY <1>0, <1>6 DEF AllocGet, Goto, Fail, LocalSorts, HoldsRef, UsesAlloc,
                          Labels
    <2>2. Holders(d)' = Holders(d)
        BY <1>1, <2>1, HoldersStep
    <2> QED
        BY <1>0, <1>2, <2>1, <2>2, SameCovered DEF SameRefs
<1> QED
    BY <1>3, <1>4, <1>5, <1>6

\* xa_store of sa_alloc and xa_insert of sa_fork: the caller's reference passes
\* to the slot.  If the slot was registered, one reference is no more counted.
LEMMA RegisterCovers ==
    ASSUME Refs, NEW t \in Threads, SaAllocStore(t) \/ SaForkInsert(t),
           NEW d \in Descs
    PROVE  Covered(d) /\ (OnlyReserved(t) => Exact(d))
<1>0. /\ Shape /\ RefsCovered /\ LocalSorts /\ DescSorts /\ alloc[t] \in Descs
      /\ id[t] \in Ids /\ pagelist[t] \in Pagelists
      /\ kref[d] \in Int /\ kref[d] >= References(d)
    BY RegisterEffect DEF Refs, Shape, TypeOK, DescSorts, RefsCovered
<1>1. /\ kref' = kref /\ sa_allocators' = sa_allocators /\ alloc' = alloc
      /\ OthersHold(t) /\ pc[t] \in HoldsRef
    BY <1>0 DEF SaAllocStore, SaForkInsert, Goto, Fail, OthersHold, LocalSorts,
                HoldsRef, UsesAlloc, Labels
<1>2. Table(d)' = Table(d)
    BY <1>1 DEF Table
<1> DEFINE E == [tid |-> t, pagelist |-> pagelist[t]]
<1>3. E \in ThreadDesc
    BY <1>0 DEF ThreadDesc
<1>4. \/ SlotBecomes(alloc[t], id[t], E) /\ pc'[t] \notin HoldsRef
      \/ threads' = threads /\ pc'[t] \in HoldsRef
    <2>1. CASE SaAllocStore(t)
        <3>1. pc'[t] \notin HoldsRef
            BY <1>0, <2>1 DEF SaAllocStore, Goto, LocalSorts, HoldsRef, UsesAlloc
        <3>2. threads' = [threads EXCEPT ![alloc[t]][id[t]] = E]
            BY <2>1 DEF SaAllocStore
        <3> QED
            BY <1>0, <3>1, <3>2 DEF SlotBecomes, DescSorts
    <2>2. CASE SaForkInsert(t) /\ pc'[t] = "fork_map"
        <3>1. threads' = [threads EXCEPT ![alloc[t]][id[t]] = E]
            BY <1>0, <2>2 DEF SaForkInsert, Goto, Fail, LocalSorts
        <3> QED
            BY <1>0, <2>2, <3>1 DEF SlotBecomes, DescSorts, HoldsRef, UsesAlloc
    <2>3. CASE SaForkInsert(t) /\ pc'[t] # "fork_map"
        BY <1>0, <2>3 DEF SaForkInsert, Goto, Fail, LocalSorts, HoldsRef, UsesAlloc,
                          Labels
    <2> QED
        BY <2>1, <2>2, <2>3
<1>5. CASE threads' = threads /\ pc'[t] \in HoldsRef
    <2>1. Slots(d)' = Slots(d) /\ Holders(d)' = Holders(d)
        BY <1>1, <1>5, HoldersStep DEF Slots, Registered
    <2> QED
        BY <1>0, <1>1, <1>2, <2>1, SameCovered DEF SameRefs
<1>6. CASE /\ SlotBecomes(alloc[t], id[t], E) /\ pc'[t] \notin HoldsRef
           /\ d # alloc[t]
    <2>1. Slots(d)' = Slots(d)
        BY <1>6 DEF Slots, Registered, SlotBecomes
    <2>2. Holders(d)' = Holders(d)
        BY <1>1, <1>6, HoldersStep
    <2> QED
        BY <1>0, <1>1, <1>2, <2>1, <2>2, SameCovered DEF SameRefs
<1>7. CASE /\ SlotBecomes(alloc[t], id[t], E) /\ pc'[t] \notin HoldsRef
           /\ d = alloc[t]
    <2>1. Slots(d)' = Slots(d) \cup {id[t]}
        BY <1>0, <1>3, <1>7 DEF Slots, Registered, SlotBecomes
    <2>2. Holders(d)' = Holders(d) \ {t} /\ t \in Holders(d)
        BY <1>1, <1>7, HoldersStep DEF Holders
    <2>3. Cardinality(Slots(d)') <= Cardinality(Slots(d)) + 1
        <3>1. Cardinality(Slots(d)') = IF id[t] \in Slots(d) THEN Cardinality(Slots(d))
                                       ELSE Cardinality(Slots(d)) + 1
            BY <1>0, <2>1, RefSets, FS_AddElement
        <3>2. Cardinality(Slots(d)) \in Nat
            BY <1>0, RefSets
        <3> QED
            BY <3>1, <3>2
    <2>4. Cardinality(Holders(d)') = Cardinality(Holders(d)) - 1
        BY <1>0, <2>2, RefSets, FS_RemoveElement
    <2>5. Cardinality(Slots(d)') \in Nat
        BY <1>0, <2>1, RefSets, FS_AddElement, FS_CardinalityType
    <2>6. References(d)' <= References(d) /\ References(d)' \in Int
        BY <1>0, <1>2, <2>3, <2>4, <2>5, RefSets, RefsAfter
    <2>7. References(d) \in Int
        BY <1>0, RefSets
    <2>8. ASSUME OnlyReserved(t) PROVE References(d)' = References(d)
        <3>1. id[t] \notin Slots(d)
            BY <1>0, <1>7, <2>8, Constants
               DEF OnlyReserved, Slots, Registered, SaAllocStore, SaForkInsert, Goto,
                   Fail, LocalSorts, HoldsRef, UsesAlloc, Labels
        <3>2. Cardinality(Slots(d)') = Cardinality(Slots(d)) + 1
            BY <1>0, <2>1, <3>1, RefSets, FS_AddElement
        <3> QED
            BY <1>0, <1>2, <2>4, <3>2, RefSets, RefsAfter
    <2> QED
        BY <1>0, <1>1, <2>6, <2>7, <2>8 DEF Covered, Exact
<1> QED
    BY <1>4, <1>5, <1>6, <1>7

\* xa_erase: the reference of a registered slot passes to the caller, of another
\* slot there is none.
LEMMA EraseCovers ==
    ASSUME Refs, NEW t \in Threads, EraseSlot(t) \/ SaFreeErase(t),
           NEW d \in Descs
    PROVE  Covered(d) /\ (OnlyReserved(t) => Exact(d))
<1>0. /\ Shape /\ RefsCovered /\ LocalSorts /\ alloc[t] \in Descs
      /\ id[t] \in Ids /\ SlotBecomes(alloc[t], id[t], NULL)
      /\ kref[d] \in Int /\ kref[d] >= References(d)
    BY EraseEffect, FreeEffect DEF Refs, Shape, TypeOK, DescSorts, RefsCovered
<1>1. /\ kref' = kref /\ sa_allocators' = sa_allocators /\ alloc' = alloc
      /\ OthersHold(t)
    BY <1>0 DEF EraseSlot, SaFreeErase, Goto, Fail, OthersHold, LocalSorts
<1>2. Table(d)' = Table(d)
    BY <1>1 DEF Table
<1>3. CASE d # alloc[t]
    <2>1. Slots(d)' = Slots(d)
        BY <1>0, <1>3 DEF Slots, Registered, SlotBecomes
    <2>2. Holders(d)' = Holders(d)
        BY <1>1, <1>3, HoldersStep
    <2> QED
        BY <1>0, <1>1, <1>2, <2>1, <2>2, SameCovered DEF SameRefs
<1>4. CASE d = alloc[t]
    <2>1. Slots(d)' = Slots(d) \ {id[t]}
        BY <1>0, <1>4, Constants DEF Slots, Registered, SlotBecomes
    <2>2. /\ Cardinality(Slots(d)') <= Cardinality(Slots(d))
          /\ id[t] \in Slots(d) =>
                Cardinality(Slots(d)') = Cardinality(Slots(d)) - 1
        <3>1. Cardinality(Slots(d)') = IF id[t] \in Slots(d)
                                       THEN Cardinality(Slots(d)) - 1
                                       ELSE Cardinality(Slots(d))
            BY <1>0, <2>1, RefSets, FS_RemoveElement
        <3>2. Cardinality(Slots(d)) \in Nat
            BY <1>0, RefSets
        <3> QED
            BY <3>1, <3>2
    <2>3. Cardinality(Slots(d)') \in Nat
        BY <1>0, <2>1, RefSets, FS_RemoveElement, FS_CardinalityType
    <2>4. \/ (pc[t] \in HoldsRef) = (pc'[t] \in HoldsRef)
          \/ id[t] \in Slots(d) /\ pc[t] \notin HoldsRef /\ pc'[t] \in HoldsRef
        <3>1. CASE EraseSlot(t) /\ pc[t] = "erase"
            BY <1>0, <3>1 DEF EraseSlot, Goto, LocalSorts, HoldsRef, UsesAlloc, Labels
        <3>2. CASE EraseSlot(t) /\ pc[t] = "fork_erase"
            <4>1. threads[alloc[t]][id[t]] = [tid |-> t, pagelist |-> pagelist[t]]
                BY <1>0, <3>2 DEF Shape, ForkEntry
            <4>2. pagelist[t] \in Pagelists
                BY <1>0, <3>2 DEF Shape, TypeOK, NoNullDeref, LocalSorts, UsesPages
            <4>3. id[t] \in Slots(d)
                BY <1>0, <1>4, <4>1, <4>2 DEF Slots, Registered, ThreadDesc
            <4> QED
                BY <1>0, <3>2, <4>3
                   DEF EraseSlot, Goto, LocalSorts, HoldsRef, UsesAlloc, Labels
        <3>3. CASE SaFreeErase(t)
            BY <1>0, <1>4, <3>3 DEF SaFreeErase, Goto, Fail, LocalSorts, HoldsRef,
                          UsesAlloc, Labels, Slots, Registered
        <3> QED
            BY <3>1, <3>2, <3>3 DEF EraseSlot
    <2>5. CASE (pc[t] \in HoldsRef) = (pc'[t] \in HoldsRef)
        <3>1. Holders(d)' = Holders(d)
            BY <1>1, <2>5, HoldersStep
        <3>2. References(d)' <= References(d) /\ References(d)' \in Int
            BY <1>0, <1>2, <2>2, <2>3, <3>1, RefSets, RefsAfter
        <3>3. References(d) \in Int
            BY <1>0, RefSets
        <3>4. ASSUME OnlyReserved(t) PROVE References(d)' = References(d)
            <4>1. id[t] \notin Slots(d)
                <5>1. CASE EraseSlot(t)
                    BY <1>0, <1>4, <2>5, <3>4, <5>1
                       DEF OnlyReserved, Slots, EraseSlot, Goto, LocalSorts, HoldsRef,
                           UsesAlloc, Labels
                <5>2. CASE SaFreeErase(t)
                    BY <1>0, <1>4, <2>5, <5>2
                       DEF Slots, Registered, SaFreeErase, Goto, Fail, LocalSorts,
                           HoldsRef, UsesAlloc, Labels
                <5> QED
                    BY <5>1, <5>2
            <4>2. Slots(d)' = Slots(d)
                BY <2>1, <4>1
            <4> QED
                BY <1>0, <1>2, <3>1, <4>2, RefSets, RefsAfter
        <3> QED
            BY <1>0, <1>1, <3>2, <3>3, <3>4 DEF Covered, Exact
    <2>6. CASE id[t] \in Slots(d) /\ pc[t] \notin HoldsRef /\ pc'[t] \in HoldsRef
        <3>1. Holders(d)' = Holders(d) \cup {t} /\ t \notin Holders(d)
            BY <1>1, <1>4, <2>6, HoldersStep DEF Holders
        <3>2. Cardinality(Holders(d)') = Cardinality(Holders(d)) + 1
            BY <1>0, <3>1, RefSets, FS_AddElement
        <3>3. References(d)' = References(d)
            BY <1>0, <1>2, <2>2, <2>6, <3>2, RefSets, RefsAfter
        <3> QED
            BY <1>0, <1>1, <3>3 DEF Covered, Exact
    <2> QED
        BY <2>4, <2>5, <2>6
<1> QED
    BY <1>3, <1>4

\* Whatever the step, kref covers the references, and is exact if sa_alloc finds
\* its slots as it left them.
LEMMA CoveredNext ==
    ASSUME Refs, [Next]_vars, NEW d \in Descs
    PROVE  Covered(d) /\ ((\A t \in Threads : OnlyReserved(t)) => Exact(d))
<1>0. Shape /\ RefsCovered
    BY DEF Refs
<1>1. ASSUME VmaFree \/ UNCHANGED vars PROVE SameRefs(d)
    BY <1>1 DEF VmaFree, vars, descVars, localVars, SameRefs, Table, Slots,
                Registered, Holders
<1> QED
    BY <1>0, <1>1, QuietRefs, SameCovered, CreateCovers, DestroyCovers, CountCovers,
       RegisterCovers, EraseCovers
       DEF Next, KernelNext, Step
-----------------------------------------------------------------------------
(***************************************************************************)
(* The descriptor an operation works on stays in sa_allocators.            *)
(***************************************************************************)
\* The steps inside an operation, which leave sa_allocators and the locals that
\* name descriptors alone, sa_fork's lookup of its parent's excepted.
LEMMA InnerSteps ==
    ASSUME Shape, NEW t \in Threads, Step(t), ~Return(t)
    PROVE  /\ alloc' = alloc /\ tgid' = tgid
           /\ sa_allocators' = sa_allocators /\ pc[t] \in UsesAlloc
           /\ pc[t] = "put" => pc'[t] = "ret"
           /\ \A u \in Threads \ {t} : /\ pc'[u] = pc[u] /\ parent'[u] = parent[u]
                                       /\ op'[u] = op[u] /\ ppid'[u] = ppid[u]
           /\ \/ op'[t] = op[t] /\ ppid'[t] = ppid[t]
              \/ op[t] = "fork" /\ op'[t] = "none" /\ pc'[t] = "oops"
           /\ pc'[t] \in UsesParent \/ (pc'[t] = "stack" /\ op[t] = "fork") =>
                \/ /\ pc[t] \in UsesParent \/ (pc[t] = "stack" /\ op[t] = "fork")
                   /\ parent'[t] = parent[t]
                \/ /\ parent'[t] = sa_allocators[Group[ppid[t]]]
                   /\ parent'[t] # NULL /\ op[t] = "fork"
<1>0. LocalSorts /\ OpAt
    BY DEF Shape, TypeOK
<1> USE <1>0 DEF LocalSorts, Goto, Fail, descVars, pageVars, localVars, userVars,
        UsesAlloc, UsesParent, Labels, OpAt
<1>1. CASE AllocPut(t) \/ AllocGet(t)
    BY <1>1 DEF AllocPut, AllocGet
<1>2. CASE GlAllocStack(t)
    BY <1>2 DEF GlAllocStack
<1>3. CASE GlFreeCheck(t) \/ GlFreeInsert(t)
    BY <1>3 DEF GlFreeCheck, GlFreeInsert, AfterGlFree
<1>4. CASE Map(t)
    BY <1>4 DEF Map
<1>5. CASE XaAlloc(t)
    BY <1>5 DEF XaAlloc
<1>6. CASE SaAllocStore(t) \/ EraseSlot(t)
    BY <1>6 DEF SaAllocStore, EraseSlot
<1>7. CASE SaFreeErase(t) \/ SaFreeUnmap(t)
    BY <1>7 DEF SaFreeErase, SaFreeUnmap
<1>8. CASE SaForkParent(t)
    BY <1>8 DEF SaForkParent
<1>9. CASE SaForkLookup(t)
    BY <1>9 DEF SaForkLookup
<1>10. CASE SaForkCopy(t) \/ SaForkInsert(t)
    BY <1>10 DEF SaForkCopy, SaForkInsert
<1> QED
    BY <1>1, <1>2, <1>3, <1>4, <1>5, <1>6, <1>7, <1>8, <1>9, <1>10 DEF Step

\* The device is closed when no operation of the process is in progress, so the
\* descriptor of a running operation stays.
LEMMA PinnedNext == Refs /\ [Next]_vars => Pinned'
<1> SUFFICES ASSUME Refs, [Next]_vars PROVE Pinned'
    OBVIOUS
<1>0. LocalSorts /\ DescSorts /\ NoNullDeref /\ Pinned /\ Shape
    BY DEF Refs, Shape, TypeOK
<1> USE Constants DEF Pinned, Goto, Fail, descVars, pageVars, localVars, userVars,
        Ready, UsesAlloc, Labels
<1>1. ASSUME NEW t \in Threads, AllocCreate(t) PROVE Pinned'
    BY <1>0, <1>1 DEF AllocCreate, NoNullDeref, DescSorts
<1>2. ASSUME NEW t \in Threads, AllocDestroy(t) PROVE Pinned'
    BY <1>0, <1>2 DEF AllocDestroy, LocalSorts, DescSorts
<1>3. ASSUME NEW t \in Threads, SaAlloc(t) PROVE Pinned'
    BY <1>0, <1>3 DEF SaAlloc, FindAlloc, LocalSorts
<1>4. ASSUME NEW t \in Threads, NEW i \in Ids, SaFree(t, i) PROVE Pinned'
    BY <1>0, <1>4 DEF SaFree, FindAlloc, LocalSorts
<1>5. ASSUME NEW t \in Threads, NEW p \in Threads, SaFork(t, p) PROVE Pinned'
    BY <1>0, <1>5 DEF SaFork, FindAlloc, LocalSorts
<1>6. ASSUME NEW t \in Threads, Return(t) PROVE Pinned'
    BY <1>0, <1>6 DEF Return, LocalSorts
<1>7. ASSUME NEW t \in Threads, Step(t), ~Return(t) PROVE Pinned'
    BY <1>0, <1>7, InnerSteps
<1>8. CASE VmaFree \/ (\E t \in Threads : UserWrite(t)) \/ UNCHANGED vars
    BY <1>0, <1>8 DEF VmaFree, UserWrite, vars
<1> QED
    BY <1>1, <1>2, <1>3, <1>4, <1>5, <1>6, <1>7, <1>8 DEF Next, KernelNext

\* A descriptor never changes hands.
LEMMA ParentOwnsNext == Refs /\ [Next]_vars => ParentOwns'
<1> SUFFICES ASSUME Refs, [Next]_vars PROVE ParentOwns'
    OBVIOUS
<1>0. /\ LocalSorts /\ DescSorts /\ NoNullDeref /\ OpAt /\ OwnDesc /\ ParentOwns
      /\ Shape /\ ParentWaits
    BY DEF Refs, Shape, TypeOK
<1> USE Constants DEF ParentOwns, Goto, Fail, descVars, pageVars, localVars,
        userVars, Ready, UsesParent
<1>1. ASSUME NEW u \in Threads,
             pc[u] \in UsesParent \/ (pc[u] = "stack" /\ op[u] = "fork")
      PROVE  Forking(u) /\ ppid[u] \in Threads /\ parent[u] \in Descs
    BY <1>0, <1>1 DEF OpAt, Forking, ParentWaits, NoNullDeref, LocalSorts
<1>2. ASSUME NEW t \in Threads, AllocCreate(t) PROVE ParentOwns'
    BY <1>0, <1>1, <1>2 DEF AllocCreate, DescSorts, OwnDesc
<1>3. ASSUME NEW t \in Threads, AllocDestroy(t) PROVE ParentOwns'
    BY <1>0, <1>3 DEF AllocDestroy, LocalSorts
<1>4. ASSUME NEW t \in Threads, SaAlloc(t) PROVE ParentOwns'
    BY <1>0, <1>4 DEF SaAlloc, FindAlloc, LocalSorts
<1>5. ASSUME NEW t \in Threads, NEW i \in Ids, SaFree(t, i) PROVE ParentOwns'
    BY <1>0, <1>5 DEF SaFree, FindAlloc, LocalSorts
<1>6. ASSUME NEW t \in Threads, NEW p \in Threads, SaFork(t, p) PROVE ParentOwns'
    BY <1>0, <1>6 DEF SaFork, FindAlloc, LocalSorts
<1>7. ASSUME NEW t \in Threads, Return(t) PROVE ParentOwns'
    BY <1>0, <1>7 DEF Return, LocalSorts
<1>8. ASSUME NEW t \in Threads, Step(t), ~Return(t) PROVE ParentOwns'
    <2>1. op[t] = "fork" => ppid[t] \in Threads
        BY <1>0, <1>8, InnerSteps DEF ParentWaits, Forking, UsesAlloc
    <2> QED
        BY <1>0, <1>8, <2>1, InnerSteps DEF OwnDesc
<1>9. CASE VmaFree \/ (\E t \in Threads : UserWrite(t)) \/ UNCHANGED vars
    BY <1>0, <1>9 DEF VmaFree, UserWrite, vars
<1> QED
    BY <1>2, <1>3, <1>4, <1>5, <1>6, <1>7, <1>8, <1>9 DEF Next, KernelNext

\* Only the last alloc_put frees a descriptor.
LEMMA LiveRefsNext == Refs /\ [Next]_vars => LiveRefs'
<1> SUFFICES ASSUME Refs, [Next]_vars PROVE LiveRefs'
    OBVIOUS
<1>0. LocalSorts /\ DescSorts /\ NoNullDeref /\ LiveRefs
    BY DEF Refs, Shape, TypeOK
<1> USE DEF LiveRefs, descVars
<1>1. ASSUME NEW t \in Threads, AllocCreate(t) PROVE LiveRefs'
    BY <1>0, <1>1 DEF AllocCreate, DescSorts
<1>2. ASSUME NEW t \in Threads, AllocPut(t) PROVE LiveRefs'
    <2>1. alloc[t] \in Descs
        BY <1>0, <1>2 DEF AllocPut, NoNullDeref, LocalSorts, UsesAlloc, Labels
    <2> QED
        BY <1>0, <1>2, <2>1 DEF AllocPut, DescSorts
<1>3. ASSUME NEW t \in Threads, AllocGet(t) PROVE LiveRefs'
    <2>1. alloc[t] \in Descs
        BY <1>0, <1>3 DEF AllocGet, NoNullDeref, LocalSorts, UsesAlloc, Labels
    <2> QED
        BY <1>0, <1>3, <2>1 DEF AllocGet, KrefGet, DescSorts
<1>4. CASE kref' = kref /\ desc' = desc
    BY <1>0, <1>4
<1>5. ASSUME NEW t \in Threads, Step(t), ~AllocPut(t), ~AllocGet(t)
      PROVE  kref' = kref /\ desc' = desc
    BY <1>5 DEF Step, GlAllocStack, GlFreeCheck, GlFreeInsert, Map, XaAlloc,
                SaAllocStore, EraseSlot, SaFreeErase, SaFreeUnmap, SaForkParent,
                SaForkLookup, SaForkCopy, SaForkInsert, Return
<1>6. ASSUME NEW t \in Threads,
             \/ AllocDestroy(t) \/ SaAlloc(t) \/ (\E i \in Ids : SaFree(t, i))
             \/ (\E p \in Threads : SaFork(t, p)) \/ UserWrite(t)
      PROVE  kref' = kref /\ desc' = desc
    BY <1>6 DEF AllocDestroy, SaAlloc, SaFree, SaFork, UserWrite
<1>7. VmaFree \/ UNCHANGED vars => kref' = kref /\ desc' = desc
    BY DEF VmaFree, vars
<1> QED
    BY <1>1, <1>2, <1>3, <1>4, <1>5, <1>6, <1>7 DEF Next, KernelNext
-----------------------------------------------------------------------------
\* The references at the start and after a step.
LEMMA RefsInit == Init => Refs
<1> SUFFICES ASSUME Init PROVE Refs
    OBVIOUS
<1>1. Shape
    BY ShapeInit
<1>2. ParentWaits /\ Pinned /\ ParentOwns /\ LiveRefs
    BY DEF Init, ParentWaits, Forking, Pinned, ParentOwns, LiveRefs, UsesAlloc,
           UsesParent
<1>3. ASSUME NEW d \in Descs PROVE kref[d] >= References(d)
    <2>1. Table(d) = {} /\ Slots(d) = {} /\ Holders(d) = {}
        BY Constants
           DEF Init, Table, Slots, Registered, Holders, HoldsRef, UsesAlloc
    <2>2. References(d) = 0 + 0 + 0
        BY <1>1, <2>1, RefSets, FS_EmptySet
    <2> QED
        BY <2>2 DEF Init
<1> QED
    BY <1>1, <1>2, <1>3 DEF Refs, RefsCovered

\* Every step of every operation keeps the references covered.
LEMMA RefsNext == Refs /\ [Next]_vars => Refs'
<1> SUFFICES ASSUME Refs, [Next]_vars PROVE Refs'
    OBVIOUS
<1>1. Shape' /\ ParentWaits'
    BY ShapeNext, ParentWaitsNext DEF Refs
<1>2. Pinned' /\ ParentOwns' /\ LiveRefs'
    BY PinnedNext, ParentOwnsNext, LiveRefsNext
<1>3. RefsCovered'
    BY CoveredNext DEF RefsCovered, Covered
<1> QED
    BY <1>1, <1>2, <1>3 DEF Refs

\* The references are accounted for in every behaviour.
THEOREM AreaRefs == Spec => []Refs
BY RefsInit, RefsNext, PTL DEF Spec

\* kref is never below the number of references somebody will drop, whatever
\* allocation fails in sa_alloc or sa_fork, whatever slots a careless process
\* frees, and however FREE, FORK and the close of the device interleave: no
\* reference is put twice.
THEOREM AreaRefsCovered == Spec => []RefsCovered
<1>1. Refs => RefsCovered
    BY DEF Refs
<1> QED
    BY <1>1, AreaRefs, PTL

-----------------------------------------------------------------------------
(***************************************************************************)
(* The descriptor a copy reads stays although sa_fork has no reference to  *)
(* it: a slot was registered when al_lock was taken, its reference is      *)
(* dropped only after an erasure under down_write, and if sa_alloc stores  *)
(* over the slot or erases it, both without the lock, it is never dropped. *)
(***************************************************************************)

\* More references to d than those of sa_allocators and of the operations.
Spare(d) == kref[d] > Cardinality(Table(d)) + Cardinality(Holders(d))

\* A copy in progress has a spare reference under it.
CopyRef == \A u \in Threads : pc[u] = "fork_copy" => Spare(parent[u])

\* The inductive invariant of the descriptors that copies read.
Copies == Refs /\ ForkInv /\ CopyRef

\* A registered slot is a spare reference.
LEMMA SlotSpares ==
    ASSUME Shape, RefsCovered, NEW d \in Descs, Slots(d) # {}
    PROVE  Spare(d)
<1>1. /\ Cardinality(Table(d)) \in Nat /\ Cardinality(Slots(d)) \in Nat
      /\ Cardinality(Holders(d)) \in Nat /\ Cardinality(Slots(d)) # 0
      /\ References(d) = Cardinality(Table(d)) + Cardinality(Slots(d))
                         + Cardinality(Holders(d))
    BY RefSets, FS_EmptySet
<1>2. kref[d] \in Int /\ kref[d] >= References(d)
    BY DEF Shape, TypeOK, DescSorts, RefsCovered
<1> QED
    BY <1>1, <1>2 DEF Spare

\* The ways in which the counts change.
LEMMA SpareKept ==
    ASSUME Shape, NEW d \in Descs, Spare(d), NEW t, NEW g,
           \/ /\ kref'[d] = kref[d] /\ Table(d)' = Table(d)
              /\ Holders(d)' = Holders(d) \/ Holders(d)' = Holders(d) \ {t}
           \/ /\ kref'[d] = kref[d]
              /\ g \in Table(d) /\ Table(d)' = Table(d) \ {g}
              /\ t \notin Holders(d) /\ Holders(d)' = Holders(d) \cup {t}
           \/ /\ kref'[d] = kref[d] - 1 /\ Table(d)' = Table(d)
              /\ t \in Holders(d) /\ Holders(d)' = Holders(d) \ {t}
           \/ /\ kref'[d] = kref[d] + 1 /\ Table(d)' = Table(d)
              /\ t \notin Holders(d) /\ Holders(d)' = Holders(d) \cup {t}
    PROVE  Spare(d)'
<1>1. /\ Cardinality(Table(d)) \in Nat /\ Cardinality(Holders(d)) \in Nat
      /\ IsFiniteSet(Table(d)) /\ IsFiniteSet(Holders(d)) /\ kref[d] \in Int
    BY RefSets DEF Shape, TypeOK, DescSorts
<1>2. t \in Holders(d) =>
        Cardinality(Holders(d) \ {t}) = Cardinality(Holders(d)) - 1
    BY <1>1, FS_RemoveElement
<1>3. t \notin Holders(d) =>
        /\ Holders(d) \ {t} = Holders(d)
        /\ Cardinality(Holders(d) \cup {t}) = Cardinality(Holders(d)) + 1
    BY <1>1, FS_AddElement
<1>4. g \in Table(d) => Cardinality(Table(d) \ {g}) = Cardinality(Table(d)) - 1
    BY <1>1, FS_RemoveElement
<1>5. kref[d] > Cardinality(Table(d)) + Cardinality(Holders(d))
    BY DEF Spare
<1>6. ASSUME NEW k, k = kref'[d], NEW m, m = Cardinality(Table(d)'),
             NEW n, n = Cardinality(Holders(d)'), k > m + n
      PROVE  Spare(d)'
    BY <1>6 DEF Spare
<1>7. CASE /\ kref'[d] = kref[d] /\ Table(d)' = Table(d)
           /\ Holders(d)' = Holders(d) \/ Holders(d)' = Holders(d) \ {t}
    <2>1. PICK n \in {Cardinality(Holders(d)), Cardinality(Holders(d)) - 1} :
            n = Cardinality(Holders(d)')
        BY <1>2, <1>3, <1>7
    <2>2. kref[d] > Cardinality(Table(d)) + n
        BY <1>1, <1>5
    <2>3. kref[d] = kref'[d] /\ Cardinality(Table(d)) = Cardinality(Table(d)')
        BY <1>7
    <2> QED
        BY <1>6, <2>1, <2>2, <2>3
<1>8. CASE /\ kref'[d] = kref[d]
           /\ g \in Table(d) /\ Table(d)' = Table(d) \ {g}
           /\ t \notin Holders(d) /\ Holders(d)' = Holders(d) \cup {t}
    <2>1. /\ kref'[d] = kref[d] /\ Cardinality(Table(d)') = (Cardinality(Table(d)) - 1)
          /\ Cardinality(Holders(d)') = Cardinality(Holders(d)) + 1
        BY <1>3, <1>4, <1>8
    <2>2. kref[d] > (Cardinality(Table(d)) - 1) + (Cardinality(Holders(d)) + 1)
        BY <1>1, <1>5
    <2> QED
        BY <1>6, <2>1, <2>2
<1>9. CASE /\ kref'[d] = kref[d] - 1 /\ Table(d)' = Table(d)
           /\ t \in Holders(d) /\ Holders(d)' = Holders(d) \ {t}
    <2>1. /\ kref'[d] = (kref[d] - 1) /\ Cardinality(Table(d)') = Cardinality(Table(d))
          /\ Cardinality(Holders(d)') = Cardinality(Holders(d)) - 1
        BY <1>2, <1>9
    <2>2. (kref[d] - 1) > Cardinality(Table(d)) + (Cardinality(Holders(d)) - 1)
        BY <1>1, <1>5
    <2> QED
        BY <1>6, <2>1, <2>2
<1>10. CASE /\ kref'[d] = kref[d] + 1 /\ Table(d)' = Table(d)
            /\ t \notin Holders(d) /\ Holders(d)' = Holders(d) \cup {t}
    <2>1. /\ kref'[d] = (kref[d] + 1) /\ Cardinality(Table(d)') = Cardinality(Table(d))
          /\ Cardinality(Holders(d)') = Cardinality(Holders(d)) + 1
        BY <1>3, <1>10
    <2>2. (kref[d] + 1) > Cardinality(Table(d)) + (Cardinality(Holders(d)) + 1)
        BY <1>1, <1>5
    <2> QED
        BY <1>6, <2>1, <2>2
<1> QED
    BY <1>7, <1>8, <1>9, <1>10

\* A spare reference keeps the descriptor.
LEMMA SpareLive ==
    ASSUME Shape, LiveRefs, NEW d \in Descs, Spare(d)
    PROVE  kref[d] > 0 /\ desc[d] = "live"
<1>1. /\ Cardinality(Table(d)) \in Nat /\ Cardinality(Holders(d)) \in Nat
      /\ kref[d] \in Int
    BY RefSets DEF Shape, TypeOK, DescSorts
<1>2. kref[d] > 0
    BY <1>1 DEF Spare
<1> QED
    BY <1>2 DEF LiveRefs

\* A step that empties no slot of d for a caller who takes over its reference
\* keeps the spare ones.
LEMMA SpareNext ==
    ASSUME Refs, [Next]_vars, NEW d \in Descs, Spare(d),
           \A t \in Threads :
                pc[t] = "fork_erase" \/ SaFreeErase(t) => alloc[t] # d
    PROVE  Spare(d)'
<1>0. /\ Shape /\ RefsCovered /\ LiveRefs /\ DescSorts /\ LocalSorts /\ OpAt
      /\ NoNullDeref
    BY DEF Refs, Shape, TypeOK
<1>1. ASSUME SameRefs(d) PROVE Spare(d)'
    BY <1>0, <1>1, SpareKept DEF SameRefs
<1>2. ASSUME NEW t \in Threads, AllocCreate(t) PROVE Spare(d)'
    <2>1. PICK c \in Descs :
            /\ desc[c] = "none" /\ sa_allocators[Group[t]] = NULL
            /\ kref' = [kref EXCEPT ![c] = 1]
            /\ sa_allocators' = [sa_allocators EXCEPT ![Group[t]] = c]
            /\ pc' = pc /\ alloc' = alloc
        BY <1>2 DEF AllocCreate, localVars
    <2>2. d # c
        BY <1>0, <2>1, SpareLive
    <2>3. Table(d)' = Table(d) /\ kref'[d] = kref[d] /\ Holders(d)' = Holders(d)
        BY <1>0, <2>1, <2>2, Constants DEF Table, DescSorts, Holders
    <2> QED
        BY <1>0, <2>3, SpareKept
<1>3. ASSUME NEW t \in Threads, AllocDestroy(t) PROVE Spare(d)'
    <2>1. /\ sa_allocators[Group[t]] \in Descs /\ pc[t] = "idle" /\ kref' = kref
          /\ sa_allocators' = [sa_allocators EXCEPT ![Group[t]] = NULL]
          /\ pc' = [pc EXCEPT ![t] = "put"]
          /\ alloc' = [alloc EXCEPT ![t] = sa_allocators[Group[t]]]
          /\ Group[t] \in Tgids
        BY <1>0, <1>3, Constants DEF AllocDestroy, Goto, Fail, DescSorts
    <2>2. OthersHold(t) /\ t \notin Holders(d)
        BY <1>0, <2>1 DEF OthersHold, LocalSorts, Holders, HoldsRef, UsesAlloc
    <2>3. pc'[t] \in HoldsRef /\ alloc'[t] = sa_allocators[Group[t]]
        BY <1>0, <2>1 DEF LocalSorts, HoldsRef, UsesAlloc, Labels
    <2>4. CASE d = sa_allocators[Group[t]]
        <3>1. Table(d)' = Table(d) \ {Group[t]} /\ Group[t] \in Table(d)
            BY <1>0, <2>1, <2>4, Constants DEF Table, DescSorts
        <3>2. Holders(d)' = Holders(d) \cup {t}
            BY <2>2, <2>3, <2>4, HoldersStep
        <3> QED
            BY <1>0, <2>1, <2>2, <3>1, <3>2, SpareKept
    <2>5. CASE d # sa_allocators[Group[t]]
        <3>1. Table(d)' = Table(d)
            BY <1>0, <2>1, <2>5, Constants DEF Table, DescSorts
        <3>2. Holders(d)' = Holders(d) \ {t}
            BY <2>2, <2>3, <2>5, HoldersStep
        <3> QED
            BY <1>0, <2>1, <3>1, <3>2, SpareKept
    <2> QED
        BY <2>4, <2>5
<1>4. ASSUME NEW t \in Threads, AllocPut(t) \/ AllocGet(t) PROVE Spare(d)'
    <2>0. alloc[t] \in Descs
        BY <1>0, <1>4 DEF AllocPut, AllocGet, NoNullDeref, LocalSorts, UsesAlloc,
                          Labels
    <2>1. sa_allocators' = sa_allocators /\ alloc' = alloc /\ OthersHold(t)
        BY <1>0, <1>4 DEF AllocPut, AllocGet, Goto, Fail, OthersHold, LocalSorts
    <2>2. Table(d)' = Table(d)
        BY <2>1 DEF Table
    <2>3. CASE d # alloc[t]
        <3>1. kref'[d] = kref[d]
            BY <1>0, <1>4, <2>0, <2>3 DEF AllocPut, AllocGet, KrefGet, DescSorts
        <3>2. Holders(d)' = Holders(d)
            BY <2>1, <2>3, HoldersStep
        <3> QED
            BY <1>0, <2>2, <3>1, <3>2, SpareKept
    <2>4. CASE d = alloc[t] /\ AllocPut(t)
        <3>1. /\ kref'[d] = kref[d] - 1 /\ t \in Holders(d) /\ pc'[t] \notin HoldsRef
            BY <1>0, <2>4 DEF AllocPut, Goto, DescSorts, LocalSorts, Holders,
                              HoldsRef, UsesAlloc, Labels
        <3>2. Holders(d)' = Holders(d) \ {t}
            BY <2>1, <3>1, HoldersStep
        <3> QED
            BY <1>0, <2>2, <3>1, <3>2, SpareKept
    <2>5. CASE d = alloc[t] /\ AllocGet(t)
        <3>1. kref[d] > 0
            BY <1>0, SpareLive
        <3>2. /\ kref'[d] = kref[d] + 1 /\ t \notin Holders(d) /\ pc'[t] \in HoldsRef
            BY <1>0, <2>5, <3>1 DEF AllocGet, KrefGet, Goto, Fail, DescSorts,
                   LocalSorts, Holders, HoldsRef, UsesAlloc, Labels
        <3>3. Holders(d)' = Holders(d) \cup {t}
            BY <2>1, <2>5, <3>2, HoldersStep
        <3> QED
            BY <1>0, <2>2, <3>2, <3>3, SpareKept
    <2> QED
        BY <1>4, <2>3, <2>4, <2>5
<1>5. ASSUME NEW t \in Threads, SaAllocStore(t) \/ SaForkInsert(t)
      PROVE  Spare(d)'
    <2>1. /\ kref' = kref /\ sa_allocators' = sa_allocators /\ alloc' = alloc
          /\ OthersHold(t) /\ pc[t] \in HoldsRef
        BY <1>0, <1>5 DEF SaAllocStore, SaForkInsert, Goto, Fail, OthersHold,
                          LocalSorts, HoldsRef, UsesAlloc, Labels
    <2>2. Holders(d)' = Holders(d) \/ Holders(d)' = Holders(d) \ {t}
        BY <2>1, HoldersStep
    <2> QED
        BY <1>0, <2>1, <2>2, SpareKept DEF Table
<1>6. ASSUME NEW t \in Threads, EraseSlot(t) \/ SaFreeErase(t) PROVE Spare(d)'
    <2>1. /\ kref' = kref /\ sa_allocators' = sa_allocators /\ alloc' = alloc
          /\ OthersHold(t)
        BY <1>0, <1>6 DEF EraseSlot, SaFreeErase, Goto, Fail, OthersHold, LocalSorts
    <2>2. alloc[t] # d \/ (pc[t] \in HoldsRef /\ pc'[t] \in HoldsRef)
        BY <1>0, <1>6 DEF EraseSlot, Goto, LocalSorts, HoldsRef, UsesAlloc, Labels
    <2>3. Holders(d)' = Holders(d)
        BY <2>1, <2>2, HoldersStep
    <2> QED
        BY <1>0, <2>1, <2>3, SpareKept DEF Table
<1>7. ASSUME VmaFree \/ UNCHANGED vars PROVE SameRefs(d)
    BY <1>7 DEF VmaFree, vars, descVars, localVars, SameRefs, Table, Slots,
                Registered, Holders
<1> QED
    BY <1>0, <1>1, <1>2, <1>3, <1>4, <1>5, <1>6, <1>7, QuietRefs
       DEF Next, KernelNext, Step

\* A copy finds a registered slot, and while it runs nobody empties a slot of the
\* table for good: sa_free waits for al_lock, and the parent's process is not
\* running sa_fork itself.
LEMMA CopyRefNext == Copies /\ [Next]_vars => CopyRef'
<1> SUFFICES ASSUME Copies, [Next]_vars, NEW u \in Threads, pc'[u] = "fork_copy"
             PROVE  Spare(parent[u])'
    BY DEF CopyRef
<1>0. /\ Refs /\ ForkInv /\ Shape /\ RefsCovered /\ DescSorts /\ LocalSorts
      /\ NoNullDeref /\ OpAt /\ OwnDesc /\ ParentWaits /\ ParentOwns
    BY DEF Copies, Refs, Shape, TypeOK
<1>1. ASSUME NEW d \in Descs, parent'[u] = d, Spare(d)' PROVE Spare(parent[u])'
    BY <1>1 DEF Spare, Table, Holders
<1>2. CASE SaForkLookup(u)
    <2>1. PICK d \in Descs : parent[u] = d /\ parent'[u] = d
        BY <1>0, <1>2 DEF SaForkLookup, NoNullDeref, UsesParent, LocalSorts
    <2>2. Slots(d) # {}
        BY <1>0, <1>2, <2>1 DEF SaForkLookup, Slots, Registered, Goto, Fail,
                                LocalSorts
    <2>3. SameRefs(d) /\ Spare(d)
        BY <1>0, <1>2, <2>2, QuietRefs, SlotSpares
    <2> QED
        BY <1>0, <1>1, <2>1, <2>3, SpareKept DEF SameRefs
<1>3. CASE ~SaForkLookup(u)
    <2>0. CopyKept(u)
        BY <1>0, <1>3, CopiesKept
    <2>1. PICK d \in Descs : parent[u] = d /\ parent'[u] = d
        BY <1>0, <2>0 DEF CopyKept, NoNullDeref, UsesParent, LocalSorts
    <2>2. /\ Spare(d) /\ u \in readers[d] /\ Forking(u) /\ ppid[u] \in Threads
          /\ tgid[d] = Group[ppid[u]]
        BY <1>0, <2>0, <2>1 DEF CopyKept, Copies, CopyRef, ForkInv, SourceHeld,
               Source, OpAt, Forking, ParentWaits, ParentOwns, UsesParent
    <2>3. ASSUME NEW t \in Threads, pc[t] = "fork_erase" PROVE alloc[t] # d
        <3>1. Forking(t) /\ tgid[alloc[t]] = Group[t]
            BY <1>0, <2>3 DEF OpAt, Forking, NoNullDeref, UsesAlloc, Labels, OwnDesc
        <3> QED
            BY <1>0, <2>2, <3>1 DEF ParentWaits
    <2>4. ASSUME NEW t \in Threads, SaFreeErase(t) PROVE alloc[t] # d
        BY <2>2, <2>4 DEF SaFreeErase, CanWriteLock
    <2>5. Spare(d)'
        BY <1>0, <2>2, <2>3, <2>4, SpareNext
    <2> QED
        BY <1>1, <2>1, <2>5
<1> QED
    BY <1>2, <1>3

\* The descriptors that copies read are accounted for in every behaviour.
THEOREM AreaCopies == Spec => []Copies
<1>1. Init => Copies
    BY RefsInit, ForkInvInit DEF Copies, CopyRef, Init
<1>2. Copies /\ [Next]_vars => Copies'
    BY RefsNext, ForkInvNext, CopyRefNext DEF Copies
<1> QED
    BY <1>1, <1>2, PTL DEF Spec

\* No operation uses its descriptor after alloc_destroy_callback has freed it,
\* although alloc_find takes no reference: until alloc_get, and in sa_free, the
\* entry in sa_allocators keeps it, since the device is not closed under an ioctl.
\* Nor does sa_fork while it copies: closing the device of the parent's process
\* meanwhile, and every FREE, leave the reference of the slot it reads.  Before
\* down_read there is no such slot yet, and only the entry in sa_allocators
\* protects it.
THEOREM AreaNoUseAfterFree == Spec => []NoUseAfterFree
<1>1. Copies => NoUseAfterFree
    <2> SUFFICES ASSUME Copies, NEW t \in Threads
                 PROVE  /\ pc[t] \in UsesAlloc => desc[alloc[t]] = "live"
                        /\ pc[t] = "fork_copy" => desc[parent[t]] = "live"
                        /\ pc[t] = "fork_lookup" =>
                                desc[parent[t]] = "live" \/ ParentClosed(t)
        BY DEF NoUseAfterFree
    <2>0. /\ Shape /\ RefsCovered /\ LocalSorts /\ NoNullDeref /\ OpAt /\ LiveRefs
          /\ Refs
        BY DEF Copies, Refs, Shape, TypeOK
    <2>1. ASSUME pc[t] \in UsesAlloc PROVE desc[alloc[t]] = "live"
        <3>1. alloc[t] \in Descs
            BY <2>0, <2>1 DEF NoNullDeref, LocalSorts
        <3>2. CASE pc[t] \in HoldsRef
            <4>1. t \in Holders(alloc[t])
                BY <3>2 DEF Holders
            <4> QED
                BY <2>0, <3>1, <4>1, HasRefs DEF LiveRefs
        <3>3. CASE pc[t] \notin HoldsRef
            <4>1. sa_allocators[Group[t]] = alloc[t]
                BY <2>0, <2>1, <3>3 DEF Refs, Pinned, HoldsRef, UsesAlloc, Labels
            <4>2. Group[t] \in Table(alloc[t])
                BY <4>1, Constants DEF Table
            <4> QED
                BY <2>0, <3>1, <4>2, HasRefs DEF LiveRefs
        <3> QED
            BY <3>2, <3>3
    <2>2. ASSUME pc[t] = "fork_copy" PROVE desc[parent[t]] = "live"
        <3>1. parent[t] \in Descs /\ Spare(parent[t])
            BY <2>0, <2>2 DEF Copies, CopyRef, NoNullDeref, LocalSorts, UsesParent
        <3> QED
            BY <2>0, <3>1, SpareLive
    <2>3. ASSUME pc[t] = "fork_lookup", ~ParentClosed(t)
          PROVE  desc[parent[t]] = "live"
        <3>1. parent[t] \in Descs /\ ppid[t] \in Threads
            BY <2>0, <2>3 DEF Refs, ParentWaits, OpAt, Forking, UsesParent,
                              NoNullDeref, LocalSorts
        <3>2. Group[ppid[t]] \in Table(parent[t])
            BY <2>3, <3>1, Constants DEF ParentClosed, Table
        <3> QED
            BY <2>0, <3>1, <3>2, HasRefs DEF LiveRefs
    <2> QED
        BY <2>1, <2>2, <2>3
<1> QED
    BY <1>1, AreaCopies, PTL

=============================================================================
