---------------------------- MODULE MemPoolProofs ----------------------------
(***************************************************************************)
(* Proofs about MemPool, for any number of threads and chunks.             *)
(***************************************************************************)
EXTENDS MemPool, FiniteSetTheorems, TLAPS

\* Where a thread has a chunk that is neither free nor still to be allocated.
Fresh == Owners \cup {"alloc_chunk"}

\* The mutex is held by the one thread between lock and unlock.
MutexInv == \A t \in Threads : pc[t] \in Locked <=> llock = t

\* What a thread inside the mutex knows of the list.
ListView ==
    \A t \in Threads :
        /\ pc[t] = "pop" => freelist # NULL /\ p[t] = freelist
        /\ pc[t] = "publish" => next[p[t]] = freelist

\* The chunks handed out or free are below freearea_start, and no two threads
\* have the same one.
Disjoint ==
    /\ \A c \in free : c < freearea_start
    /\ \A t \in Threads : pc[t] \in Fresh =>
        /\ p[t] \in Nat
        /\ p[t] < freearea_start
        /\ p[t] \notin free
        /\ \A u \in Threads \ {t} : pc[u] \in Fresh => p[u] # p[t]

PoolInv == TypeOK /\ MutexInv /\ ListView /\ WellLinked /\ Disjoint

-----------------------------------------------------------------------------
\* MemPoolInit establishes the invariant.
LEMMA PoolInvInit == Init => PoolInv
<1> SUFFICES ASSUME Init PROVE PoolInv
    OBVIOUS
<1> USE PoolConstants DEF Init
<1>1. TypeOK
    <2>1. pc \in [Threads -> {"none"}] /\ p \in [Threads -> Nat \cup {NULL}]
        OBVIOUS
    <2>2. next \in [Chunks -> Chunks \cup {NULL}] /\ top \in [Chunks -> Threads \cup {NULL}]
        OBVIOUS
    <2>3. \A t \in Threads : pc[t] \notin Owners \cup {"pop"}
        BY <2>1 DEF Owners
    <2> QED
        BY <2>1, <2>2, <2>3 DEF TypeOK
<1>2. MutexInv /\ ListView
    BY DEF MutexInv, ListView, Locked
<1>3. WellLinked /\ Disjoint
    BY DEF WellLinked, Disjoint, Fresh, Owners
<1> QED
    BY <1>1, <1>2, <1>3 DEF PoolInv

\* The number of threads alive is a natural number.
LEMMA AliveCount ==
    ASSUME NEW q
    PROVE  IsFiniteSet(Alive(q)) /\ Cardinality(Alive(q)) \in Nat
<1>1. Alive(q) \in SUBSET Threads
    BY DEF Alive
<1> QED
    BY <1>1, PoolConstants, FS_Subset, FS_CardinalityType

\* Every step of every thread preserves the invariant.
LEMMA PoolInvNext == PoolInv /\ [Next]_vars => PoolInv'
<1> SUFFICES ASSUME PoolInv, [Next]_vars PROVE PoolInv'
    OBVIOUS
<1> USE PoolConstants DEF PoolInv, Owners, Locked, Fresh, Goto
<1>1. ASSUME NEW t \in Threads, Create(t) PROVE PoolInv'
    <2>1. peak' \in Nat
        BY <1>1, AliveCount DEF Create, TypeOK
    <2>2. TypeOK'
        BY <1>1, <2>1 DEF Create, TypeOK, Chunks
    <2>3. MutexInv'
        BY <1>1 DEF Create, TypeOK, MutexInv
    <2>4. ListView'
        BY <1>1 DEF Create, TypeOK, MutexInv, ListView
    <2>5. WellLinked'
        BY <1>1 DEF Create, WellLinked
    <2>6. Disjoint'
        BY <1>1 DEF Create, TypeOK, Disjoint
    <2> QED
        BY <2>1, <2>2, <2>3, <2>4, <2>5, <2>6
<1>2. ASSUME NEW t \in Threads, Check(t) PROVE PoolInv'
    <2>1. TypeOK'
        BY <1>2 DEF Check, TypeOK, Chunks
    <2>2. MutexInv'
        BY <1>2 DEF Check, TypeOK, MutexInv
    <2>3. ListView'
        BY <1>2 DEF Check, TypeOK, MutexInv, ListView
    <2>4. WellLinked'
        BY <1>2 DEF Check, WellLinked
    <2>5. Disjoint'
        BY <1>2 DEF Check, TypeOK, Disjoint
    <2> QED
        BY <2>1, <2>2, <2>3, <2>4, <2>5
<1>3. ASSUME NEW t \in Threads, LockRecycle(t) PROVE PoolInv'
    <2>1. TypeOK'
        BY <1>3 DEF LockRecycle, Lock, TypeOK, Chunks
    <2>2. MutexInv'
        BY <1>3 DEF LockRecycle, Lock, TypeOK, MutexInv
    <2>3. ListView'
        BY <1>3 DEF LockRecycle, Lock, TypeOK, MutexInv, ListView
    <2>4. WellLinked'
        BY <1>3 DEF LockRecycle, Lock, WellLinked
    <2>5. Disjoint'
        BY <1>3 DEF LockRecycle, Lock, TypeOK, Disjoint
    <2> QED
        BY <2>1, <2>2, <2>3, <2>4, <2>5
<1>4. ASSUME NEW t \in Threads, Recheck(t) PROVE PoolInv'
    <2>1. TypeOK'
        <3>1. CASE freelist # NULL
            <4>1. freelist \in Chunks /\ freelist \in Nat
                BY <3>1 DEF TypeOK, Chunks
            <4>2. /\ p' = [p EXCEPT ![t] = freelist]
                  /\ pc' = [pc EXCEPT ![t] = "pop"]
                BY <1>4, <3>1 DEF Recheck
            <4>3. \A u \in Threads : pc'[u] \in Owners \cup {"pop"} =>
                                        p'[u] \in Chunks
                BY <4>1, <4>2 DEF TypeOK
            <4> QED
                BY <1>4, <4>1, <4>2, <4>3 DEF Recheck, TypeOK
        <3>2. CASE freelist = NULL
            BY <1>4, <3>2 DEF Recheck, TypeOK, Chunks
        <3> QED
            BY <3>1, <3>2
    <2>2. MutexInv'
        BY <1>4 DEF Recheck, TypeOK, MutexInv
    <2>3. ListView'
        BY <1>4 DEF Recheck, TypeOK, MutexInv, ListView, Disjoint, WellLinked
    <2>4. WellLinked'
        BY <1>4 DEF Recheck, TypeOK, ListView, WellLinked, Disjoint, Chunks, MutexInv
    <2>5. Disjoint'
        BY <1>4 DEF Recheck, TypeOK, ListView, WellLinked, Disjoint, Chunks
    <2> QED
        BY <2>1, <2>2, <2>3, <2>4, <2>5
<1>5. ASSUME NEW t \in Threads, Pop(t) PROVE PoolInv'
    <2>1. TypeOK'
        BY <1>5 DEF Pop, init_chunk, TypeOK, ListView, Chunks
    <2>2. MutexInv'
        BY <1>5 DEF Pop, init_chunk, TypeOK, MutexInv
    <2>3. ListView'
        BY <1>5 DEF Pop, init_chunk, TypeOK, MutexInv, ListView, Disjoint, WellLinked
    <2>4. WellLinked'
        BY <1>5 DEF Pop, init_chunk, TypeOK, ListView, WellLinked, Disjoint, Chunks, MutexInv
    <2>5. Disjoint'
        BY <1>5 DEF Pop, init_chunk, TypeOK, ListView, WellLinked, Disjoint, Chunks
    <2> QED
        BY <2>1, <2>2, <2>3, <2>4, <2>5
<1>6. ASSUME NEW t \in Threads, MemPoolAlloc(t) PROVE PoolInv'
    <2>1. TypeOK'
        BY <1>6 DEF MemPoolAlloc, Bump, TypeOK, Chunks
    <2>2. MutexInv'
        BY <1>6 DEF MemPoolAlloc, Bump, TypeOK, MutexInv
    <2>3. ListView'
        BY <1>6 DEF MemPoolAlloc, Bump, TypeOK, MutexInv, ListView, Disjoint, WellLinked
    <2>4. WellLinked'
        BY <1>6 DEF MemPoolAlloc, Bump, TypeOK, ListView, WellLinked, Disjoint, Chunks, MutexInv
    <2>5. Disjoint'
        BY <1>6 DEF MemPoolAlloc, Bump, TypeOK, ListView, WellLinked, Disjoint, Chunks
    <2> QED
        BY <2>1, <2>2, <2>3, <2>4, <2>5
<1>7. ASSUME NEW t \in Threads, AllocChunk(t) PROVE PoolInv'
    <2>1. TypeOK'
        <3> USE DEF TypeOK, Chunks, Disjoint, init_chunk, OutOfMemory
        <3>1. CASE OutOfMemory(p[t])
            BY <1>7, <3>1 DEF AllocChunk
        <3>2. CASE ~OutOfMemory(p[t])
            <4>1. p[t] \in Chunks
                BY <1>7, <3>2 DEF AllocChunk
            <4>2. pc' = [pc EXCEPT ![t] = "run"] /\ p' = p
                BY <1>7, <3>2 DEF AllocChunk
            <4>3. \A u \in Threads : pc'[u] \in Owners \cup {"pop"} =>
                                        p'[u] \in Chunks
                BY <4>1, <4>2
            <4>4. /\ next' \in [Chunks -> Chunks \cup {NULL}]
                  /\ top' \in [Chunks -> Threads \cup {NULL}]
                BY <1>7, <3>2, <4>1 DEF AllocChunk
            <4> QED
                BY <1>7, <3>2, <4>2, <4>3, <4>4 DEF AllocChunk
        <3> QED
            BY <3>1, <3>2
    <2>2. MutexInv'
        BY <1>7 DEF AllocChunk, init_chunk, OutOfMemory, TypeOK, MutexInv
    <2>3. ListView'
        BY <1>7 DEF AllocChunk, init_chunk, OutOfMemory, TypeOK, MutexInv, ListView, Disjoint,
                    WellLinked
    <2>4. WellLinked'
        BY <1>7 DEF AllocChunk, init_chunk, OutOfMemory, TypeOK, ListView, WellLinked,
                    Disjoint, Chunks, MutexInv
    <2>5. Disjoint'
        BY <1>7 DEF AllocChunk, init_chunk, OutOfMemory, TypeOK, ListView, WellLinked,
                    Disjoint, Chunks
    <2> QED
        BY <2>1, <2>2, <2>3, <2>4, <2>5
<1>8. ASSUME NEW t \in Threads, Push(t) PROVE PoolInv'
    <2>1. TypeOK'
        BY <1>8 DEF Push, TypeOK, ListView, Chunks
    <2>2. MutexInv'
        BY <1>8 DEF Push, TypeOK, MutexInv
    <2>3. ListView'
        BY <1>8 DEF Push, TypeOK, MutexInv, ListView
    <2>4. WellLinked'
        BY <1>8 DEF Push, WellLinked
    <2>5. Disjoint'
        BY <1>8 DEF Push, TypeOK, Disjoint
    <2> QED
        BY <2>1, <2>2, <2>3, <2>4, <2>5
<1>9. ASSUME NEW t \in Threads, End(t) PROVE PoolInv'
    <2>1. TypeOK'
        BY <1>9 DEF End, TypeOK, Chunks
    <2>2. MutexInv'
        BY <1>9 DEF End, TypeOK, MutexInv
    <2>3. ListView'
        BY <1>9 DEF End, TypeOK, MutexInv, ListView
    <2>4. WellLinked'
        BY <1>9 DEF End, WellLinked
    <2>5. Disjoint'
        BY <1>9 DEF End, TypeOK, Disjoint
    <2> QED
        BY <2>1, <2>2, <2>3, <2>4, <2>5
<1>10. ASSUME NEW t \in Threads, LockRelease(t) PROVE PoolInv'
    <2>1. TypeOK'
        BY <1>10 DEF LockRelease, Lock, TypeOK, Chunks
    <2>2. MutexInv'
        BY <1>10 DEF LockRelease, Lock, TypeOK, MutexInv
    <2>3. ListView'
        BY <1>10 DEF LockRelease, Lock, TypeOK, MutexInv, ListView
    <2>4. WellLinked'
        BY <1>10 DEF LockRelease, Lock, WellLinked
    <2>5. Disjoint'
        BY <1>10 DEF LockRelease, Lock, TypeOK, Disjoint
    <2> QED
        BY <2>1, <2>2, <2>3, <2>4, <2>5
<1>11. ASSUME NEW t \in Threads, Link(t) PROVE PoolInv'
    <2>1. TypeOK'
        BY <1>11 DEF Link, TypeOK, Chunks
    <2>2. MutexInv'
        BY <1>11 DEF Link, TypeOK, MutexInv
    <2>3. ListView'
        BY <1>11 DEF Link, TypeOK, MutexInv, ListView, Disjoint, WellLinked
    <2>4. WellLinked'
        BY <1>11 DEF Link, TypeOK, ListView, WellLinked, Disjoint, Chunks, MutexInv
    <2>5. Disjoint'
        BY <1>11 DEF Link, TypeOK, ListView, WellLinked, Disjoint, Chunks
    <2> QED
        BY <2>1, <2>2, <2>3, <2>4, <2>5
<1>12. ASSUME NEW t \in Threads, Publish(t) PROVE PoolInv'
    <2>1. TypeOK'
        BY <1>12 DEF Publish, TypeOK, Chunks
    <2>2. MutexInv'
        BY <1>12 DEF Publish, TypeOK, MutexInv
    <2>3. ListView'
        BY <1>12 DEF Publish, TypeOK, MutexInv, ListView, Disjoint, WellLinked
    <2>4. WellLinked'
        BY <1>12 DEF Publish, TypeOK, ListView, WellLinked, Disjoint, Chunks, MutexInv
    <2>5. Disjoint'
        BY <1>12 DEF Publish, TypeOK, ListView, WellLinked, Disjoint, Chunks
    <2> QED
        BY <2>1, <2>2, <2>3, <2>4, <2>5
<1>13. CASE UNCHANGED vars
    BY <1>13 DEF vars, TypeOK, MutexInv, ListView, WellLinked, Disjoint
<1> QED
    BY <1>1, <1>2, <1>3, <1>4, <1>5, <1>6, <1>7, <1>8, <1>9,
       <1>10, <1>11, <1>12, <1>13 DEF Next, Step

\* The invariant holds in every reachable state.
THEOREM PoolInvariant == Spec => []PoolInv
BY PoolInvInit, PoolInvNext, PTL DEF Spec

\* The types of MemPool hold for every number of threads and chunks.
THEOREM PoolTypes == Spec => []TypeOK
<1>1. PoolInv => TypeOK
    BY DEF PoolInv
<1> QED
    BY <1>1, PoolInvariant, PTL

\* No two threads ever run on the same chunk, nor on one that is on the free
\* list, whatever the interleaving of MemPoolAlloc and MemPoolRelease.
THEOREM PoolExclusive == Spec => []Exclusive
<1>1. PoolInv => Exclusive
    BY DEF PoolInv, Disjoint, Exclusive, Fresh, Owners
<1> QED
    BY <1>1, PoolInvariant, PTL

\* MemPoolRelease and recycle_chunk keep the free list well linked.
THEOREM PoolWellLinked == Spec => []WellLinked
<1>1. PoolInv => WellLinked
    BY DEF PoolInv
<1> QED
    BY <1>1, PoolInvariant, PTL

-----------------------------------------------------------------------------
(***************************************************************************)
(* The bound on the pool.  While the process runs and chunks are recycled, *)
(* every chunk below freearea_start is free or in the hands of a thread,   *)
(* so a thread that sees an empty free list sees all of them in use.       *)
(***************************************************************************)
Bumping == {t \in Threads : pc[t] = "bump"}

Covered ==
    Recycle /\ ~exited =>
        \A c \in 0 .. freearea_start - 1 :
            c \in free \/ \E t \in Threads : pc[t] \in Fresh /\ p[t] = c

BoundInv == /\ Covered
            /\ Cardinality(Alive(pc)) <= peak
            /\ PoolBound

\* A thread that finds no free chunk can go for a new one: with it, the threads
\* on their way to freearea_start and the owners of the old chunks are all
\* alive, and are different threads.
LEMMA Crowded ==
    ASSUME PoolInv, Covered, Recycle, ~exited, free = {},
           NEW t \in Threads, pc[t] \in {"check", "recheck"}
    PROVE  freearea_start + Cardinality(Bumping \cup {t})
               <= Cardinality(Alive(pc))
<1> DEFINE O == {u \in Threads : pc[u] \in Fresh}
           B == Bumping \cup {t}
           f == [c \in 0 .. freearea_start - 1 |->
                    CHOOSE u \in O : p[u] = c]
<1>1. freearea_start \in Nat
    BY DEF PoolInv, TypeOK
<1>2. \A c \in 0 .. freearea_start - 1 : f[c] \in O /\ p[f[c]] = c
    BY DEF Covered
<1>3. f \in Injection(0 .. freearea_start - 1, O)
    <2>1. f = [c \in 0 .. freearea_start - 1 |-> f[c]]
        OBVIOUS
    <2> HIDE DEF f, O
    <2>2. f \in [0 .. freearea_start - 1 -> O]
        BY <1>2, <2>1
    <2>3. \A c, d \in 0 .. freearea_start - 1 : f[c] = f[d] => c = d
        BY <1>2
    <2> QED
        BY <2>2, <2>3 DEF Injection, IsInjective
<1>4. IsFiniteSet(O) /\ IsFiniteSet(B)
    <2>1. O \in SUBSET Threads /\ B \in SUBSET Threads
        BY DEF Bumping
    <2> QED
        BY <2>1, PoolConstants, FS_Subset
<1>5. freearea_start <= Cardinality(O)
    <2>1. Cardinality(0 .. freearea_start - 1) = freearea_start
        BY <1>1, FS_Interval
    <2>2. Cardinality(0 .. freearea_start - 1) <= Cardinality(O)
        BY <1>3, <1>4, FS_Injection
    <2> QED
        BY <2>1, <2>2
<1>6. Cardinality(O \cup B) = Cardinality(O) + Cardinality(B)
    <2>1. O \cap B = {}
        BY DEF Bumping, Fresh, Owners
    <2> HIDE DEF O, B
    <2>2. Cardinality(O \cup B)
            = Cardinality(O) + Cardinality(B) - Cardinality(O \cap B)
        BY <1>4, FS_Union
    <2>3. Cardinality(O) \in Nat /\ Cardinality(B) \in Nat
        BY <1>4, FS_CardinalityType
    <2>4. Cardinality(O \cap B) = 0
        BY <2>1, FS_EmptySet, Zenon
    <2> QED
        BY <2>2, <2>3, <2>4
<1>7. Cardinality(O \cup B) <= Cardinality(Alive(pc))
    <2>1. O \cup B \in SUBSET Alive(pc)
        BY DEF Bumping, Fresh, Owners, Alive
    <2> HIDE DEF O, B
    <2> QED
        BY <2>1, AliveCount, FS_Subset
<1>8. Cardinality(O) \in Nat /\ Cardinality(B) \in Nat
    BY <1>4, FS_CardinalityType
<1> HIDE DEF O
<1> QED
    BY <1>1, <1>5, <1>6, <1>7, <1>8, AliveCount

\* The initial state satisfies the invariant behind the bound.
LEMMA BoundInvInit == Init => BoundInv
<1> SUFFICES ASSUME Init PROVE BoundInv
    OBVIOUS
<1>1. Alive(pc) = {} /\ Bumping = {}
    BY DEF Init, Alive, Bumping
<1>2. Covered
    BY DEF Init, Covered
<1> QED
    BY <1>1, <1>2, FS_EmptySet DEF Init, BoundInv, PoolBound, Bumping

\* Every step preserves the coverage of the chunks in use.
LEMMA CoveredNext == PoolInv /\ Covered /\ [Next]_vars => Covered'
<1> SUFFICES ASSUME PoolInv, Covered, [Next]_vars, Recycle, ~exited',
                    NEW c \in 0 .. freearea_start' - 1
             PROVE  (c \in free \/ \E u \in Threads : pc[u] \in Fresh /\ p[u] = c)'
    BY DEF Covered, Fresh, Owners
<1> USE PoolConstants DEF PoolInv, TypeOK, Goto, Fresh, Owners, Covered
<1>1. CASE UNCHANGED vars
    BY <1>1 DEF vars
<1>2. ASSUME NEW t \in Threads, Create(t) \/ Check(t) \/ LockRecycle(t)
                                \/ LockRelease(t) \/ Link(t) \/ Push(t)
      PROVE  (c \in free \/ \E u \in Threads : pc[u] \in Fresh /\ p[u] = c)'
    BY <1>2 DEF Create, Check, LockRecycle, LockRelease, Lock, Link, Push
<1>3. ASSUME NEW t \in Threads, Recheck(t) \/ End(t) \/ AllocChunk(t)
      PROVE  (c \in free \/ \E u \in Threads : pc[u] \in Fresh /\ p[u] = c)'
    BY <1>3 DEF Recheck, End, AllocChunk
<1>4. ASSUME NEW t \in Threads, Pop(t)
      PROVE  (c \in free \/ \E u \in Threads : pc[u] \in Fresh /\ p[u] = c)'
    BY <1>4 DEF Pop
<1>5. ASSUME NEW t \in Threads, MemPoolAlloc(t)
      PROVE  (c \in free \/ \E u \in Threads : pc[u] \in Fresh /\ p[u] = c)'
    BY <1>5 DEF MemPoolAlloc, Bump
<1>6. ASSUME NEW t \in Threads, Publish(t)
      PROVE  (c \in free \/ \E u \in Threads : pc[u] \in Fresh /\ p[u] = c)'
    BY <1>6 DEF Publish
<1> QED
    BY <1>1, <1>2, <1>3, <1>4, <1>5, <1>6 DEF Next, Step

\* Only Create adds to the threads alive, and it raises peak with them.
LEMMA PeakNext ==
    PoolInv /\ Cardinality(Alive(pc)) <= peak /\ [Next]_vars
        => peak' >= peak /\ Cardinality(Alive(pc))' <= peak'
<1> SUFFICES ASSUME PoolInv, Cardinality(Alive(pc)) <= peak, [Next]_vars
             PROVE  peak' >= peak /\ Cardinality(Alive(pc')) <= peak'
    BY DEF Alive
<1> USE DEF PoolInv, TypeOK
<1>1. CASE \E t \in Threads : Create(t)
    BY <1>1, AliveCount DEF Create
<1>2. CASE ~ \E t \in Threads : Create(t)
    <2>1. peak' = peak /\ Alive(pc') \in SUBSET Alive(pc)
        BY <1>2 DEF Next, Step, Check, LockRecycle, LockRelease, Lock, Recheck,
                    Pop, MemPoolAlloc, AllocChunk, Push, End, Link, Publish,
                    Goto, Alive, vars
    <2>2. Cardinality(Alive(pc')) <= Cardinality(Alive(pc))
        BY <2>1, AliveCount, FS_Subset
    <2> QED
        BY <2>1, <2>2, AliveCount
<1> QED
    BY <1>1, <1>2

\* A step leaves the threads at "bump" alone, adds one that saw an empty list,
\* or takes one away as it advances freearea_start.
LEMMA PoolBoundNext ==
    PoolInv /\ BoundInv /\ [Next]_vars => PoolBound'
<1> SUFFICES ASSUME PoolInv, BoundInv, [Next]_vars, Recycle
             PROVE  freearea_start' + Cardinality(Bumping') <= peak'
    BY DEF PoolBound, Bumping
<1> USE DEF PoolInv, TypeOK
<1>1. peak' >= peak /\ peak' \in Nat /\ freearea_start' \in Nat
    BY PeakNext, PoolInvNext DEF BoundInv
<1>2. IsFiniteSet(Bumping) /\ Cardinality(Bumping) \in Nat
    <2>1. Bumping \in SUBSET Threads
        BY DEF Bumping
    <2> QED
        BY <2>1, PoolConstants, FS_Subset, FS_CardinalityType
<1>3. freearea_start + Cardinality(Bumping) <= peak
    BY DEF BoundInv, PoolBound, Bumping
<1>4. CASE Bumping' = Bumping /\ freearea_start' = freearea_start
    BY <1>1, <1>2, <1>3, <1>4
<1>5. ASSUME NEW t \in Threads, Check(t) \/ Recheck(t), freelist = NULL
      PROVE  freearea_start' + Cardinality(Bumping') <= peak'
    <2>1. Bumping' = Bumping \cup {t}
        BY <1>5 DEF Check, Recheck, Goto, Bumping
    <2>2. free = {} /\ ~exited /\ pc[t] \in {"check", "recheck"}
        BY <1>5 DEF Check, Recheck, Goto, WellLinked
    <2>3. freearea_start + Cardinality(Bumping \cup {t})
              <= Cardinality(Alive(pc))
        BY <2>2, Crowded DEF BoundInv
    <2>4. freearea_start' = freearea_start /\ peak' = peak
        BY <1>5 DEF Check, Recheck
    <2>5. Cardinality(Bumping \cup {t}) \in Nat
        BY <1>2, FS_AddElement, FS_CardinalityType
    <2> QED
        BY <2>1, <2>3, <2>4, <2>5, AliveCount DEF BoundInv
<1>6. ASSUME NEW t \in Threads, MemPoolAlloc(t)
      PROVE  freearea_start' + Cardinality(Bumping') <= peak'
    <2>1. Bumping' = Bumping \ {t} /\ t \in Bumping
        BY <1>6 DEF MemPoolAlloc, Goto, Bumping
    <2>2. Cardinality(Bumping') = Cardinality(Bumping) - 1
        BY <1>2, <2>1, FS_RemoveElement
    <2>3. freearea_start' = freearea_start + 1
        BY <1>6 DEF MemPoolAlloc, Bump
    <2> QED
        BY <1>1, <1>2, <1>3, <2>2, <2>3
<1>7. ASSUME NEW t \in Threads,
             \/ Create(t) \/ LockRecycle(t) \/ Pop(t) \/ AllocChunk(t)
             \/ LockRelease(t) \/ Link(t) \/ Publish(t) \/ Push(t) \/ End(t)
             \/ (Check(t) \/ Recheck(t)) /\ freelist # NULL
      PROVE  Bumping' = Bumping /\ freearea_start' = freearea_start
    BY <1>7 DEF Create, LockRecycle, LockRelease, Lock, Pop, AllocChunk, Link,
                Publish, Push, End, Check, Recheck, Goto, Bumping
<1>8. CASE UNCHANGED vars
    BY <1>4, <1>8 DEF vars, Bumping
<1> QED
    BY <1>4, <1>5, <1>6, <1>7, <1>8 DEF Next, Step

\* When chunks are recycled, the pool never grows beyond the number of threads
\* that were alive at once, for any number of threads and any interleaving.
THEOREM PoolBounded == Spec => []PoolBound
<1>1. PoolInv /\ BoundInv /\ [Next]_vars => BoundInv'
    BY CoveredNext, PeakNext, PoolBoundNext DEF BoundInv
<1>2. BoundInv => PoolBound
    BY DEF BoundInv
<1> QED
    BY <1>1, <1>2, BoundInvInit, PoolInvariant, PTL DEF Spec
-----------------------------------------------------------------------------
(***************************************************************************)
(* The end of the pool.  A thread advances freearea_start once at most, so *)
(* the chunks handed out by it are no more than the threads past that      *)
(* point, and alloc_chunk gives up only when all of the pool was.          *)
(***************************************************************************)
Past == {t \in Threads : pc[t] \notin {"none", "check", "lock", "recheck", "pop", "bump"}}

LimitInv ==
    /\ freearea_start <= Cardinality(Past)
    /\ exited => freearea_start >= CHUNKS

\* A set of threads is finite, and a subset of it has no more elements.
LEMMA ThreadSets ==
    ASSUME NEW S \in SUBSET Threads, NEW T \in SUBSET S
    PROVE  /\ IsFiniteSet(S) /\ Cardinality(S) \in Nat
           /\ IsFiniteSet(T) /\ Cardinality(T) \in Nat
           /\ Cardinality(T) <= Cardinality(S)
<1>1. IsFiniteSet(S)
    BY PoolConstants, FS_Subset
<1> QED
    BY <1>1, FS_Subset, FS_CardinalityType

\* A step never takes a thread back, and one that hands out a new chunk takes
\* its thread past freearea_start.
LEMMA LimitInvNext == PoolInv /\ LimitInv /\ [Next]_vars => LimitInv'
<1> SUFFICES ASSUME PoolInv, LimitInv, [Next]_vars PROVE LimitInv'
    OBVIOUS
<1> USE PoolConstants DEF PoolInv, TypeOK, Goto
<1>1. Past \in SUBSET Threads /\ Past' \in SUBSET Threads
    BY DEF Past
<1>2. ASSUME NEW t \in Threads, MemPoolAlloc(t) PROVE LimitInv'
    <2>1. Past' = Past \cup {t} /\ t \notin Past
        BY <1>2 DEF MemPoolAlloc, Past
    <2>2. Cardinality(Past') = Cardinality(Past) + 1
        BY <1>1, <2>1, ThreadSets, FS_AddElement
    <2>3. freearea_start' = freearea_start + 1 /\ exited' = exited
        BY <1>2 DEF MemPoolAlloc, Bump
    <2>4. Cardinality(Past) \in Nat
        BY <1>1, ThreadSets
    <2> QED
        BY <2>2, <2>3, <2>4 DEF LimitInv
<1>3. ASSUME ~ \E t \in Threads : MemPoolAlloc(t) PROVE LimitInv'
    <2>1. Past \in SUBSET Past'
        BY <1>3 DEF Next, Step, Create, Check, LockRecycle, LockRelease, Lock, Recheck,
                    Pop, AllocChunk, Push, End, Link, Publish, Past, vars
    <2>2. freearea_start' = freearea_start
        BY <1>3 DEF Next, Step, Create, Check, LockRecycle, LockRelease, Lock, Recheck,
                    Pop, AllocChunk, Push, End, Link, Publish, vars
    <2>3. Cardinality(Past) <= Cardinality(Past') /\ Cardinality(Past) \in Nat
          /\ Cardinality(Past') \in Nat
        BY <1>1, <2>1, ThreadSets
    <2>4. exited' => freearea_start >= CHUNKS
        <3>1. CASE \E t \in Threads : AllocChunk(t)
            <4>1. PICK t \in Threads : AllocChunk(t)
                BY <3>1
            <4>2. p[t] \in Nat /\ p[t] < freearea_start
                BY <4>1 DEF AllocChunk, Disjoint, Fresh
            <4>3. exited' => exited \/ p[t] + 1 >= CHUNKS
                BY <4>1 DEF AllocChunk, OutOfMemory
            <4> QED
                BY <4>2, <4>3 DEF LimitInv
        <3>2. CASE ~ \E t \in Threads : AllocChunk(t)
            <4>1. exited' = exited
                BY <1>3, <3>2 DEF Next, Step, Create, Check, LockRecycle,
                        LockRelease, Lock, Recheck, Pop, Push, End, Link, Publish, vars
            <4> QED
                BY <4>1 DEF LimitInv
        <3> QED
            BY <3>1, <3>2
    <2> QED
        BY <2>2, <2>3, <2>4 DEF LimitInv
<1> QED
    BY <1>2, <1>3

\* Whatever the interleaving and whether or not chunks are recycled, alloc_chunk
\* ends the process only after as many threads were created as there are chunks.
THEOREM PoolExitLimit == Spec => []ExitLimit
<1>1. Init => LimitInv
    <2> SUFFICES ASSUME Init PROVE LimitInv
        OBVIOUS
    <2>1. Past = {}
        BY DEF Init, Past
    <2>2. Cardinality(Past) = 0
        BY <2>1, FS_EmptySet, Zenon
    <2> QED
        BY <2>2 DEF Init, LimitInv
<1>2. PoolInv /\ LimitInv => ExitLimit
    <2> SUFFICES ASSUME PoolInv, LimitInv, exited
                 PROVE  Cardinality({t \in Threads : pc[t] # "none"}) >= CHUNKS
        BY DEF ExitLimit
    <2> DEFINE S == {t \in Threads : pc[t] # "none"}
    <2>1. S \in SUBSET Threads /\ Past \in SUBSET S
        BY DEF Past
    <2> HIDE DEF S
    <2>2. Cardinality(Past) <= Cardinality(S) /\ Cardinality(Past) \in Nat
          /\ Cardinality(S) \in Nat
        BY <2>1, ThreadSets
    <2>3. Cardinality(S) >= CHUNKS
        BY <2>2, PoolConstants DEF LimitInv, PoolInv, TypeOK
    <2> QED
        BY <2>3 DEF S
<1> QED
    BY <1>1, <1>2, LimitInvNext, PoolInvariant, PTL DEF Spec

\* OwnEntries for any number of threads and chunks: recycled or new, a chunk holds
\* no entries but those of the one thread it belongs to.
THEOREM PoolOwnEntries == Spec => []OwnEntries
<1>1. Init => OwnEntries
    BY DEF Init, OwnEntries, Owners
<1>2. ASSUME PoolInv, OwnEntries, [Next]_vars PROVE OwnEntries'
    <2> SUFFICES ASSUME NEW u \in Threads, pc'[u] \in Owners
                 PROVE  top'[p'[u]] \in {NULL, u}
        BY DEF OwnEntries
    <2> USE PoolConstants DEF PoolInv, TypeOK, Goto, Owners
    <2>1. ASSUME NEW t \in Threads, Pop(t) \/ AllocChunk(t)
          PROVE  top'[p'[u]] \in {NULL, u}
        <3>1. CASE u = t
            <4>1. p[t] \in Chunks /\ p'[t] = p[t] /\ top' = [top EXCEPT ![p[t]] = NULL]
                BY <2>1, <3>1, <1>2 DEF Pop, AllocChunk, OutOfMemory, init_chunk, Disjoint,
                                        Fresh, Chunks
            <4> QED
                BY <1>2, <3>1, <4>1
        <3>2. CASE u # t
            <4>1. pc[u] \in Owners /\ p'[u] = p[u]
                BY <1>2, <2>1, <3>2 DEF Pop, AllocChunk
            <4>2. p[u] \in Chunks /\ top[p[u]] \in {NULL, u}
                BY <1>2, <4>1 DEF OwnEntries
            <4>3. top' = [top EXCEPT ![p[t]] = NULL] \/ top' = top
                BY <2>1 DEF Pop, AllocChunk, init_chunk
            <4> QED
                BY <1>2, <4>1, <4>2, <4>3
        <3> QED
            BY <3>1, <3>2
    <2>2. ASSUME NEW t \in Threads, Push(t)
          PROVE  top'[p'[u]] \in {NULL, u}
        <3>1. /\ pc[u] \in Owners /\ p'[u] = p[u] /\ pc[t] \in Owners
              /\ top' = [top EXCEPT ![p[t]] = t]
            BY <1>2, <2>2 DEF Push
        <3>2. p[u] \in Chunks /\ top[p[u]] \in {NULL, u}
            BY <1>2, <3>1 DEF OwnEntries
        <3>3. u # t => p[u] # p[t]
            BY <1>2, <3>1 DEF Disjoint, Fresh
        <3> QED
            BY <1>2, <3>1, <3>2, <3>3
    <2>3. ASSUME NEW t \in Threads,
                 \/ Create(t) \/ Check(t) \/ LockRecycle(t) \/ Recheck(t) \/ MemPoolAlloc(t)
                 \/ End(t) \/ LockRelease(t) \/ Link(t) \/ Publish(t)
          PROVE  top'[p'[u]] \in {NULL, u}
        <3>1. pc[u] \in Owners /\ p'[u] = p[u] /\ top' = top
            BY <1>2, <2>3 DEF Create, Check, LockRecycle, LockRelease, Lock, Recheck,
                              MemPoolAlloc, Bump, End, Link, Publish
        <3> QED
            BY <1>2, <3>1 DEF OwnEntries
    <2>4. CASE UNCHANGED vars
        BY <1>2, <2>4 DEF vars, OwnEntries
    <2> QED
        BY <1>2, <2>1, <2>2, <2>3, <2>4 DEF Next, Step
<1> QED
    BY <1>1, <1>2, PoolInvariant, PTL DEF Spec
=============================================================================
