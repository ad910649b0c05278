------------------------------- MODULE MemPool -------------------------------
(***************************************************************************)
(* The user-space chunk pool (runtime/allocator.c) and the threads that    *)
(* draw their shadow stacks from it (runtime/main.c).                      *)
(*                                                                         *)
(* Chunk c of the pool is the one at mem_pool + c * chunk_size.  A thread  *)
(* takes a recycled chunk from `freelist', linked through the chunks, or a *)
(* new one by advancing freearea_start; recycle_chunk looks at freelist    *)
(* once without the mutex and again with it.  Each action is the code up   *)
(* to the next access to a variable other threads use.                     *)
(*                                                                         *)
(* main.c defines put_chunk but calls it nowhere: Recycle says whether     *)
(* threads give their chunk back when they end.                            *)
(***************************************************************************)
EXTENDS Integers, FiniteSets

CONSTANTS
    Threads,    \* every thread the process ever creates
    CHUNKS,     \* pl_size / chunk_size
    Recycle,    \* TRUE: a thread that ends calls MemPoolRelease
    NULL

Chunks == 0 .. CHUNKS - 1

ASSUME PoolConstants ==
    /\ IsFiniteSet(Threads)
    /\ CHUNKS \in Nat
    /\ Recycle \in BOOLEAN
    /\ NULL \notin Threads \cup Int

VARIABLES
    freelist,       \* first chunk of the list, or NULL
    next, top,      \* fields of the chunks; top tells who pushed the entries, or NULL
    freearea_start, \* index of the next new chunk
    llock,          \* holder of the mutex, or NULL
    pc, p,          \* control point and local pointer of each thread
    exited,         \* exit(EXIT_FAILURE) has been called
    free,           \* ghost: the chunks linked in freelist
    peak            \* ghost: most threads alive at the same time so far

vars == <<freelist, next, top, freearea_start, llock, pc, p, exited, free, peak>>

Alive(q) == {t \in Threads : q[t] \notin {"none", "done"}}

\* MemPoolInit, with a successful mmap.
Init ==
    /\ freelist = NULL
    /\ next = [c \in Chunks |-> NULL]
    /\ top = [c \in Chunks |-> NULL]
    /\ freearea_start = 0
    /\ llock = NULL
    /\ pc = [t \in Threads |-> "none"]
    /\ p = [t \in Threads |-> NULL]
    /\ exited = FALSE
    /\ free = {}
    /\ peak = 0

\* Thread t goes on at label; in the process nobody runs after exit().
Goto(t, from, label) ==
    /\ ~exited
    /\ pc[t] = from
    /\ pc' = [pc EXCEPT ![t] = label]

\* pthread_create: the thread enters thread_trampoline.  (The main thread gets
\* its chunk the same way, from the constructor shadow_stack_init.)
Create(t) ==
    /\ Goto(t, "none", "check")
    /\ peak' = IF Cardinality(Alive(pc')) > peak THEN Cardinality(Alive(pc'))
                                                 ELSE peak
    /\ UNCHANGED <<freelist, next, top, freearea_start, llock, p, exited, free>>

\* Mutant: released chunks are never taken again.
CheckNothing(t) ==
    /\ Goto(t, "check", "bump")
    /\ UNCHANGED <<freelist, next, top, freearea_start, llock, p, exited, free,
                   peak>>

\* recycle_chunk: freelist is tested without the mutex.
Check(t) ==
    /\ Goto(t, "check", IF freelist # NULL THEN "lock" ELSE "bump")
    /\ UNCHANGED <<freelist, next, top, freearea_start, llock, p, exited, free,
                   peak>>

\* Mutant: pthread_mutex_lock is missing.
NoLock(t, label, locked) == Goto(t, label, locked) /\ UNCHANGED llock

\* pthread_mutex_lock.
Lock(t, label, locked) ==
    /\ Goto(t, label, locked)
    /\ llock = NULL
    /\ llock' = t

\* Mutant: the mutex is kept when the list turns out to be empty.
RecheckLocked(t) ==
    /\ \/ /\ freelist # NULL
          /\ Goto(t, "recheck", "pop")
          /\ p' = [p EXCEPT ![t] = freelist]
       \/ /\ freelist = NULL
          /\ Goto(t, "recheck", "bump")
          /\ UNCHANGED p
    /\ UNCHANGED <<freelist, next, top, freearea_start, llock, exited, free, peak>>

\* The second test: an empty list sends the thread to freearea_start.
Recheck(t) ==
    /\ \/ /\ freelist # NULL
          /\ Goto(t, "recheck", "pop")
          /\ p' = [p EXCEPT ![t] = freelist]
          /\ UNCHANGED llock
       \/ /\ freelist = NULL
          /\ Goto(t, "recheck", "bump")
          /\ llock' = NULL
          /\ UNCHANGED p
    /\ UNCHANGED <<freelist, next, top, freearea_start, exited, free, peak>>

\* Mutant: init_chunk leaves top alone.
InitNextOnly(c) ==
    /\ next' = [next EXCEPT ![c] = NULL]
    /\ UNCHANGED top

init_chunk(c) ==
    /\ next' = [next EXCEPT ![c] = NULL]
    /\ top' = [top EXCEPT ![c] = NULL]

\* The head leaves the list, is initialised, and the mutex is released.
Pop(t) ==
    /\ Goto(t, "pop", "run")
    /\ freelist' = next[p[t]]
    /\ init_chunk(p[t])
    /\ llock' = NULL
    /\ free' = free \ {p[t]}
    /\ UNCHANGED <<freearea_start, p, exited, peak>>

\* Mutant: freearea_start is read and not advanced.
BumpStale(t) == p' = [p EXCEPT ![t] = freearea_start] /\ UNCHANGED freearea_start

\* atomic_fetch_add on freearea_start.
Bump(t) ==
    /\ p' = [p EXCEPT ![t] = freearea_start]
    /\ freearea_start' = freearea_start + 1

MemPoolAlloc(t) ==
    /\ Goto(t, "bump", "alloc_chunk")
    /\ Bump(t)
    /\ UNCHANGED <<freelist, next, top, llock, exited, free, peak>>

\* Mutant: the bound is one chunk too early.
ChunkTooEarly(lo) == lo + 2 >= CHUNKS

\* alloc_chunk's test, lo + chunk_size >= freearea_end: the last chunk of the
\* pool is never handed out.
OutOfMemory(lo) == lo + 1 >= CHUNKS

\* alloc_chunk: with the pool used up the process exits, else the new chunk is
\* initialised and the thread runs on it.
AllocChunk(t) ==
    /\ \/ /\ Goto(t, "alloc_chunk", "run")
          /\ ~OutOfMemory(p[t])
          /\ init_chunk(p[t])
          /\ UNCHANGED <<p, exited>>
       \/ /\ Goto(t, "alloc_chunk", "done")
          /\ OutOfMemory(p[t])
          /\ p' = [p EXCEPT ![t] = NULL]
          /\ exited' = TRUE
          /\ UNCHANGED <<next, top>>
    /\ UNCHANGED <<freelist, freearea_start, llock, free, peak>>

\* The instrumented program pushes return addresses on what it finds.  One is
\* enough to tell a chunk in use from an empty one.
Push(t) ==
    /\ Goto(t, "run", "run")
    /\ top[p[t]] = NULL
    /\ top' = [top EXCEPT ![p[t]] = t]
    /\ UNCHANGED <<freelist, next, freearea_start, llock, p, exited, free, peak>>

\* The thread ends: with Recycle through put_chunk, else as main.c has it.
End(t) ==
    /\ Goto(t, "run", IF Recycle THEN "release" ELSE "done")
    /\ p' = IF Recycle THEN p ELSE [p EXCEPT ![t] = NULL]
    /\ UNCHANGED <<freelist, next, top, freearea_start, llock, exited, free, peak>>

LockRecycle(t) ==
    /\ Lock(t, "lock", "recheck")
    /\ UNCHANGED <<freelist, next, top, freearea_start, p, exited, free, peak>>

LockRelease(t) ==
    /\ Lock(t, "release", "link")
    /\ UNCHANGED <<freelist, next, top, freearea_start, p, exited, free, peak>>

\* MemPoolRelease: the two assignments under the mutex.
Link(t) ==
    /\ Goto(t, "link", "publish")
    /\ next' = [next EXCEPT ![p[t]] = freelist]
    /\ UNCHANGED <<freelist, top, freearea_start, llock, p, exited, free, peak>>

Publish(t) ==
    /\ Goto(t, "publish", "done")
    /\ freelist' = p[t]
    /\ free' = free \cup {p[t]}
    /\ p' = [p EXCEPT ![t] = NULL]
    /\ llock' = NULL
    /\ UNCHANGED <<next, top, freearea_start, exited, peak>>

\* The steps a thread takes on its own once it has been created.
Step(t) ==
    \/ Check(t) \/ LockRecycle(t) \/ Recheck(t) \/ Pop(t) \/ MemPoolAlloc(t)
    \/ AllocChunk(t) \/ LockRelease(t) \/ Link(t) \/ Publish(t)

Next == \E t \in Threads : Create(t) \/ Step(t) \/ Push(t) \/ End(t)

Spec == Init /\ [][Next]_vars

\* The scheduler runs every thread that can run.  Threads never start twice,
\* so the mutex is taken finitely often and weak fairness suffices.
FairSpec == Spec /\ \A t \in Threads : WF_vars(Step(t))

-----------------------------------------------------------------------------
(***************************************************************************)
(* Properties.                                                             *)
(***************************************************************************)
Owners == {"run", "release", "link", "publish"}
Locked == {"recheck", "pop", "link", "publish"}

\* Every variable has its type, and the pointer that recycle_chunk dereferences
\* with the mutex held, and later the thread, is a chunk of the pool, not NULL.
TypeOK ==
    /\ freelist \in Chunks \cup {NULL}
    /\ next \in [Chunks -> Chunks \cup {NULL}]
    /\ top \in [Chunks -> Threads \cup {NULL}]
    /\ freearea_start \in Nat
    /\ llock \in Threads \cup {NULL}
    /\ pc \in [Threads -> {"none", "check", "lock", "recheck", "pop", "bump",
                           "alloc_chunk", "run", "release", "link", "publish",
                           "done"}]
    /\ p \in [Threads -> Nat \cup {NULL}]
    /\ exited \in BOOLEAN
    /\ free \in SUBSET Chunks
    /\ peak \in Nat
    /\ \A t \in Threads : pc[t] \in Owners \cup {"pop"} => p[t] \in Chunks

\* A chunk has one owner: two threads never have the same shadow stack, and
\* none has one that is on the free list or that a later fetch_add returns.
Exclusive ==
    \A t \in Threads : pc[t] \in Owners =>
        /\ p[t] \notin free
        /\ p[t] < freearea_start
        /\ \A u \in Threads \ {t} : pc[u] \in Owners \cup {"alloc_chunk"} =>
                                        p[u] # p[t]

\* The list stays a list: it holds the released chunks, each linked once, and
\* its links lead to no chunk in use.
WellLinked ==
    /\ freelist = NULL <=> free = {}
    /\ freelist \in free \cup {NULL}
    /\ \A c \in free :
        /\ next[c] \in free \cup {NULL}
        /\ next[c] = freelist => freelist = NULL
        /\ \A d \in free : next[c] = next[d] /\ next[c] # NULL => c = d

\* The entries of the shadow stack a thread runs on are its own: neither left by
\* an earlier owner of the chunk, nor pushed by another thread that was given the
\* chunk too.
OwnEntries == \A t \in Threads : pc[t] \in Owners => top[p[t]] \in {NULL, t}

\* When threads give chunks back, the pool grows no larger than the number of
\* threads that were alive at once, whatever recycle_chunk's unlocked test saw:
\* a thread takes a new chunk only when every old one had an owner.
PoolBound ==
    Recycle => freearea_start + Cardinality({t \in Threads : pc[t] = "bump"})
                  <= peak

\* The process exits for want of a chunk only after it created as many threads
\* as the pool has chunks.  With main.c as it is (~Recycle) that is also the
\* number of threads a process can create in its life.
ExitLimit == exited => Cardinality({t \in Threads : pc[t] # "none"}) >= CHUNKS

\* Every thread created runs, unless the process exits.
ThreadsStart == \A t \in Threads :
                    pc[t] = "check" ~> (pc[t] = "run" \/ exited)
=============================================================================
