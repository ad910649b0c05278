------------------------------ MODULE ShadowArea ------------------------------
(***************************************************************************)
(* The shadow-area allocator of the kernel module (lkm/core/api.c) with    *)
(* the ioctl handlers that call it (lkm/core/chrdev_ioctl.c).              *)
(*                                                                         *)
(* A process (thread group) has one allocator descriptor, found by tgid in *)
(* the global xarray sa_allocators and kept alive by a kref.  Its xarray   *)
(* `threads' maps a slot number, which fixes a virtual address, to the     *)
(* descriptor of the thread whose shadow stack lives there.  The pages of  *)
(* a stack form a pagelist; pagelists no longer in use wait, zeroed, on    *)
(* the global free list gl_sa, shared by all processes.                    *)
(*                                                                         *)
(* A kernel thread of control executes one operation at a time; pc[t] is   *)
(* the point reached in it, and each action is the code between two places *)
(* where another thread can observe or change shared state: a lock         *)
(* acquisition, an xarray or kref call, an unlocked read.                  *)
(*                                                                         *)
(* Left out: TLB flushes, the layout of page tables below a whole area     *)
(* (see the README), and the order of gl_sa, which no property needs.      *)
(***************************************************************************)
EXTENDS Integers, FiniteSets

CONSTANTS
    Tgids,           \* thread groups
    Threads,         \* threads of all groups
    Group,           \* Group[t]: the thread group of t
    Descs,           \* identities of struct sa_allocator_desc, never reused
    Pagelists,       \* identities of struct sa_pagelist with their pages
    THREADS_LIMIT,   \* largest slot xa_alloc may hand out (api.h)
    GL_SA_CAPACITY,  \* intended capacity of the free list
    MayFail,         \* TRUE: kernel allocations may fail
    CopyFails,       \* TRUE: copy_to_user of the answer of sa_alloc may fail
    Careless,        \* threads that may FREE an address they do not hold, and
                     \* reopen the device while stacks are outstanding
    NULL,            \* no object
    XA_ZERO,         \* reserved xarray slot: xa_alloc with a NULL entry
    Zeroed           \* contents of a cleared stack

Ids == 0 .. THREADS_LIMIT

\* struct sa_thread_desc; its addr is id_to_addr of the slot it is stored in.
ThreadDesc == [tid : Threads, pagelist : Pagelists]

ASSUME Constants ==
    /\ Group \in [Threads -> Tgids]
    /\ THREADS_LIMIT \in Nat
    /\ GL_SA_CAPACITY \in Nat \ {0}
    /\ MayFail \in BOOLEAN
    /\ CopyFails \in BOOLEAN
    /\ Careless \subseteq Threads
    /\ NULL \notin Tgids \cup Threads \cup Descs \cup Pagelists \cup Ids
    /\ NULL \notin ThreadDesc /\ XA_ZERO \notin ThreadDesc /\ NULL # XA_ZERO
    /\ Zeroed \notin Threads \cup {NULL}
    /\ IsFiniteSet(Threads)

VARIABLES
    \* Shared kernel state
    sa_allocators,  \* xarray: tgid -> descriptor or NULL
    desc,           \* state of a descriptor's memory: "none", "live", "freed"
    tgid, kref, max_id,                 \* fields of the descriptors
    threads,        \* field: slot -> thread descriptor, XA_ZERO or NULL
    readers,        \* field al_lock: threads inside down_read
    gl_sa, gl_size, \* the free list (as a set) and its counter
    allocated,      \* pagelists whose pages come from the page allocator
    contents,       \* what the pages of a pagelist hold: a writer or Zeroed
    ptes,           \* pagelists the page table of a group maps in each slot
    \* Local variables of the running operations
    op, pc, alloc, parent, ppid, id, pagelist, err,
    src,            \* pagelist of the parent's stack, which sa_fork copies
    \* User space
    held,           \* slot whose address the thread uses as its shadow stack
    expect          \* what the thread must read there

descVars  == <<sa_allocators, desc, tgid, kref, max_id, threads, readers>>
pageVars  == <<gl_sa, gl_size, allocated, contents, ptes>>
localVars == <<op, pc, alloc, parent, ppid, id, pagelist, err, src>>
userVars  == <<held, expect>>
vars == <<descVars, pageVars, localVars, userVars>>

Init ==
    /\ sa_allocators = [g \in Tgids |-> NULL]
    /\ desc = [d \in Descs |-> "none"]
    /\ tgid = [d \in Descs |-> NULL]
    /\ kref = [d \in Descs |-> 0]
    /\ max_id = [d \in Descs |-> 0]
    /\ threads = [d \in Descs |-> [i \in Ids |-> NULL]]
    /\ readers = [d \in Descs |-> {}]
    /\ gl_sa = {} /\ gl_size = 0
    /\ allocated = {}
    /\ contents = [l \in Pagelists |-> Zeroed]
    /\ ptes = [g \in Tgids |-> [i \in Ids |-> {}]]
    /\ op = [t \in Threads |-> "none"]
    /\ pc = [t \in Threads |-> "idle"]
    /\ alloc = [t \in Threads |-> NULL]
    /\ parent = [t \in Threads |-> NULL]
    /\ ppid = [t \in Threads |-> NULL]
    /\ id = [t \in Threads |-> 0]
    /\ pagelist = [t \in Threads |-> NULL]
    /\ err = [t \in Threads |-> "ok"]
    /\ src = [t \in Threads |-> NULL]
    /\ held = [t \in Threads |-> NULL]
    /\ expect = [t \in Threads |-> Zeroed]

Goto(t, label) == pc' = [pc EXCEPT ![t] = label]

\* The operation of t ends with error e at label.
Fail(t, e, label) == Goto(t, label) /\ err' = [err EXCEPT ![t] = e]

-----------------------------------------------------------------------------
(***************************************************************************)
(* What the kernel primitives the code calls do to the shared state.       *)
(***************************************************************************)

\* Mutant: the reference is not taken.
KrefKeep(d) == kref

\* kref_get_unless_zero on a descriptor with references.
KrefGet(d) == [kref EXCEPT ![d] = @ + 1]

\* Mutant: the slot is read, not erased.
XaLoad(d, i) == threads

\* xa_erase of a slot.
XaErase(d, i) == [threads EXCEPT ![d][i] = NULL]

\* Mutant: no up_read.
KeepRead(d, t) == readers

\* Mutant: no down_write.
IgnoreReaders(d) == TRUE

\* up_read, and the condition under which down_write gets al_lock.
UpRead(d, t) == [readers EXCEPT ![d] = @ \ {t}]
CanWriteLock(d) == readers[d] = {}

\* Mutant: no clear_highpage.
ClearNothing(l) == contents

\* Mutant: no copy_highpage.
CopyNothing(to, from) == contents

\* __free_page, clear_highpage and copy_highpage on all pages of a pagelist.
FreePages(l) == allocated \ {l}
ClearPages(l) == [contents EXCEPT ![l] = Zeroed]
CopyPages(to, from) == [contents EXCEPT ![to] = contents[from]]

\* atomic64_max.
AtomicMax(d, i) == [max_id EXCEPT ![d] = IF @ >= i THEN @ ELSE i]

-----------------------------------------------------------------------------
(***************************************************************************)
(* Which threads of a process can enter the kernel.  The parent of a       *)
(* running IOCTL_SHADOW_FORK sits in fork() until the child is done, and   *)
(* a process just forked has one thread, the one that called fork().       *)
(***************************************************************************)
Forking(t) == op[t] = "fork" /\ pc[t] # "idle"

Blocked(t) == \E u \in Threads : /\ Forking(u)
                                 /\ ppid[u] = t \/ (u # t /\ Group[u] = Group[t])

Ready(t) == pc[t] = "idle" /\ ~Blocked(t)

(***************************************************************************)
(* alloc_create: a zeroed descriptor with one reference, that of its       *)
(* creator, enters sa_allocators.  When the group has one already          *)
(* (-EBUSY), or memory is short, nothing changes.  A careful process opens *)
(* the device once.                                                        *)
(***************************************************************************)
AllocCreate(t) ==
    \E d \in Descs :
        /\ Ready(t)
        /\ desc[d] = "none"
        /\ sa_allocators[Group[t]] = NULL
        /\ t \in Careless \/ \A e \in Descs : tgid[e] # Group[t]
        /\ desc' = [desc EXCEPT ![d] = "live"]
        /\ tgid' = [tgid EXCEPT ![d] = Group[t]]
        /\ kref' = [kref EXCEPT ![d] = 1]
        /\ sa_allocators' = [sa_allocators EXCEPT ![Group[t]] = d]
        /\ UNCHANGED <<max_id, threads, readers, pageVars, localVars, userVars>>

(***************************************************************************)
(* alloc_destroy, up to its alloc_put.  Its caller is the release of the   *)
(* device file, which the kernel runs when the file is closed and no ioctl *)
(* of the process is in progress.  A thread that waits in fork() is not in *)
(* an ioctl: another thread may close the file then, and a process that is *)
(* killed there closes it too.                                             *)
(***************************************************************************)
AllocDestroy(t) ==
    LET d == sa_allocators[Group[t]] IN
    /\ d # NULL
    /\ \A u \in Threads : Group[u] = Group[t] => pc[u] = "idle"
    /\ op' = [op EXCEPT ![t] = "destroy"]
    /\ Fail(t, "ok", "put")
    /\ alloc' = [alloc EXCEPT ![t] = d]
    /\ sa_allocators' = [sa_allocators EXCEPT ![Group[t]] = NULL]
    /\ UNCHANGED <<desc, tgid, kref, max_id, threads, readers, pageVars,
                   parent, ppid, id, pagelist, src, userVars>>

\* __free_pgd_range(0, 0, 0, 0): the range 0 .. 0 is the whole address space, so
\* no page table of group g maps an area any more.
FreePgdRange(g) == [ptes EXCEPT ![g] = [i \in Ids |-> {}]]

\* kref_put: the last reference runs alloc_destroy_callback, which frees the
\* page tables and then the descriptor.
AllocPut(t) ==
    LET d == alloc[t] IN
    /\ pc[t] = "put"
    /\ kref' = [kref EXCEPT ![d] = @ - 1]
    /\ \/ /\ kref[d] > 1
          /\ UNCHANGED <<desc, ptes>>
       \/ /\ kref[d] = 1
          /\ desc' = [desc EXCEPT ![d] = "freed"]
          /\ ptes' = FreePgdRange(tgid[d])
    /\ Goto(t, "ret")
    /\ UNCHANGED <<sa_allocators, tgid, max_id, threads, readers, gl_sa,
                   gl_size, allocated, contents, op, alloc, parent, ppid, id,
                   pagelist, err, src, userVars>>

\* Mutant: the result of alloc_find is not tested.
FindAllocUnchecked(t, o, label, e) ==
    /\ Ready(t)
    /\ op' = [op EXCEPT ![t] = o]
    /\ alloc' = [alloc EXCEPT ![t] = sa_allocators[Group[t]]]
    /\ Fail(t, "ok", label)

\* The calls that begin with alloc_find(current->tgid): a NULL result ends
\* the operation with error e.
FindAlloc(t, o, label, e) ==
    LET d == sa_allocators[Group[t]] IN
    /\ Ready(t)
    /\ op' = [op EXCEPT ![t] = o]
    /\ alloc' = [alloc EXCEPT ![t] = d]
    /\ IF d = NULL THEN Fail(t, e, "ret") ELSE Fail(t, "ok", label)

\* alloc_get, second half: kref_get_unless_zero on the descriptor found.
AllocGet(t) ==
    LET d == alloc[t]
        alive == kref[d] > 0
    IN
    /\ pc[t] = "get"
    /\ kref' = IF alive THEN KrefGet(d) ELSE kref
    /\ IF alive
       THEN Fail(t, "ok", IF op[t] = "alloc" THEN "reserve" ELSE "fork_parent")
       ELSE Fail(t, "ENOMEM", "ret")
    /\ UNCHANGED <<sa_allocators, desc, tgid, max_id, threads, readers,
                   pageVars, op, alloc, parent, ppid, id, pagelist, src, userVars>>

-----------------------------------------------------------------------------
(***************************************************************************)
(* The global free list.                                                   *)
(***************************************************************************)

\* Mutant: gl_size is not decremented.
GlSizeKept == gl_size

\* gl_size after a stack is taken from the list.
GlSizeTaken == gl_size - 1

\* kmalloc of the thread descriptor, then gl_alloc_stack: under gl_lock take a
\* recycled stack; with none there, allocate zeroed pages.
GlAllocStack(t) ==
    /\ pc[t] = "stack"
    /\ \/ /\ \E l \in gl_sa :
                /\ gl_sa' = gl_sa \ {l}
                /\ pagelist' = [pagelist EXCEPT ![t] = l]
          /\ gl_size' = GlSizeTaken
          /\ Fail(t, "ok", IF op[t] = "alloc" THEN "map" ELSE "fork_lookup")
          /\ UNCHANGED <<allocated, contents>>
       \/ /\ gl_sa = {}
          /\ \E l \in Pagelists \ allocated :
                /\ allocated' = allocated \cup {l}
                /\ contents' = [contents EXCEPT ![l] = Zeroed]
                /\ pagelist' = [pagelist EXCEPT ![t] = l]
          /\ Fail(t, "ok", IF op[t] = "alloc" THEN "map" ELSE "fork_lookup")
          /\ UNCHANGED <<gl_sa, gl_size>>
       \/ /\ MayFail \/ (gl_sa = {} /\ allocated = Pagelists)
          /\ Fail(t, "ENOMEM", IF op[t] = "alloc" THEN "erase" ELSE "put")
          /\ UNCHANGED <<gl_sa, gl_size, allocated, contents, pagelist>>
    /\ UNCHANGED <<descVars, ptes, op, alloc, parent, ppid, id, src, userVars>>

\* Mutant: the error path returns without alloc_put.
AfterGlFreeNoPut(t) == IF op[t] = "alloc" THEN "erase" ELSE "ret"

\* Where the operation goes on after gl_free.
AfterGlFree(t) == IF op[t] = "alloc" THEN "erase" ELSE "put"

\* Mutant: the capacity is not tested.
GlNeverFull == FALSE

GlFull == gl_size >= GL_SA_CAPACITY

\* gl_free, first part: gl_size is read without gl_lock.  A full list sends
\* the pages back to the page allocator, else they are cleared.
GlFreeCheck(t) ==
    LET l == pagelist[t] IN
    /\ pc[t] = "gl_free"
    /\ \/ /\ GlFull
          /\ allocated' = FreePages(l)
          /\ pagelist' = [pagelist EXCEPT ![t] = NULL]
          /\ Goto(t, AfterGlFree(t))
          /\ UNCHANGED contents
       \/ /\ ~GlFull
          /\ contents' = ClearPages(l)
          /\ Goto(t, "gl_insert")
          /\ UNCHANGED <<allocated, pagelist>>
    /\ UNCHANGED <<descVars, gl_sa, gl_size, ptes, op, alloc, parent, ppid, id,
                   err, src, userVars>>

\* gl_free, second part: the insertion under gl_lock.
GlFreeInsert(t) ==
    /\ pc[t] = "gl_insert"
    /\ gl_size' = gl_size + 1
    /\ gl_sa' = gl_sa \cup {pagelist[t]}
    /\ pagelist' = [pagelist EXCEPT ![t] = NULL]
    /\ Goto(t, AfterGlFree(t))
    /\ UNCHANGED <<descVars, allocated, contents, ptes, op, alloc, parent,
                   ppid, id, err, src, userVars>>

\* vma_free, when the module is unloaded: the kernel allows that only when no
\* process has the device open, so every allocator has been destroyed.
VmaFree ==
    /\ \A t \in Threads : pc[t] = "idle"
    /\ \A g \in Tgids : sa_allocators[g] = NULL
    /\ gl_sa' = {}
    /\ gl_size' = 0
    /\ allocated' = allocated \ gl_sa
    /\ UNCHANGED <<descVars, contents, ptes, localVars, userVars>>

-----------------------------------------------------------------------------
(***************************************************************************)
(* Page tables.  ptes[g][i] is the set of pagelists some PTE of area i     *)
(* points to.                                                              *)
(***************************************************************************)

\* map_range with success: every PTE of the area points to the pages of l.
MapRange(m, g, i, l) == [m EXCEPT ![g][i] = {l}]

\* unmap_range: the call that would clear the PTEs is commented out, only the
\* TLB is flushed.
UnmapRange(m, g, i) == m

\* map_range running out of memory for a table: some PTEs have been set, and
\* unmap_range is called on the range.
MapRangeFailed(m, g, i, l) ==
    UnmapRange([m EXCEPT ![g][i] = @ \cup {l}], g, i)

\* The mapping step of sa_alloc (at "map") and of sa_fork (at "fork_map"),
\* under mmap_write_lock; sa_fork then raises max_id and is done.
Map(t) ==
    LET g == Group[t]
        d == alloc[t]
        i == id[t]
        l == pagelist[t]
        failed == IF pc[t] = "map" THEN "gl_free" ELSE "fork_erase"
    IN
    /\ pc[t] \in {"map", "fork_map"}
    /\ \/ /\ ptes' = MapRange(ptes, g, i, l)
          /\ \/ /\ pc[t] = "map"
                /\ Fail(t, "ok", "store")
                /\ UNCHANGED <<max_id, pagelist>>
             \/ /\ pc[t] = "fork_map"
                /\ Fail(t, "ok", "ret")
                /\ max_id' = AtomicMax(d, i)
                /\ pagelist' = [pagelist EXCEPT ![t] = NULL]
       \/ /\ MayFail
          /\ \/ UNCHANGED ptes
             \/ ptes' = MapRangeFailed(ptes, g, i, l)
          /\ Fail(t, "ENOMEM", failed)
          /\ UNCHANGED <<max_id, pagelist>>
    /\ UNCHANGED <<sa_allocators, desc, tgid, kref, threads, readers, gl_sa,
                   gl_size, allocated, contents, op, alloc, parent, ppid, id,
                   src, userVars>>

-----------------------------------------------------------------------------
(***************************************************************************)
(* IOCTL_SHADOW_REQ: sa_alloc.                                             *)
(***************************************************************************)
SaAlloc(t) ==
    /\ held[t] = NULL
    /\ FindAlloc(t, "alloc", "get", "ENOMEM")
    /\ UNCHANGED <<descVars, pageVars, parent, ppid, id, pagelist, src, userVars>>

\* xa_alloc reserves the lowest empty slot of 0 .. THREADS_LIMIT.
XaAlloc(t) ==
    LET d == alloc[t]
        empty == {i \in Ids : threads[d][i] = NULL}
    IN
    /\ pc[t] = "reserve"
    /\ \/ \E i \in empty :
            /\ \A j \in empty : i <= j
            /\ threads' = [threads EXCEPT ![d][i] = XA_ZERO]
            /\ id' = [id EXCEPT ![t] = i]
            /\ Fail(t, "ok", "stack")
       \/ /\ empty = {} \/ MayFail
          /\ Fail(t, "ENOMEM", "put")
          /\ UNCHANGED <<threads, id>>
    /\ UNCHANGED <<sa_allocators, desc, tgid, kref, max_id, readers, pageVars,
                   op, alloc, parent, ppid, pagelist, src, userVars>>

\* Mutant: the success path falls through to alloc_put.
SaAllocStorePut(t) ==
    LET d == alloc[t] IN
    /\ pc[t] = "store"
    /\ max_id' = AtomicMax(d, id[t])
    /\ threads' = [threads EXCEPT ![d][id[t]] =
                        [tid |-> t, pagelist |-> pagelist[t]]]
    /\ pagelist' = [pagelist EXCEPT ![t] = NULL]
    /\ Goto(t, "put")
    /\ UNCHANGED <<sa_allocators, desc, tgid, kref, readers, pageVars, op,
                   alloc, parent, ppid, id, err, src, userVars>>

\* atomic64_max and xa_store: the stack is registered with the reference taken
\* by alloc_get, and the address is returned.
SaAllocStore(t) ==
    LET d == alloc[t] IN
    /\ pc[t] = "store"
    /\ max_id' = AtomicMax(d, id[t])
    /\ threads' = [threads EXCEPT ![d][id[t]] =
                        [tid |-> t, pagelist |-> pagelist[t]]]
    /\ pagelist' = [pagelist EXCEPT ![t] = NULL]
    /\ Goto(t, "ret")
    /\ UNCHANGED <<sa_allocators, desc, tgid, kref, readers, pageVars, op,
                   alloc, parent, ppid, id, err, src, userVars>>

\* Mutant: the error path of sa_fork skips gl_free.
EraseSlotKeepStack(t) ==
    /\ pc[t] \in {"erase", "fork_erase"}
    /\ threads' = XaErase(alloc[t], id[t])
    /\ pagelist' = [pagelist EXCEPT ![t] = NULL]
    /\ Goto(t, "put")
    /\ UNCHANGED <<sa_allocators, desc, tgid, kref, max_id, readers, pageVars,
                   op, alloc, parent, ppid, id, err, src, userVars>>

\* The label err_erase of sa_alloc, and of sa_fork, which frees the stack only
\* afterwards.
EraseSlot(t) ==
    /\ pc[t] \in {"erase", "fork_erase"}
    /\ threads' = XaErase(alloc[t], id[t])
    /\ Goto(t, IF pc[t] = "erase" THEN "put" ELSE "gl_free")
    /\ UNCHANGED <<sa_allocators, desc, tgid, kref, max_id, readers, pageVars,
                   op, alloc, parent, ppid, id, pagelist, err, src, userVars>>

-----------------------------------------------------------------------------
(***************************************************************************)
(* IOCTL_SHADOW_FREE: sa_free of the area in slot i.                       *)
(***************************************************************************)
\* Mutant: the end of the area, not its start, is compared with SS_END.
SaFreeShort(t, i) ==
    /\ held[t] = i \/ t \in Careless
    /\ id' = [id EXCEPT ![t] = i]
    /\ held' = [held EXCEPT ![t] = NULL]
    /\ \/ /\ i + 1 >= THREADS_LIMIT
          /\ Ready(t)
          /\ op' = [op EXCEPT ![t] = "free"]
          /\ Fail(t, "EINVAL", "ret")
          /\ UNCHANGED alloc
       \/ /\ i + 1 < THREADS_LIMIT
          /\ FindAlloc(t, "free", "free_erase", "EINVAL")
    /\ UNCHANGED <<descVars, pageVars, parent, ppid, pagelist, src, expect>>

\* sa_free up to the lookup of the allocator.
SaFree(t, i) ==
    /\ held[t] = i \/ t \in Careless
    /\ id' = [id EXCEPT ![t] = i]
    /\ held' = [held EXCEPT ![t] = NULL]
    /\ \/ /\ i >= THREADS_LIMIT                     \* addr >= SS_END
          /\ Ready(t)
          /\ op' = [op EXCEPT ![t] = "free"]
          /\ Fail(t, "EINVAL", "ret")
          /\ UNCHANGED alloc
       \/ /\ i < THREADS_LIMIT
          /\ FindAlloc(t, "free", "free_erase", "EINVAL")
    /\ UNCHANGED <<descVars, pageVars, parent, ppid, pagelist, src, expect>>

\* xa_erase with al_lock held for writing.  A slot that is only reserved is
\* emptied too, but counts as not found.
SaFreeErase(t) ==
    LET d == alloc[t]
        e == threads[d][id[t]]
    IN
    /\ pc[t] = "free_erase"
    /\ CanWriteLock(d)
    /\ threads' = XaErase(d, id[t])
    /\ IF e \in ThreadDesc
       THEN /\ pagelist' = [pagelist EXCEPT ![t] = e.pagelist]
            /\ Fail(t, "ok", "unmap")
       ELSE /\ Fail(t, "EINVAL", "ret")
            /\ UNCHANGED pagelist
    /\ UNCHANGED <<sa_allocators, desc, tgid, kref, max_id, readers, pageVars,
                   op, alloc, parent, ppid, id, src, userVars>>

SaFreeUnmap(t) ==
    /\ pc[t] = "unmap"
    /\ ptes' = UnmapRange(ptes, Group[t], id[t])
    /\ Goto(t, "gl_free")
    /\ UNCHANGED <<descVars, gl_sa, gl_size, allocated, contents, op, alloc,
                   parent, ppid, id, pagelist, err, src, userVars>>

-----------------------------------------------------------------------------
(***************************************************************************)
(* IOCTL_SHADOW_FORK: sa_fork, called in the child with the identifiers of *)
(* the parent thread p, which waits in fork().                             *)
(***************************************************************************)
SaFork(t, p) ==
    /\ Group[p] # Group[t]
    /\ held[t] = NULL
    /\ Ready(p)
    /\ \A u \in Threads : Group[u] = Group[t] => Ready(u)
    /\ ppid' = [ppid EXCEPT ![t] = p]
    /\ FindAlloc(t, "fork", "get", "ENOMEM")
    /\ UNCHANGED <<descVars, pageVars, parent, id, pagelist, src, userVars>>

\* alloc_find of the parent's descriptor; no reference is taken.
SaForkParent(t) ==
    LET d == sa_allocators[Group[ppid[t]]] IN
    /\ pc[t] = "fork_parent"
    /\ parent' = [parent EXCEPT ![t] = d]
    /\ IF d = NULL THEN Fail(t, "ENOENT", "put") ELSE Fail(t, "ok", "stack")
    /\ UNCHANGED <<descVars, pageVars, op, alloc, ppid, id, pagelist, src, userVars>>

\* down_read and the search of the parent's slots for its tid, lowest first.
\* When the descriptor has been freed meanwhile, the memory may still look like
\* the empty table it held, or the thread does not come back from it.
SaForkLookup(t) ==
    LET d == parent[t]
        found == {i \in Ids : /\ threads[d][i] \in ThreadDesc
                              /\ threads[d][i].tid = ppid[t]}
    IN
    /\ pc[t] = "fork_lookup"
    /\ \/ \E i \in found :
            /\ \A j \in found : i <= j
            /\ id' = [id EXCEPT ![t] = i]
            /\ src' = [src EXCEPT ![t] = threads[d][i].pagelist]
            /\ readers' = [readers EXCEPT ![d] = @ \cup {t}]
            /\ Fail(t, "ok", "fork_copy")
            /\ UNCHANGED <<op, ppid>>
       \/ /\ found = {}
          /\ Fail(t, "ENOENT", "gl_free")
          /\ UNCHANGED <<id, src, readers, op, ppid>>
       \/ /\ desc[d] = "freed"
          /\ op' = [op EXCEPT ![t] = "none"]
          /\ ppid' = [ppid EXCEPT ![t] = NULL]
          /\ Goto(t, "oops")
          /\ UNCHANGED <<id, src, readers, err>>
    /\ UNCHANGED <<sa_allocators, desc, tgid, kref, max_id, threads, pageVars,
                   alloc, parent, pagelist, userVars>>

\* The page copies and up_read.
SaForkCopy(t) ==
    LET d == parent[t] IN
    /\ pc[t] = "fork_copy"
    /\ contents' = CopyPages(pagelist[t], src[t])
    /\ src' = [src EXCEPT ![t] = NULL]
    /\ readers' = UpRead(d, t)
    /\ Goto(t, "fork_insert")
    /\ UNCHANGED <<sa_allocators, desc, tgid, kref, max_id, threads, gl_sa,
                   gl_size, allocated, ptes, op, alloc, parent, ppid, id,
                   pagelist, err, userVars>>

\* xa_insert into the same slot of the child's table.
SaForkInsert(t) ==
    LET d == alloc[t]
        i == id[t]
    IN
    /\ pc[t] = "fork_insert"
    /\ \/ /\ threads[d][i] = NULL
          /\ threads' = [threads EXCEPT ![d][i] =
                            [tid |-> t, pagelist |-> pagelist[t]]]
          /\ Fail(t, "ok", "fork_map")
       \/ /\ threads[d][i] # NULL
          /\ Fail(t, "EBUSY", "gl_free")
          /\ UNCHANGED threads
       \/ /\ MayFail
          /\ Fail(t, "ENOMEM", "gl_free")
          /\ UNCHANGED threads
    /\ UNCHANGED <<sa_allocators, desc, tgid, kref, max_id, readers, pageVars,
                   op, alloc, parent, ppid, id, pagelist, src, userVars>>

-----------------------------------------------------------------------------
(***************************************************************************)
(* The end of an ioctl: the result is copied to user space.  The thread    *)
(* then uses the area it was given; a forked child, which is told no       *)
(* address, goes on with that of its parent.  If copy_to_user fails after  *)
(* sa_alloc, the stack stays registered and the thread never learns where. *)
(***************************************************************************)
Return(t) ==
    /\ pc[t] = "ret"
    /\ Goto(t, "idle")
    /\ \/ /\ op[t] = "alloc" /\ err[t] = "ok"
          /\ \/ /\ held' = [held EXCEPT ![t] = id[t]]
                /\ expect' = [expect EXCEPT ![t] = Zeroed]
             \/ CopyFails /\ UNCHANGED userVars
       \/ /\ op[t] = "fork" /\ err[t] = "ok"
          /\ held' = [held EXCEPT ![t] = held[ppid[t]]]
          /\ expect' = [expect EXCEPT ![t] = expect[ppid[t]]]
       \/ /\ op[t] \in {"free", "destroy"} \/ err[t] # "ok"
          /\ UNCHANGED userVars
    /\ op' = [op EXCEPT ![t] = "none"]
    /\ alloc' = [alloc EXCEPT ![t] = NULL]
    /\ parent' = [parent EXCEPT ![t] = NULL]
    /\ ppid' = [ppid EXCEPT ![t] = NULL]
    /\ id' = [id EXCEPT ![t] = 0]
    /\ pagelist' = [pagelist EXCEPT ![t] = NULL]
    /\ err' = [err EXCEPT ![t] = "ok"]
    /\ UNCHANGED <<descVars, pageVars, src>>

\* A thread stores to the area it holds, through the page table of its group.
UserWrite(t) ==
    /\ Ready(t)
    /\ held[t] # NULL
    /\ contents' = [l \in Pagelists |-> IF l \in ptes[Group[t]][held[t]]
                                        THEN t ELSE contents[l]]
    /\ expect' = [expect EXCEPT ![t] = t]
    /\ UNCHANGED <<descVars, gl_sa, gl_size, allocated, ptes, localVars, held>>

\* The steps of an operation in progress.
Step(t) ==
    \/ AllocPut(t) \/ AllocGet(t)
    \/ GlAllocStack(t) \/ GlFreeCheck(t) \/ GlFreeInsert(t)
    \/ Map(t) \/ XaAlloc(t) \/ SaAllocStore(t) \/ EraseSlot(t)
    \/ SaFreeErase(t) \/ SaFreeUnmap(t)
    \/ SaForkParent(t) \/ SaForkLookup(t) \/ SaForkCopy(t) \/ SaForkInsert(t)
    \/ Return(t)

\* Everything but the stores of the user threads.
KernelNext ==
    \/ \E t \in Threads : \/ AllocCreate(t) \/ AllocDestroy(t)
                          \/ SaAlloc(t)
                          \/ \E i \in Ids : SaFree(t, i)
                          \/ \E p \in Threads : SaFork(t, p)
                          \/ Step(t)
    \/ VmaFree

Next == KernelNext \/ \E t \in Threads : UserWrite(t)

Spec == Init /\ [][Next]_vars

\* The runs about what the pages hold need the stores, the others do not.
KernelSpec == Init /\ [][KernelNext]_vars

(***************************************************************************)
(* Fairness.  A thread inside the kernel keeps running.  The writer of     *)
(* al_lock competes with readers; a rw_semaphore queues them, so a writer  *)
(* that can repeatedly go on does.                                         *)
(***************************************************************************)
Fairness == \A t \in Threads : WF_vars(Step(t)) /\ SF_vars(SaFreeErase(t))

FairKernelSpec == KernelSpec /\ Fairness

-----------------------------------------------------------------------------
(***************************************************************************)
(* Properties.                                                             *)
(***************************************************************************)
Labels == {"idle", "get", "reserve", "stack", "map", "store", "erase",
           "gl_free", "gl_insert", "put", "ret", "free_erase", "unmap",
           "fork_parent", "fork_lookup", "fork_copy", "fork_insert",
           "fork_map", "fork_erase",
           "oops"}     \* the thread died in sa_fork, or hangs there

Errors == {"ok", "ENOMEM", "ENOENT", "EBUSY", "EINVAL"}

\* Where an operation dereferences its local pointers.
UsesParent == {"fork_lookup", "fork_copy"}
UsesPages  == {"map", "store", "unmap", "gl_free", "gl_insert", "fork_lookup",
               "fork_copy", "fork_insert", "fork_map", "fork_erase", "oops"}
UsesAlloc  == Labels \ {"idle", "ret"}

\* Where it owns a reference to alloc[t]: from alloc_get, or from the slot it
\* emptied, up to alloc_put or until the reference passes to a slot it filled.
HoldsRef   == UsesAlloc \ {"get", "free_erase", "fork_map", "fork_erase"}

\* Where pagelist[t] belongs to the operation alone.
OwnsPages  == UsesPages \ {"fork_map", "fork_erase"}

Registered(d, i) == threads[d][i] \in ThreadDesc

DescSorts ==
    /\ sa_allocators \in [Tgids -> Descs \cup {NULL}]
    /\ desc \in [Descs -> {"none", "live", "freed"}]
    /\ tgid \in [Descs -> Tgids \cup {NULL}]
    /\ kref \in [Descs -> Int]
    /\ max_id \in [Descs -> Ids]
    /\ threads \in [Descs -> [Ids -> ThreadDesc \cup {NULL, XA_ZERO}]]
    /\ readers \in [Descs -> SUBSET Threads]

PageSorts ==
    /\ gl_sa \in SUBSET Pagelists
    /\ gl_size \in Int
    /\ allocated \in SUBSET Pagelists
    /\ contents \in [Pagelists -> Threads \cup {Zeroed}]
    /\ ptes \in [Tgids -> [Ids -> SUBSET Pagelists]]

LocalSorts ==
    /\ op \in [Threads -> {"none", "alloc", "free", "fork", "destroy"}]
    /\ pc \in [Threads -> Labels]
    /\ alloc \in [Threads -> Descs \cup {NULL}]
    /\ parent \in [Threads -> Descs \cup {NULL}]
    /\ ppid \in [Threads -> Threads \cup {NULL}]
    /\ id \in [Threads -> Ids]
    /\ pagelist \in [Threads -> Pagelists \cup {NULL}]
    /\ err \in [Threads -> Errors]
    /\ src \in [Threads -> Pagelists \cup {NULL}]
    /\ held \in [Threads -> Ids \cup {NULL}]
    /\ expect \in [Threads -> Threads \cup {Zeroed}]

\* No operation reaches a dereference with a NULL pointer.
NoNullDeref ==
    \A t \in Threads :
        /\ pc[t] \in UsesAlloc => alloc[t] # NULL
        /\ pc[t] \in UsesParent => parent[t] # NULL
        /\ pc[t] \in UsesPages <=> pagelist[t] # NULL
        /\ pc[t] = "fork_copy" <=> src[t] # NULL
        /\ Forking(t) => ppid[t] # NULL

\* Every variable has its type, and the pointers that sa_alloc, sa_fork,
\* sa_free and the gl_* helpers follow are not NULL where they follow them.
TypeOK == DescSorts /\ PageSorts /\ LocalSorts /\ NoNullDeref

\* The device of the parent process has been closed since the child of t found
\* the parent's descriptor.
ParentClosed(t) == sa_allocators[Group[ppid[t]]] # parent[t]

\* A descriptor is freed only after the last access: whenever an operation is
\* about to use the allocator it found (alloc_find takes no reference), kfree in
\* alloc_destroy_callback has not run on it.  For the parent's descriptor, to
\* which sa_fork takes no reference either, this holds throughout the copy,
\* whoever frees stacks or closes the device; at down_read it holds unless the
\* parent's process has closed the device since alloc_find.
NoUseAfterFree ==
    \A t \in Threads :
        /\ pc[t] \in UsesAlloc => desc[alloc[t]] = "live"
        /\ pc[t] = "fork_copy" => desc[parent[t]] = "live"
        /\ pc[t] = "fork_lookup" => desc[parent[t]] = "live" \/ ParentClosed(t)

\* The references to d that somebody will drop: one for its place in
\* sa_allocators, one for each stack registered, one for each operation that
\* holds one.
References(d) ==
    Cardinality({g \in Tgids : sa_allocators[g] = d})
    + Cardinality({i \in Ids : Registered(d, i)})
    + Cardinality({t \in Threads : pc[t] \in HoldsRef /\ alloc[t] = d})

\* kref counts exactly these references: whatever fails in sa_alloc, sa_fork
\* or sa_free, and wherever, none is lost and none is dropped twice.
RefCount == \A d \in Descs : kref[d] = References(d)

\* The same with processes that free areas they do not hold: xa_store may then
\* overwrite a descriptor, whose reference is lost, but none is dropped twice.
RefsCovered == \A d \in Descs : kref[d] >= References(d)

\* Stacks never have two owners: the free list, the registered threads of all
\* processes and the operations in progress own pairwise different pagelists,
\* all of them made of pages that have not been given back to the kernel.
ExclusivePages ==
    /\ gl_sa \subseteq allocated
    /\ \A t \in Threads : pc[t] \in OwnsPages =>
            /\ pagelist[t] \in allocated \ gl_sa
            /\ \A u \in Threads \ {t} :
                    pc[u] \in OwnsPages => pagelist[u] # pagelist[t]
    /\ \A d \in Descs, i \in Ids : Registered(d, i) =>
            /\ threads[d][i].pagelist \in allocated \ gl_sa
            /\ \A t \in Threads : pc[t] \in OwnsPages =>
                    pagelist[t] # threads[d][i].pagelist
            /\ \A e \in Descs, j \in Ids :
                    /\ Registered(e, j)
                    /\ threads[e][j].pagelist = threads[d][i].pagelist
                    => d = e /\ i = j

\* No stack is lost: pages taken from the kernel are on the free list, are
\* registered, or are in the hands of an operation.
NoLeak ==
    \A l \in allocated :
        \/ l \in gl_sa
        \/ \E d \in Descs, i \in Ids : /\ Registered(d, i)
                                       /\ threads[d][i].pagelist = l
        \/ \E t \in Threads : pc[t] \in OwnsPages /\ pagelist[t] = l

\* gl_size, which gl_free reads without gl_lock, is the length of gl_sa.
GlSize == gl_size = Cardinality(gl_sa)

\* The unlocked test of gl_free lets the free list exceed its capacity, but by
\* no more than the threads that can be between the test and the insertion.
GlBound ==
    gl_size + Cardinality({t \in Threads : pc[t] = "gl_insert"})
        <= GL_SA_CAPACITY - 1 + Cardinality(Threads)

\* FREE of an area its thread was given succeeds as long as the allocator
\* exists, with one exception: xa_alloc may hand out slot THREADS_LIMIT, whose
\* address is SS_END, and sa_free takes that address for one out of range.
FreeRefusals ==
    \A t \in Threads :
        /\ op[t] = "free" /\ pc[t] = "ret" /\ err[t] # "ok"
        /\ sa_allocators[Group[t]] # NULL
        => id[t] = THREADS_LIMIT

\* The stack sa_fork copies from stays the parent's while al_lock is held: no
\* concurrent sa_free or unload puts it on the free list, gives its pages back
\* or hands it to another operation before the copy is complete.
ForkSourceStable ==
    \A t \in Threads : pc[t] = "fork_copy" =>
        /\ src[t] \in allocated \ gl_sa
        /\ \A u \in Threads : pc[u] \in OwnsPages => pagelist[u] # src[t]

\* A thread in user space with an area sees one pagelist there, the one
\* registered for it, and reads back what it wrote itself, or, before it
\* writes, zeroes after sa_alloc and its parent's data after sa_fork.
Isolation ==
    \A t \in Threads : pc[t] = "idle" /\ held[t] # NULL =>
        \E d \in Descs :
            /\ tgid[d] = Group[t]
            /\ Registered(d, held[t])
            /\ LET e == threads[d][held[t]] IN
               /\ e.tid = t
               /\ ptes[Group[t]][held[t]] = {e.pagelist}
               /\ contents[e.pagelist] = expect[t]

\* What a thread sees in its area, as the page table has it.
visible ==
    [t \in Threads |->
        IF held[t] = NULL THEN NULL
        ELSE contents[CHOOSE l \in Pagelists : l \in ptes[Group[t]][held[t]]]]

Abstract == INSTANCE PrivateStacks WITH stack <- visible, from <- ppid

\* The module gives every thread a stack of its own (PrivateStacks): whatever
\* the other threads and processes do through REQ, FREE and FORK, each step
\* changes the view of at most one thread, and only in the ways promised; after
\* FORK the child sees what its parent sees.
ImplementsPrivateStacks == Abstract!Spec

\* Every ioctl returns: the FREE of one thread, in particular, does not wait for
\* ever for the children that copy stacks of its process.  The exception is a
\* child that met a freed descriptor.
OpsReturn == \A t \in Threads : []<>(pc[t] \in {"idle", "oops"})

-----------------------------------------------------------------------------
(***************************************************************************)
(* What the comments of the code say and the code does not do.             *)
(***************************************************************************)

\* sa_fork, on alloc_find(parent_tgid): "No ref-count because the parent thread
\* is blocked in fork() until this function returns, so the parent thread cannot
\* exit and destroy the allocator".  Then the descriptor would be there when
\* down_read takes its al_lock.
ParentKept == \A t \in Threads : pc[t] \in UsesParent => desc[parent[t]] = "live"
=============================================================================
