------------------------- MODULE ShadowAreaTenancy --------------------------
(***************************************************************************)
(* What the module promises to careful processes, for any number of        *)
(* processes, threads, slots and stacks and whatever allocation fails: no  *)
(* reference and no stack is lost, FREE of an area succeeds, and each      *)
(* thread sees its own stack with what it wrote there, so that the module  *)
(* implements PrivateStacks.                                               *)
(***************************************************************************)
EXTENDS ShadowAreaProofs

\* Threads free only the area they hold, and a process opens the device once.
\* If the answer of IOCTL_SHADOW_REQ can get lost on its way to user space, the
\* process must not fork: sa_fork could find the stack its parent never heard
\* of instead of the one it uses.
Careful ==
    /\ Careless = {}
    /\ CopyFails => \A t, u \in Threads : Group[t] = Group[u]

-----------------------------------------------------------------------------
(***************************************************************************)
(* The state of the operations.                                            *)
(***************************************************************************)

\* What the locals of an operation say about where it is.
OpState ==
    \A t \in Threads :
        /\ op[t] = "none" <=> pc[t] \in {"idle", "oops"}
        /\ ppid[t] # NULL => op[t] = "fork"
        /\ held[t] # NULL => op[t] \in {"none", "destroy"}
        /\ pc[t] = "store" \/ (op[t] = "free" /\ pc[t] # "ret") => err[t] = "ok"
        /\ /\ op[t] \in {"alloc", "fork"}
           /\ pc[t] \in {"put", "erase", "fork_erase", "gl_free", "gl_insert"}
           => err[t] # "ok"
        /\ op[t] = "fork" => ~CopyFails

\* A process has at most one descriptor, ever, and the threads registered in it
\* are its own.
OneDesc ==
    /\ \A d, e \in Descs : tgid[d] # NULL /\ tgid[d] = tgid[e] => d = e
    /\ \A d \in Descs, i \in Ids :
            Registered(d, i) => tgid[d] = Group[threads[d][i].tid]

\* Slot i of d is the area of t.
Area(d, i, t) == Registered(d, i) /\ threads[d][i].tid = t

\* Where sa_alloc has a slot reserved.
Reserves(t) ==
    /\ op[t] = "alloc"
    /\ pc[t] \in {"stack", "map", "store", "erase", "gl_free", "gl_insert"}

\* Where the slot id[t] is registered for t: before FREE takes it, and after REQ
\* and FORK have filled it.
Settled(t) ==
    \/ pc[t] \in {"free_erase", "fork_map", "fork_erase"}
    \/ pc[t] = "ret" /\ op[t] \in {"alloc", "fork"} /\ err[t] = "ok"

\* Where sa_fork has chosen the slot of its parent.
Copying(t) ==
    \/ pc[t] \in {"fork_copy", "fork_insert", "fork_map", "fork_erase"}
    \/ pc[t] = "ret" /\ op[t] = "fork" /\ err[t] = "ok"

\* A reserved slot belongs to one operation.
Reserved ==
    \A t \in Threads : Reserves(t) =>
        /\ threads[alloc[t]][id[t]] = XA_ZERO
        /\ \A u \in Threads \ {t} :
                Reserves(u) /\ alloc[u] = alloc[t] => id[u] # id[t]

\* The area a thread uses, and the one its operation is about, are registered
\* for it.
Tenants ==
    \A t \in Threads :
        /\ held[t] # NULL =>
                \E d \in Descs : tgid[d] = Group[t] /\ Area(d, held[t], t)
        /\ Settled(t) => alloc[t] # NULL /\ Area(alloc[t], id[t], t)

\* Why slot i of d is registered for u: u uses it, or an operation of u is about
\* it, or it is the last slot, which FREE refuses, or the process of u has closed
\* the device.
Used(d, i, u) ==
    \/ held[u] = i
    \/ Settled(u) /\ id[u] = i
    \/ i = THREADS_LIMIT
    \/ sa_allocators[tgid[d]] = NULL

NoOther ==
    ~CopyFails => \A d \in Descs, i \in Ids :
                        Registered(d, i) => Used(d, i, threads[d][i].tid)

\* What sa_fork can find: in the table of its parent's process the parent has no
\* area but the one it uses, even when the device is closed meanwhile.
ParentArea ==
    \A t \in Threads : (pc[t] = "stack" /\ op[t] = "fork") \/ pc[t] = "fork_lookup" =>
        \A i \in Ids : Area(parent[t], i, ppid[t]) =>
            held[ppid[t]] = i \/ i = THREADS_LIMIT

\* So sa_fork finds that area.
ForkSlot ==
    \A t \in Threads : Copying(t) =>
        \/ id[t] = held[ppid[t]]
        \/ held[ppid[t]] = NULL /\ id[t] = THREADS_LIMIT

\* A process that frees an area has had a descriptor; if FREE was refused, the
\* process has closed the device or the slot is the last one.
Refusals ==
    /\ \A t \in Threads :
            op[t] = "free" => \E d \in Descs : tgid[d] = Group[t]
    /\ FreeRefusals

\* The inductive invariant of the slots.
Tenancy ==
    /\ Refs /\ ExclusivePages /\ OpState /\ OneDesc /\ Reserved /\ Tenants
    /\ NoOther /\ ParentArea /\ ForkSlot /\ Refusals
-----------------------------------------------------------------------------
(***************************************************************************)
(* Who does what to whom.                                                  *)
(***************************************************************************)

\* A step of thread t.
Acts(t) ==
    \/ AllocCreate(t) \/ AllocDestroy(t) \/ SaAlloc(t)
    \/ (\E i \in Ids : SaFree(t, i)) \/ (\E p \in Threads : SaFork(t, p))
    \/ Step(t) \/ UserWrite(t)

\* The other threads keep their locals.
Alone(t) ==
    \A u \in Threads \ {t} :
        /\ op'[u] = op[u] /\ pc'[u] = pc[u] /\ alloc'[u] = alloc[u]
        /\ parent'[u] = parent[u]
        /\ ppid'[u] = ppid[u] /\ id'[u] = id[u] /\ pagelist'[u] = pagelist[u]
        /\ err'[u] = err[u] /\ src'[u] = src[u]
        /\ held'[u] = held[u] /\ expect'[u] = expect[u]

\* A step of t changes the locals of t only.
LEMMA ActsAlone ==
    ASSUME Shape, NEW t \in Threads, Acts(t)
    PROVE  Alone(t)
<1>0. LocalSorts
    BY DEF Shape, TypeOK
<1> USE <1>0 DEF LocalSorts, Alone, Goto, Fail, descVars, pageVars, localVars,
        userVars
<1>1. CASE AllocCreate(t) \/ AllocDestroy(t)
    BY <1>1 DEF AllocCreate, AllocDestroy
<1>2. CASE SaAlloc(t)
    BY <1>2 DEF SaAlloc, FindAlloc
<1>3. ASSUME NEW i \in Ids, SaFree(t, i) PROVE Alone(t)
    BY <1>3 DEF SaFree, FindAlloc
<1>4. ASSUME NEW p \in Threads, SaFork(t, p) PROVE Alone(t)
    BY <1>4 DEF SaFork, FindAlloc
<1>5. CASE AllocPut(t) \/ AllocGet(t)
    BY <1>5 DEF AllocPut, AllocGet
<1>6. CASE GlAllocStack(t)
    BY <1>6 DEF GlAllocStack
<1>7. CASE GlFreeCheck(t) \/ GlFreeInsert(t)
    BY <1>7 DEF GlFreeCheck, GlFreeInsert
<1>8. CASE Map(t)
    BY <1>8 DEF Map
<1>9. CASE XaAlloc(t)
    BY <1>9 DEF XaAlloc
<1>10. CASE SaAllocStore(t) \/ EraseSlot(t)
    BY <1>10 DEF SaAllocStore, EraseSlot
<1>11. CASE SaFreeErase(t) \/ SaFreeUnmap(t)
    BY <1>11 DEF SaFreeErase, SaFreeUnmap
<1>12. CASE SaForkParent(t) \/ SaForkLookup(t)
    BY <1>12 DEF SaForkParent, SaForkLookup
<1>13. CASE SaForkCopy(t) \/ SaForkInsert(t)
    BY <1>13 DEF SaForkCopy, SaForkInsert
<1>14. CASE Return(t) \/ UserWrite(t)
    BY <1>14 DEF Return, UserWrite
<1> QED
    BY <1>1, <1>2, <1>3, <1>4, <1>5, <1>6, <1>7, <1>8, <1>9, <1>10, <1>11, <1>12,
       <1>13, <1>14 DEF Acts, Step

\* The locals of the thread itself after its step.
LEMMA OpStateNext == Careful /\ Shape /\ OpState /\ [Next]_vars => OpState'
<1> SUFFICES ASSUME Careful, Shape, OpState, [Next]_vars PROVE OpState'
    OBVIOUS
<1>0. LocalSorts /\ OpAt
    BY DEF Shape, TypeOK
<1> DEFINE Fine(t) ==
        /\ op[t] = "none" <=> pc[t] \in {"idle", "oops"}
        /\ ppid[t] # NULL => op[t] = "fork"
        /\ held[t] # NULL => op[t] \in {"none", "destroy"}
        /\ pc[t] = "store" \/ (op[t] = "free" /\ pc[t] # "ret") => err[t] = "ok"
        /\ /\ op[t] \in {"alloc", "fork"}
           /\ pc[t] \in {"put", "erase", "fork_erase", "gl_free", "gl_insert"}
           => err[t] # "ok"
        /\ op[t] = "fork" => ~CopyFails
<1>1. \A t \in Threads : Fine(t)
    BY DEF OpState
<1>2. ASSUME NEW t \in Threads, Acts(t) PROVE Fine(t)'
    <2>0. Fine(t)
        BY <1>1
    <2> USE <1>0, <2>0 DEF LocalSorts, Goto, Fail, descVars, pageVars, localVars,
            userVars, Ready, OpAt
    <2>1. CASE AllocCreate(t) \/ AllocDestroy(t)
        BY <2>1 DEF AllocCreate, AllocDestroy
    <2>2. CASE SaAlloc(t)
        BY <2>2 DEF SaAlloc, FindAlloc
    <2>3. ASSUME NEW i \in Ids, SaFree(t, i) PROVE Fine(t)'
        BY <2>3 DEF SaFree, FindAlloc
    <2>4. ASSUME NEW p \in Threads, SaFork(t, p) PROVE Fine(t)'
        BY <2>4 DEF SaFork, FindAlloc, Careful
    <2>5. CASE AllocPut(t) \/ AllocGet(t)
        BY <2>5 DEF AllocPut, AllocGet
    <2>6. CASE GlAllocStack(t)
        BY <2>6 DEF GlAllocStack
    <2>7. CASE GlFreeCheck(t) \/ GlFreeInsert(t)
        BY <2>7 DEF GlFreeCheck, GlFreeInsert, AfterGlFree
    <2>8. CASE Map(t)
        BY <2>8 DEF Map
    <2>9. CASE XaAlloc(t)
        BY <2>9 DEF XaAlloc
    <2>10. CASE SaAllocStore(t) \/ EraseSlot(t)
        BY <2>10 DEF SaAllocStore, EraseSlot
    <2>11. CASE SaFreeErase(t) \/ SaFreeUnmap(t)
        BY <2>11 DEF SaFreeErase, SaFreeUnmap
    <2>12. CASE SaForkParent(t) \/ SaForkLookup(t)
        BY <2>12 DEF SaForkParent, SaForkLookup
    <2>13. CASE SaForkCopy(t) \/ SaForkInsert(t)
        BY <2>13 DEF SaForkCopy, SaForkInsert
    <2>14. CASE Return(t) \/ UserWrite(t)
        BY <2>14 DEF Return, UserWrite
    <2> QED
        BY <1>2, <2>1, <2>2, <2>3, <2>4, <2>5, <2>6, <2>7, <2>8, <2>9, <2>10, <2>11,
           <2>12, <2>13, <2>14 DEF Acts, Step
<1>3. ASSUME NEW t \in Threads, Acts(t) PROVE OpState'
    BY <1>1, <1>2, <1>3, ActsAlone DEF OpState, Alone
<1>4. CASE VmaFree \/ UNCHANGED vars
    BY <1>4 DEF OpState, VmaFree, vars, localVars, userVars
<1> QED
    BY <1>3, <1>4 DEF Next, KernelNext, Acts

\* The slots a step of t can change: it reserves an empty one, fills the one it
\* reserved or, in sa_fork, an empty one, or empties its own.
SlotStep(t) ==
    \/ threads' = threads
    \/ /\ pc[t] = "reserve" /\ pc'[t] = "stack"
       /\ threads[alloc[t]][id'[t]] = NULL
       /\ SlotBecomes(alloc[t], id'[t], XA_ZERO)
    \/ /\ pc[t] = "store" /\ pc'[t] = "ret"
       /\ SlotBecomes(alloc[t], id[t], [tid |-> t, pagelist |-> pagelist[t]])
    \/ /\ pc[t] = "fork_insert" /\ pc'[t] = "fork_map"
       /\ threads[alloc[t]][id[t]] = NULL
       /\ SlotBecomes(alloc[t], id[t], [tid |-> t, pagelist |-> pagelist[t]])
    \/ /\ pc[t] \in {"erase", "fork_erase", "free_erase"}
       /\ SlotBecomes(alloc[t], id[t], NULL)

\* No step changes the slots in another way.
LEMMA SlotSteps ==
    ASSUME Shape, NEW t \in Threads, Acts(t)
    PROVE  SlotStep(t) /\ (threads' # threads => alloc'[t] = alloc[t])
<1>0. LocalSorts /\ DescSorts /\ NoNullDeref
    BY DEF Shape, TypeOK
<1> USE DEF SlotStep
<1>1. CASE XaAlloc(t)
    <2>1. alloc[t] \in Descs /\ alloc' = alloc
        BY <1>0, <1>1 DEF XaAlloc, NoNullDeref, LocalSorts, UsesAlloc, Labels
    <2>2. CASE threads' # threads
        <3>1. PICK i \in Ids : /\ threads[alloc[t]][i] = NULL
                               /\ threads' = [threads EXCEPT ![alloc[t]][i] = XA_ZERO]
                               /\ id' = [id EXCEPT ![t] = i]
                               /\ pc' = [pc EXCEPT ![t] = "stack"]
            BY <1>1, <2>2 DEF XaAlloc, Goto, Fail
        <3>2. SlotBecomes(alloc[t], i, XA_ZERO)
            BY <1>0, <2>1, <3>1 DEF SlotBecomes, DescSorts
        <3> QED
            BY <1>0, <1>1, <2>1, <3>1, <3>2 DEF LocalSorts, XaAlloc
    <2> QED
        BY <2>1, <2>2
<1>2. CASE SaAllocStore(t)
    <2>1. /\ threads' = [threads EXCEPT ![alloc[t]][id[t]] =
                            [tid |-> t, pagelist |-> pagelist[t]]]
          /\ pc[t] = "store" /\ pc'[t] = "ret" /\ alloc' = alloc
        BY <1>0, <1>2 DEF SaAllocStore, Goto, LocalSorts
    <2>2. alloc[t] \in Descs /\ id[t] \in Ids
        BY <1>2, RegisterEffect
    <2> QED
        BY <1>0, <2>1, <2>2 DEF SlotBecomes, DescSorts
<1>3. CASE SaForkInsert(t)
    <2>1. \/ threads' = threads
          \/ /\ threads' = [threads EXCEPT ![alloc[t]][id[t]] =
                                [tid |-> t, pagelist |-> pagelist[t]]]
             /\ threads[alloc[t]][id[t]] = NULL
             /\ pc[t] = "fork_insert" /\ pc'[t] = "fork_map"
        BY <1>0, <1>3 DEF SaForkInsert, Goto, Fail, LocalSorts
    <2>2. alloc[t] \in Descs /\ id[t] \in Ids /\ alloc' = alloc
        BY <1>3, RegisterEffect DEF SaForkInsert
    <2>3. threads' = [threads EXCEPT ![alloc[t]][id[t]] =
                                [tid |-> t, pagelist |-> pagelist[t]]]
            => SlotBecomes(alloc[t], id[t], [tid |-> t, pagelist |-> pagelist[t]])
        BY <1>0, <2>2 DEF SlotBecomes, DescSorts
    <2> QED
        BY <2>1, <2>2, <2>3
<1>4. CASE EraseSlot(t)
    BY <1>4, EraseEffect DEF EraseSlot
<1>5. CASE SaFreeErase(t)
    BY <1>5, FreeEffect DEF SaFreeErase
<1>6. CASE \/ AllocCreate(t) \/ AllocDestroy(t) \/ SaAlloc(t) \/ UserWrite(t)
           \/ (\E i \in Ids : SaFree(t, i)) \/ (\E p \in Threads : SaFork(t, p))
    <2>1. threads' = threads
        BY <1>6 DEF AllocCreate, AllocDestroy, SaAlloc, UserWrite, SaFree, SaFork,
                    descVars
    <2> QED
        BY <2>1
<1>7. CASE \/ AllocPut(t) \/ AllocGet(t) \/ GlAllocStack(t) \/ GlFreeCheck(t)
           \/ GlFreeInsert(t) \/ Map(t) \/ SaFreeUnmap(t) \/ SaForkParent(t)
           \/ SaForkLookup(t) \/ SaForkCopy(t) \/ Return(t)
    <2>1. threads' = threads
        BY <1>7 DEF AllocPut, AllocGet, GlAllocStack, GlFreeCheck, GlFreeInsert, Map,
                    SaFreeUnmap, SaForkParent, SaForkLookup, SaForkCopy, Return,
                    descVars
    <2> QED
        BY <2>1
<1> QED
    BY <1>1, <1>2, <1>3, <1>4, <1>5, <1>6, <1>7 DEF Acts, Step

\* The area of another thread stays registered, a slot another operation has
\* reserved stays reserved.
LEMMA OthersSlots ==
    ASSUME Tenancy, NEW t \in Threads, Acts(t), NEW u \in Threads \ {t}
    PROVE  /\ \A d \in Descs, i \in Ids :
                Area(d, i, u) => threads'[d][i] = threads[d][i]
           /\ Reserves(u) => threads'[alloc[u]][id[u]] = XA_ZERO
<1>0. /\ Shape /\ LocalSorts /\ DescSorts /\ NoNullDeref /\ OpAt
      /\ Reserved /\ Tenants /\ SlotStep(t)
    BY SlotSteps DEF Tenancy, Refs, Shape, TypeOK
<1>1. Reserves(u) => alloc[u] \in Descs /\ id[u] \in Ids
                     /\ threads[alloc[u]][id[u]] = XA_ZERO
    BY <1>0 DEF Reserves, Reserved, LocalSorts, NoNullDeref, UsesAlloc, Labels
<1>2. NULL # XA_ZERO /\ NULL \notin ThreadDesc /\ XA_ZERO \notin ThreadDesc
    BY Constants
<1>3. CASE threads' = threads
    BY <1>1, <1>3
<1>4. CASE /\ threads[alloc[t]][id'[t]] = NULL
           /\ SlotBecomes(alloc[t], id'[t], XA_ZERO)
    BY <1>1, <1>2, <1>4 DEF SlotBecomes, Area, Registered
<1>5. CASE /\ pc[t] = "store"
           /\ SlotBecomes(alloc[t], id[t], [tid |-> t, pagelist |-> pagelist[t]])
    <2>1. Reserves(t)
        BY <1>0, <1>5 DEF OpAt, Reserves
    <2>2. /\ threads[alloc[t]][id[t]] = XA_ZERO
          /\ Reserves(u) /\ alloc[u] = alloc[t] => id[u] # id[t]
        BY <1>0, <2>1 DEF Reserved
    <2> QED
        BY <1>1, <1>2, <1>5, <2>2 DEF SlotBecomes, Area, Registered
<1>6. CASE /\ threads[alloc[t]][id[t]] = NULL
           /\ SlotBecomes(alloc[t], id[t], [tid |-> t, pagelist |-> pagelist[t]])
    BY <1>1, <1>2, <1>6 DEF SlotBecomes, Area, Registered
<1>7. CASE pc[t] = "erase" /\ SlotBecomes(alloc[t], id[t], NULL)
    <2>1. Reserves(t)
        BY <1>0, <1>7 DEF OpAt, Reserves
    <2>2. /\ threads[alloc[t]][id[t]] = XA_ZERO
          /\ Reserves(u) /\ alloc[u] = alloc[t] => id[u] # id[t]
        BY <1>0, <2>1 DEF Reserved
    <2> QED
        BY <1>1, <1>2, <1>7, <2>2 DEF SlotBecomes, Area, Registered
<1>8. CASE /\ pc[t] \in {"fork_erase", "free_erase"}
           /\ SlotBecomes(alloc[t], id[t], NULL)
    <2>1. Area(alloc[t], id[t], t)
        BY <1>0, <1>8 DEF Tenants, Settled
    <2> QED
        BY <1>1, <1>2, <1>8, <2>1 DEF SlotBecomes, Area, Registered
<1> QED
    BY <1>0, <1>3, <1>4, <1>5, <1>6, <1>7, <1>8 DEF SlotStep

\* The descriptors: alloc_create adds one, for a process that never had one, and
\* nothing else changes which process a descriptor belongs to.
LEMMA DescSteps ==
    ASSUME Careful, Tenancy, [Next]_vars
    PROVE  /\ \A d \in Descs : tgid[d] # NULL => tgid'[d] = tgid[d]
           /\ \A d \in Descs : tgid'[d] # tgid[d] =>
                /\ tgid[d] = NULL
                /\ \A e \in Descs : tgid[e] # tgid'[d]
                /\ \A e \in Descs : tgid'[e] # tgid[e] => e = d
                /\ \A i \in Ids : ~Registered(d, i) /\ threads'[d][i] = threads[d][i]
           /\ \A g \in Tgids : sa_allocators[g] = NULL /\ sa_allocators'[g] # NULL =>
                \A d \in Descs : tgid[d] # g
<1>0. Shape /\ DescSorts /\ RefsCovered /\ LiveRefs /\ OwnDesc
    BY DEF Tenancy, Refs, Shape, TypeOK
<1>1. ASSUME NEW t \in Threads, NEW c \in Descs,
             desc[c] = "none",
             \A e \in Descs : tgid[e] # Group[t],
             tgid' = [tgid EXCEPT ![c] = Group[t]],
             sa_allocators' = [sa_allocators EXCEPT ![Group[t]] = c],
             threads' = threads
      PROVE  /\ \A d \in Descs : tgid[d] # NULL => tgid'[d] = tgid[d]
             /\ \A d \in Descs : tgid'[d] # tgid[d] =>
                /\ tgid[d] = NULL
                /\ \A e \in Descs : tgid[e] # tgid'[d]
                /\ \A e \in Descs : tgid'[e] # tgid[e] => e = d
                /\ \A i \in Ids : ~Registered(d, i) /\ threads'[d][i] = threads[d][i]
             /\ \A g \in Tgids : sa_allocators[g] = NULL /\ sa_allocators'[g] # NULL =>
                \A d \in Descs : tgid[d] # g
    <2>1. tgid[c] = NULL /\ ~(kref[c] > 0)
        BY <1>0, <1>1 DEF OwnDesc, LiveRefs
    <2>2. Slots(c) = {}
        BY <1>0, <2>1, NoRefs
    <2>3. \A i \in Ids : ~Registered(c, i)
        BY <2>2 DEF Slots
    <2>4. \A d \in Descs : tgid'[d] = IF d = c THEN Group[t] ELSE tgid[d]
        BY <1>0, <1>1 DEF DescSorts
    <2>5. \A g \in Tgids :
            sa_allocators'[g] = IF g = Group[t] THEN c ELSE sa_allocators[g]
        BY <1>0, <1>1 DEF DescSorts
    <2> QED
        BY <1>1, <2>1, <2>3, <2>4, <2>5
<1>2. ASSUME NEW t \in Threads, AllocCreate(t)
      PROVE  \E c \in Descs :
                /\ desc[c] = "none"
                /\ \A e \in Descs : tgid[e] # Group[t]
                /\ tgid' = [tgid EXCEPT ![c] = Group[t]]
                /\ sa_allocators' = [sa_allocators EXCEPT ![Group[t]] = c]
                /\ threads' = threads
    BY <1>2 DEF AllocCreate, Careful
<1>3. ASSUME NEW t \in Threads, AllocDestroy(t)
      PROVE  /\ tgid' = tgid
             /\ \A g \in Tgids : sa_allocators'[g] \in {NULL, sa_allocators[g]}
    BY <1>0, <1>3, Constants DEF AllocDestroy, DescSorts
<1>4. ASSUME NEW t \in Threads, Step(t)
      PROVE  tgid' = tgid /\ sa_allocators' = sa_allocators
    BY <1>4 DEF Step, AllocPut, AllocGet, GlAllocStack, GlFreeCheck, GlFreeInsert,
                Map, XaAlloc, SaAllocStore, EraseSlot, SaFreeErase, SaFreeUnmap,
                SaForkParent, SaForkLookup, SaForkCopy, SaForkInsert, Return, descVars
<1>5. ASSUME NEW t \in Threads,
             \/ SaAlloc(t) \/ (\E i \in Ids : SaFree(t, i))
             \/ (\E p \in Threads : SaFork(t, p)) \/ UserWrite(t)
      PROVE  tgid' = tgid /\ sa_allocators' = sa_allocators
    BY <1>5 DEF SaAlloc, SaFree, SaFork, UserWrite, descVars
<1>6. VmaFree \/ UNCHANGED vars => tgid' = tgid /\ sa_allocators' = sa_allocators
    BY DEF VmaFree, vars, descVars
<1>7. CASE /\ tgid' = tgid
           /\ \A g \in Tgids : sa_allocators'[g] \in {NULL, sa_allocators[g]}
    BY <1>7
<1>8. CASE \E t \in Threads : AllocCreate(t)
    BY <1>1, <1>2, <1>8
<1> QED
    BY <1>3, <1>4, <1>5, <1>6, <1>7, <1>8 DEF Next, KernelNext

\* The parent of a running sa_fork may be the one that closes the device, but it
\* keeps the area it uses, and the slots stay as they are.
LEMMA WaitingParent ==
    ASSUME Tenancy, NEW u \in Threads, Forking(u), NEW t \in Threads, Acts(t)
    PROVE  /\ ppid[u] \in Threads \ {u}
           /\ held'[ppid[u]] = held[ppid[u]] /\ expect'[ppid[u]] = expect[ppid[u]]
           /\ t = ppid[u] => threads' = threads
<1>0. Shape /\ LocalSorts /\ ParentWaits /\ Pinned
    BY DEF Tenancy, Refs, Shape, TypeOK
<1>1. /\ ppid[u] \in Threads /\ Group[ppid[u]] # Group[u]
      /\ pc[ppid[u]] = "idle" \/ op[ppid[u]] = "destroy"
    BY <1>0 DEF ParentWaits
<1>2. ~Ready(ppid[u])
    BY <1>1 DEF Ready, Blocked
<1>3. CASE t # ppid[u]
    BY <1>0, <1>1, <1>3, ActsAlone DEF Alone
<1>4. CASE t = ppid[u]
    <2>1. op[t] = "destroy" => pc[t] \in {"put", "ret"}
        BY <1>0 DEF Pinned
    <2>2. AllocDestroy(t) \/ AllocPut(t) \/ (Return(t) /\ op[t] = "destroy")
        <3>1. /\ ~Ready(t) /\ pc[t] \in {"idle", "put", "ret"}
              /\ pc[t] # "idle" => op[t] = "destroy"
            BY <1>1, <1>2, <1>4, <2>1
        <3>2. AllocDestroy(t) \/ Step(t)
            BY <3>1 DEF Acts, AllocCreate, SaAlloc, FindAlloc, SaFree, SaFork, UserWrite
        <3>3. ASSUME Step(t) PROVE AllocPut(t) \/ Return(t)
            BY <3>1, <3>3
               DEF Step, AllocGet, GlAllocStack, GlFreeCheck, GlFreeInsert, Map, XaAlloc,
                   SaAllocStore, EraseSlot, SaFreeErase, SaFreeUnmap, SaForkParent,
                   SaForkLookup, SaForkCopy, SaForkInsert
        <3> QED
            BY <3>1, <3>2, <3>3 DEF Return
    <2>3. threads' = threads /\ held' = held /\ expect' = expect
        BY <2>2 DEF AllocDestroy, AllocPut, Return, userVars, descVars
    <2> QED
        BY <1>1, <2>3
<1> QED
    BY <1>3, <1>4

\* How an operation comes to have a slot reserved.
LEMMA ReservesStep ==
    ASSUME Tenancy, NEW t \in Threads, Acts(t), Reserves(t)'
    PROVE  /\ alloc'[t] = alloc[t]
           /\ \/ Reserves(t) /\ id'[t] = id[t] /\ threads' = threads
              \/ /\ threads[alloc[t]][id'[t]] = NULL /\ id'[t] \in Ids
                 /\ alloc[t] \in Descs
                 /\ SlotBecomes(alloc[t], id'[t], XA_ZERO)
<1>0. Shape /\ LocalSorts /\ DescSorts /\ OpAt /\ OpState
    BY DEF Tenancy, Refs, Shape, TypeOK
<1>1. SlotStep(t)
    BY <1>0, SlotSteps
<1> USE <1>0 DEF LocalSorts, Reserves, Goto, Fail, descVars, pageVars, localVars,
        userVars, Ready, OpAt
<1>2. CASE AllocCreate(t) \/ AllocDestroy(t) \/ SaAlloc(t)
    BY <1>2 DEF AllocCreate, AllocDestroy, SaAlloc, FindAlloc
<1>3. ASSUME NEW i \in Ids, SaFree(t, i) PROVE FALSE
    BY <1>3 DEF SaFree, FindAlloc
<1>4. ASSUME NEW p \in Threads, SaFork(t, p) PROVE FALSE
    BY <1>4 DEF SaFork, FindAlloc
<1>5. CASE AllocPut(t) \/ AllocGet(t)
    BY <1>5 DEF AllocPut, AllocGet
<1>6. CASE GlAllocStack(t)
    BY <1>6 DEF GlAllocStack
<1>7. CASE GlFreeCheck(t) \/ GlFreeInsert(t)
    BY <1>7 DEF GlFreeCheck, GlFreeInsert, AfterGlFree
<1>8. CASE Map(t)
    BY <1>8 DEF Map
<1>9. CASE XaAlloc(t)
    <2>1. /\ pc[t] = "reserve" /\ pc'[t] = "stack" /\ id'[t] \in Ids /\ alloc' = alloc
          /\ alloc[t] \in Descs /\ threads' # threads
        <3>1. alloc[t] \in Descs
            BY <1>9 DEF XaAlloc, Shape, TypeOK, NoNullDeref, UsesAlloc, Labels
        <3>2. PICK i \in Ids : /\ threads[alloc[t]][i] = NULL
                               /\ threads' = [threads EXCEPT ![alloc[t]][i] = XA_ZERO]
                               /\ id' = [id EXCEPT ![t] = i]
                               /\ pc' = [pc EXCEPT ![t] = "stack"]
            BY <1>9 DEF XaAlloc
        <3>3. threads'[alloc[t]][i] = XA_ZERO
            BY <3>1, <3>2 DEF DescSorts
        <3>4. threads' # threads
            BY <3>2, <3>3, Constants
        <3> QED
            BY <1>9, <3>1, <3>2, <3>4 DEF XaAlloc
    <2> QED
        BY <1>1, <2>1 DEF SlotStep
<1>10. CASE SaAllocStore(t) \/ EraseSlot(t)
    BY <1>10 DEF SaAllocStore, EraseSlot
<1>11. CASE SaFreeErase(t) \/ SaFreeUnmap(t)
    BY <1>11 DEF SaFreeErase, SaFreeUnmap
<1>12. CASE SaForkParent(t) \/ SaForkLookup(t)
    BY <1>12 DEF SaForkParent, SaForkLookup
<1>13. CASE SaForkCopy(t) \/ SaForkInsert(t)
    BY <1>13 DEF SaForkCopy, SaForkInsert
<1>14. CASE Return(t) \/ UserWrite(t)
    BY <1>14 DEF Return, UserWrite, OpState
<1> QED
    BY <1>2, <1>3, <1>4, <1>5, <1>6, <1>7, <1>8, <1>9, <1>10, <1>11, <1>12, <1>13,
       <1>14 DEF Acts, Step

\* How the slot of an operation comes to be registered for its thread.
LEMMA SettledStep ==
    ASSUME Careful, Tenancy, NEW t \in Threads, Acts(t), Settled(t)'
    PROVE  \/ /\ held[t] \in Ids /\ id'[t] = held[t] /\ threads' = threads
              /\ alloc'[t] = sa_allocators[Group[t]] /\ alloc'[t] \in Descs
           \/ /\ alloc'[t] = alloc[t] /\ id'[t] = id[t] /\ alloc[t] \in Descs
              /\ \/ /\ SlotBecomes(alloc[t], id[t], [tid |-> t, pagelist |-> pagelist[t]])
                    /\ pagelist[t] \in Pagelists
                 \/ Settled(t) /\ threads' = threads
<1>0. Shape /\ LocalSorts /\ DescSorts /\ OpAt /\ OpState /\ NoNullDeref
    BY DEF Tenancy, Refs, Shape, TypeOK
<1> USE <1>0 DEF LocalSorts, Settled, Goto, Fail, descVars, pageVars, localVars,
        userVars, Ready, OpAt
<1>1. CASE AllocCreate(t) \/ AllocDestroy(t) \/ SaAlloc(t)
    BY <1>1 DEF AllocCreate, AllocDestroy, SaAlloc, FindAlloc, OpState
<1>2. ASSUME NEW i \in Ids, SaFree(t, i)
      PROVE  /\ held[t] \in Ids /\ id'[t] = held[t] /\ threads' = threads
             /\ alloc'[t] = sa_allocators[Group[t]] /\ alloc'[t] \in Descs
    <2>1. held[t] = i /\ id'[t] = i /\ threads' = threads
        BY <1>2 DEF SaFree, Careful
    <2>2. /\ alloc'[t] = sa_allocators[Group[t]]
          /\ sa_allocators[Group[t]] # NULL
        BY <1>2 DEF SaFree, FindAlloc
    <2> QED
        BY <2>1, <2>2, Constants DEF DescSorts
<1>3. ASSUME NEW p \in Threads, SaFork(t, p) PROVE FALSE
    BY <1>3 DEF SaFork, FindAlloc
<1>4. CASE AllocPut(t) \/ AllocGet(t)
    BY <1>4 DEF AllocPut, AllocGet, OpState
<1>5. CASE GlAllocStack(t)
    BY <1>5 DEF GlAllocStack
<1>6. CASE GlFreeCheck(t) \/ GlFreeInsert(t)
    BY <1>6 DEF GlFreeCheck, GlFreeInsert, AfterGlFree
<1>7. CASE Map(t)
    BY <1>7 DEF Map, NoNullDeref, UsesAlloc, Labels
<1>8. CASE XaAlloc(t)
    BY <1>8 DEF XaAlloc
<1>9. CASE SaAllocStore(t)
    <2>1. /\ pc[t] = "store" /\ pc'[t] = "ret" /\ alloc' = alloc /\ id' = id
          /\ threads' = [threads EXCEPT ![alloc[t]][id[t]] =
                            [tid |-> t, pagelist |-> pagelist[t]]]
          /\ alloc[t] \in Descs /\ pagelist[t] \in Pagelists
        BY <1>9 DEF SaAllocStore, NoNullDeref, UsesAlloc, UsesPages, Labels
    <2> QED
        BY <2>1 DEF SlotBecomes, DescSorts
<1>10. CASE EraseSlot(t)
    BY <1>10 DEF EraseSlot
<1>11. CASE SaFreeErase(t) \/ SaFreeUnmap(t)
    BY <1>11 DEF SaFreeErase, SaFreeUnmap
<1>12. CASE SaForkParent(t) \/ SaForkLookup(t)
    BY <1>12 DEF SaForkParent, SaForkLookup
<1>13. CASE SaForkCopy(t)
    BY <1>13 DEF SaForkCopy
<1>14. CASE SaForkInsert(t)
    <2>1. /\ pc'[t] = "fork_map" /\ alloc' = alloc /\ id' = id /\ alloc[t] \in Descs
          /\ threads' = [threads EXCEPT ![alloc[t]][id[t]] =
                            [tid |-> t, pagelist |-> pagelist[t]]]
          /\ pagelist[t] \in Pagelists
        BY <1>14 DEF SaForkInsert, NoNullDeref, UsesAlloc, UsesPages, Labels
    <2> QED
        BY <2>1 DEF SlotBecomes, DescSorts
<1>15. CASE Return(t) \/ UserWrite(t)
    BY <1>15 DEF Return, UserWrite
<1> QED
    BY <1>1, <1>2, <1>3, <1>4, <1>5, <1>6, <1>7, <1>8, <1>9, <1>10, <1>11, <1>12,
       <1>13, <1>14, <1>15 DEF Acts, Step

\* How a thread comes to use an area.
LEMMA HeldStep ==
    ASSUME Tenancy, NEW t \in Threads, Acts(t), held'[t] # NULL
    PROVE  /\ threads' = threads
           /\ \/ held'[t] = held[t]
              \/ Settled(t) /\ held'[t] = id[t]
<1>0. Shape /\ LocalSorts /\ OpState /\ ForkSlot /\ OpAt
    BY DEF Tenancy, Refs, Shape, TypeOK
<1> USE <1>0 DEF LocalSorts, Goto, Fail, descVars, pageVars, localVars, userVars,
        Ready, OpAt, OpState
<1>1. CASE AllocCreate(t) \/ AllocDestroy(t) \/ SaAlloc(t)
    BY <1>1 DEF AllocCreate, AllocDestroy, SaAlloc, FindAlloc
<1>2. ASSUME NEW i \in Ids, SaFree(t, i) PROVE FALSE
    BY <1>2 DEF SaFree
<1>3. ASSUME NEW p \in Threads, SaFork(t, p) PROVE FALSE
    BY <1>3 DEF SaFork
<1>4. CASE AllocPut(t) \/ AllocGet(t)
    BY <1>4 DEF AllocPut, AllocGet
<1>5. CASE GlAllocStack(t) \/ GlFreeCheck(t) \/ GlFreeInsert(t)
    BY <1>5 DEF GlAllocStack, GlFreeCheck, GlFreeInsert
<1>6. CASE Map(t)
    BY <1>6 DEF Map
<1>7. CASE XaAlloc(t) \/ SaAllocStore(t) \/ EraseSlot(t)
    BY <1>7 DEF XaAlloc, SaAllocStore, EraseSlot
<1>8. CASE SaFreeErase(t) \/ SaFreeUnmap(t)
    BY <1>8 DEF SaFreeErase, SaFreeUnmap
<1>9. CASE SaForkParent(t) \/ SaForkLookup(t) \/ SaForkCopy(t) \/ SaForkInsert(t)
    BY <1>9 DEF SaForkParent, SaForkLookup, SaForkCopy, SaForkInsert
<1>10. CASE Return(t)
    <2>1. threads' = threads
        BY <1>10 DEF Return
    <2>2. CASE op[t] = "fork" /\ err[t] = "ok"
        <3>1. held'[t] = held[ppid[t]] /\ Copying(t) /\ Settled(t)
            BY <1>10, <2>2 DEF Return, Copying, Settled
        <3> QED
            BY <2>1, <3>1 DEF ForkSlot
    <2>3. CASE op[t] = "alloc" /\ err[t] = "ok"
        BY <1>10, <2>1, <2>3 DEF Return, Settled
    <2>4. CASE op[t] \notin {"alloc", "fork"} \/ err[t] # "ok"
        BY <1>10, <2>1, <2>4 DEF Return
    <2> QED
        BY <2>2, <2>3, <2>4
<1>11. CASE UserWrite(t)
    BY <1>11 DEF UserWrite
<1> QED
    BY <1>1, <1>2, <1>3, <1>4, <1>5, <1>6, <1>7, <1>8, <1>9, <1>10, <1>11
       DEF Acts, Step

\* The search of sa_fork returns the slot its parent uses, if it uses one.
LEMMA LookupFinds ==
    ASSUME Tenancy, NEW t \in Threads, SaForkLookup(t), pc'[t] = "fork_copy"
    PROVE  /\ \/ id'[t] = held[ppid[t]]
              \/ held[ppid[t]] = NULL /\ id'[t] = THREADS_LIMIT
           /\ src'[t] = threads[parent[t]][id'[t]].pagelist /\ id'[t] \in Ids
           /\ Area(parent[t], id'[t], ppid[t])
<1>0. /\ Shape /\ LocalSorts /\ DescSorts /\ OpAt /\ NoNullDeref /\ OwnDesc /\ OpState
      /\ OneDesc /\ Tenants /\ ParentArea /\ ParentWaits /\ ParentOwns
    BY DEF Tenancy, Refs, Shape, TypeOK
<1> DEFINE p == ppid[t]
           d == parent[t]
<1>1. /\ pc[t] = "fork_lookup" /\ Forking(t) /\ d \in Descs /\ ~CopyFails
    BY <1>0 DEF SaForkLookup, OpAt, Forking, NoNullDeref, UsesParent, LocalSorts,
                OpState
<1>2. p \in Threads /\ Group[p] \in Tgids /\ tgid[d] = Group[p]
    BY <1>0, <1>1, Constants DEF ParentWaits, ParentOwns, UsesParent
<1>3. PICK i \in Ids :
        /\ threads[d][i] \in ThreadDesc /\ threads[d][i].tid = p
        /\ \A j \in Ids : Area(d, j, p) => i <= j
        /\ id' = [id EXCEPT ![t] = i]
        /\ src' = [src EXCEPT ![t] = threads[d][i].pagelist]
    BY <1>0, <1>1 DEF SaForkLookup, Goto, Fail, LocalSorts, Area, Registered
<1>4. id'[t] = i /\ src'[t] = threads[d][i].pagelist /\ Area(d, i, p)
    BY <1>0, <1>3 DEF LocalSorts, Area, Registered
<1>5. held[p] = i \/ i = THREADS_LIMIT
    BY <1>0, <1>1, <1>3, <1>4 DEF ParentArea
<1>6. CASE held[p] # NULL
    <2>1. held[p] \in Ids
        BY <1>0, <1>2, <1>6 DEF LocalSorts
    <2>2. PICK e \in Descs : tgid[e] = Group[p] /\ Area(e, held[p], p)
        BY <1>0, <1>2, <1>6 DEF Tenants
    <2>3. e = d
        <3>1. Group[p] # NULL
            BY <1>2, Constants
        <3> QED
            BY <1>0, <1>1, <1>2, <2>2, <3>1 DEF OneDesc
    <2>4. i <= held[p]
        BY <1>3, <2>1, <2>2, <2>3
    <2>5. held[p] = i
        BY <1>5, <2>1, <2>4, Constants DEF Ids
    <2> QED
        BY <1>3, <1>4, <2>5
<1>7. CASE held[p] = NULL
    <2>1. i # NULL
        BY <1>3, Constants
    <2> QED
        BY <1>3, <1>4, <1>5, <1>7, <2>1
<1> QED
    BY <1>6, <1>7

\* From then on sa_fork keeps the slot and the parent.
LEMMA CopyingStep ==
    ASSUME Tenancy, NEW t \in Threads, Acts(t), Copying(t)'
    PROVE  /\ ppid'[t] = ppid[t] /\ Forking(t)
           /\ \/ SaForkLookup(t) /\ pc'[t] = "fork_copy"
              \/ Copying(t) /\ id'[t] = id[t]
<1>0. Shape /\ LocalSorts /\ OpAt /\ OpState
    BY DEF Tenancy, Refs, Shape, TypeOK
<1> USE <1>0 DEF LocalSorts, Copying, Forking, Goto, Fail, descVars, pageVars,
        localVars, userVars, Ready, OpAt
<1>1. CASE AllocCreate(t) \/ AllocDestroy(t) \/ SaAlloc(t)
    BY <1>1 DEF AllocCreate, AllocDestroy, SaAlloc, FindAlloc
<1>2. ASSUME NEW i \in Ids, SaFree(t, i) PROVE FALSE
    BY <1>2 DEF SaFree, FindAlloc
<1>3. ASSUME NEW p \in Threads, SaFork(t, p) PROVE FALSE
    BY <1>3 DEF SaFork, FindAlloc
<1>4. CASE AllocPut(t) \/ AllocGet(t)
    BY <1>4 DEF AllocPut, AllocGet, OpState
<1>5. CASE GlAllocStack(t) \/ GlFreeCheck(t) \/ GlFreeInsert(t)
    BY <1>5 DEF GlAllocStack, GlFreeCheck, GlFreeInsert, AfterGlFree
<1>6. CASE Map(t)
    BY <1>6 DEF Map
<1>7. CASE XaAlloc(t) \/ SaAllocStore(t) \/ EraseSlot(t)
    BY <1>7 DEF XaAlloc, SaAllocStore, EraseSlot
<1>8. CASE SaFreeErase(t) \/ SaFreeUnmap(t)
    BY <1>8 DEF SaFreeErase, SaFreeUnmap
<1>9. CASE SaForkParent(t) \/ SaForkLookup(t) \/ SaForkCopy(t) \/ SaForkInsert(t)
    BY <1>9 DEF SaForkParent, SaForkLookup, SaForkCopy, SaForkInsert
<1>10. CASE Return(t) \/ UserWrite(t)
    BY <1>10 DEF Return, UserWrite
<1> QED
    BY <1>1, <1>2, <1>3, <1>4, <1>5, <1>6, <1>7, <1>8, <1>9, <1>10 DEF Acts, Step

\* What becomes of an area that was registered for the thread that acts.
LEMMA OwnSlots ==
    ASSUME Careful, Tenancy, NEW t \in Threads, Acts(t), ~CopyFails,
           NEW d \in Descs, NEW i \in Ids, Area(d, i, t), threads'[d][i] # NULL,
           held[t] = i \/ (Settled(t) /\ id[t] = i),
           sa_allocators[tgid[d]] # NULL
    PROVE  held'[t] = i \/ (Settled(t)' /\ id'[t] = i) \/ i = THREADS_LIMIT
<1>0. /\ Shape /\ LocalSorts /\ DescSorts /\ OpAt /\ OpState /\ OneDesc /\ Tenants
      /\ ForkSlot /\ NoNullDeref /\ OwnDesc /\ i # NULL
    BY Constants DEF Tenancy, Refs, Shape, TypeOK
<1>1. tgid[d] = Group[t] /\ Group[t] # NULL
    BY <1>0, Constants DEF OneDesc, Area
<1> USE DEF LocalSorts, Goto, Fail, descVars, pageVars, localVars, userVars
<1>2. CASE Settled(t) /\ id[t] = i
    <2>1. alloc[t] = d
        BY <1>0, <1>1, <1>2 DEF OneDesc, OwnDesc, Tenants
    <2>2. ~SaFreeErase(t) /\ ~EraseSlot(t)
        BY <1>0, <1>2, <2>1, EraseEffect, FreeEffect DEF SlotBecomes
    <2>3. CASE Map(t)
        BY <1>0, <1>2, <2>3 DEF Map, Settled, OpAt
    <2>4. CASE Return(t) /\ op[t] = "alloc"
        BY <1>0, <1>2, <2>4 DEF Return, Settled
    <2>5. CASE Return(t) /\ op[t] = "fork"
        <3>1. held'[t] = held[ppid[t]] /\ Copying(t)
            BY <1>0, <1>2, <2>5 DEF Return, Settled, Copying
        <3> QED
            BY <1>0, <1>2, <3>1 DEF ForkSlot
    <2>6. Map(t) \/ Return(t)
        BY <1>2, <2>2
           DEF Settled, Acts, AllocCreate, AllocDestroy, SaAlloc, FindAlloc, SaFree,
               SaFork, UserWrite, Ready, Step, AllocPut, AllocGet, GlAllocStack,
               GlFreeCheck, GlFreeInsert, XaAlloc, SaAllocStore, SaFreeUnmap,
               SaForkParent, SaForkLookup, SaForkCopy, SaForkInsert
    <2>7. Return(t) => op[t] \in {"alloc", "fork"}
        BY <1>2 DEF Return, Settled
    <2> QED
        BY <2>3, <2>4, <2>5, <2>6, <2>7
<1>3. CASE held[t] = i /\ held'[t] # i
    <2>1. op[t] \in {"none", "destroy"} /\ held[t] # NULL
        BY <1>0, <1>3 DEF OpState
    <2>2. ASSUME NEW j \in Ids, SaFree(t, j)
          PROVE  i = THREADS_LIMIT \/ (Settled(t)' /\ id'[t] = i)
        <3>1. j = i /\ id'[t] = i
            BY <1>0, <1>3, <2>2 DEF SaFree, Careful
        <3>2. CASE i >= THREADS_LIMIT
            BY <3>2, Constants DEF Ids
        <3>3. CASE ~(i >= THREADS_LIMIT)
            <4>1. FindAlloc(t, "free", "free_erase", "EINVAL")
                BY <2>2, <3>1, <3>3 DEF SaFree
            <4>2. pc'[t] = "free_erase"
                BY <1>0, <1>1, <4>1 DEF FindAlloc
            <4> QED
                BY <3>1, <4>2 DEF Settled
        <3> QED
            BY <3>2, <3>3
    <2>3. \E j \in Ids : SaFree(t, j)
        <3>1. ~Return(t)
            BY <1>0, <1>3, <2>1 DEF Return
        <3> QED
            BY <1>0, <1>3, <2>1, <3>1
               DEF Acts, AllocCreate, AllocDestroy, SaAlloc, SaFork, UserWrite, Step,
                   AllocPut, AllocGet, GlAllocStack, GlFreeCheck, GlFreeInsert, Map,
                   XaAlloc, SaAllocStore, EraseSlot, SaFreeErase, SaFreeUnmap,
                   SaForkParent, SaForkLookup, SaForkCopy, SaForkInsert
    <2> QED
        BY <2>2, <2>3
<1> QED
    BY <1>2, <1>3

-----------------------------------------------------------------------------
(***************************************************************************)
(* Every step keeps the parts of the invariant.                            *)
(***************************************************************************)

\* A step in which no thread acts.
Quiet == VmaFree \/ UNCHANGED vars

\* Such a step changes neither slots, locals, page tables nor stacks.
LEMMA QuietKeeps ==
    ASSUME Quiet
    PROVE  /\ threads' = threads /\ tgid' = tgid /\ sa_allocators' = sa_allocators
           /\ op' = op /\ pc' = pc /\ alloc' = alloc /\ ppid' = ppid /\ id' = id
           /\ parent' = parent
           /\ pagelist' = pagelist /\ err' = err /\ src' = src /\ held' = held
           /\ expect' = expect /\ contents' = contents /\ ptes' = ptes
           /\ gl_sa' \subseteq gl_sa
BY DEF Quiet, VmaFree, vars, descVars, pageVars, localVars, userVars

\* In every other step one thread acts.
LEMMA Actors ==
    ASSUME [Next]_vars
    PROVE  Quiet \/ \E t \in Threads : Acts(t)
BY DEF Next, KernelNext, Acts, Quiet

\* A new entry is that of the thread that acts.
LEMMA NewEntry ==
    ASSUME Careful, Tenancy, NEW t \in Threads, Acts(t), NEW d \in Descs, NEW i \in Ids,
           Registered(d, i)', threads'[d][i] # threads[d][i]
    PROVE  /\ d = alloc[t] /\ tgid[d] = Group[t] /\ threads'[d][i].tid = t
           /\ ~Registered(d, i)
           /\ Settled(t)' /\ id'[t] = i /\ alloc'[t] = d
<1>0. /\ Shape /\ LocalSorts /\ DescSorts /\ OpAt /\ OpState /\ OwnDesc /\ Reserved
      /\ SlotStep(t)
    BY SlotSteps DEF Tenancy, Refs, Shape, TypeOK
<1>1. alloc'[t] = alloc[t]
    BY SlotSteps, <1>0
<1>2. NULL # XA_ZERO /\ NULL \notin ThreadDesc /\ XA_ZERO \notin ThreadDesc
      /\ NULL \notin Descs
    BY Constants
<1> DEFINE E == [tid |-> t, pagelist |-> pagelist[t]]
<1>3. /\ pc[t] = "store" \/ (pc[t] = "fork_insert" /\ threads[alloc[t]][id[t]] = NULL)
      /\ pc[t] = "store" => pc'[t] = "ret"
      /\ pc[t] = "fork_insert" => pc'[t] = "fork_map"
      /\ d = alloc[t] /\ i = id[t] /\ threads'[d][i] = E
    BY <1>0, <1>2 DEF SlotStep, SlotBecomes, Registered
<1>4. op' = op /\ id' = id /\ err'[t] = IF pc[t] = "store" THEN err[t] ELSE err'[t]
    <2>1. SaAllocStore(t) \/ SaForkInsert(t)
        BY <1>3
           DEF Acts, AllocCreate, AllocDestroy, SaAlloc, FindAlloc, SaFree,
               SaFork, UserWrite, Ready, Step, AllocPut, AllocGet, GlAllocStack,
               GlFreeCheck, GlFreeInsert, XaAlloc, EraseSlot, SaFreeErase, SaFreeUnmap,
               SaForkParent, SaForkLookup, SaForkCopy, Map, Return
    <2> QED
        BY <1>3, <2>1 DEF SaAllocStore, SaForkInsert
<1>5. tgid[d] = Group[t]
    BY <1>0, <1>2, <1>3 DEF OwnDesc
<1>6. ~Registered(d, i)
    <2>1. CASE pc[t] = "store"
        BY <1>0, <1>2, <1>3, <2>1 DEF OpAt, Reserves, Reserved, Registered
    <2>2. CASE pc[t] # "store"
        BY <1>2, <1>3, <2>2 DEF Registered
    <2> QED
        BY <2>1, <2>2
<1>7. Settled(t)'
    BY <1>0, <1>3, <1>4 DEF OpAt, OpState, Settled
<1> QED
    BY <1>1, <1>3, <1>4, <1>5, <1>6, <1>7

\* alloc_create makes no second descriptor for a process.
LEMMA OneDescNext == Careful /\ Tenancy /\ [Next]_vars => OneDesc'
<1> SUFFICES ASSUME Careful, Tenancy, [Next]_vars PROVE OneDesc'
    OBVIOUS
<1>0. OneDesc /\ DescSorts /\ Shape
    BY DEF Tenancy, Refs, Shape, TypeOK
<1>1. \A d, e \in Descs : tgid'[d] # NULL /\ tgid'[d] = tgid'[e] => d = e
    BY <1>0, DescSteps DEF OneDesc
<1>2. ASSUME NEW d \in Descs, NEW i \in Ids, Registered(d, i)'
      PROVE  tgid'[d] = Group[threads'[d][i].tid]
    <2>1. CASE threads'[d][i] = threads[d][i]
        <3>1. Registered(d, i) /\ tgid[d] = Group[threads[d][i].tid]
            BY <1>0, <1>2, <2>1 DEF OneDesc, Registered
        <3>2. tgid[d] # NULL
            BY <3>1, Constants DEF Registered, ThreadDesc
        <3> QED
            BY <2>1, <3>1, <3>2, DescSteps
    <2>2. CASE threads'[d][i] # threads[d][i]
        <3>1. PICK t \in Threads : Acts(t)
            BY <2>2, Actors, QuietKeeps
        <3>2. tgid[d] = Group[t] /\ threads'[d][i].tid = t
            BY <1>2, <2>2, <3>1, NewEntry
        <3>3. tgid[d] # NULL
            BY <3>2, Constants
        <3> QED
            BY <3>2, <3>3, DescSteps
    <2> QED
        BY <2>1, <2>2
<1> QED
    BY <1>1, <1>2 DEF OneDesc

\* xa_alloc gives a slot to one operation, and nobody else fills or empties it.
LEMMA ReservedNext == Careful /\ Tenancy /\ [Next]_vars => Reserved'
<1> SUFFICES ASSUME Careful, Tenancy, [Next]_vars PROVE Reserved'
    OBVIOUS
<1>0. /\ Reserved /\ Shape /\ LocalSorts /\ DescSorts /\ NULL # XA_ZERO
    BY Constants DEF Tenancy, Refs, Shape, TypeOK
<1>1. CASE Quiet
    BY <1>0, <1>1, QuietKeeps DEF Reserved, Reserves
<1>2. ASSUME NEW t \in Threads, Acts(t) PROVE Reserved'
    <2>0. Alone(t)
        BY <1>0, <1>2, ActsAlone
    <2>1. ASSUME NEW u \in Threads \ {t}
          PROVE  /\ Reserves(u)' <=> Reserves(u)
                 /\ alloc'[u] = alloc[u] /\ id'[u] = id[u]
        BY <2>0, <2>1 DEF Alone, Reserves
    <2>2. ASSUME Reserves(t)'
          PROVE  /\ threads'[alloc'[t]][id'[t]] = XA_ZERO
                 /\ \A u \in Threads \ {t} :
                        Reserves(u) /\ alloc[u] = alloc'[t] => id[u] # id'[t]
        <3>1. CASE Reserves(t) /\ id'[t] = id[t] /\ threads' = threads
            BY <1>0, <1>2, <2>2, <3>1, ReservesStep DEF Reserved
        <3>2. CASE /\ threads[alloc[t]][id'[t]] = NULL /\ id'[t] \in Ids
                   /\ alloc[t] \in Descs
                   /\ SlotBecomes(alloc[t], id'[t], XA_ZERO)
            <4>1. alloc'[t] = alloc[t]
                BY <1>2, <2>2, ReservesStep
            <4> QED
                BY <1>0, <3>2, <4>1 DEF Reserved, SlotBecomes
        <3> QED
            BY <1>2, <2>2, <3>1, <3>2, ReservesStep
    <2>3. ASSUME NEW u \in Threads \ {t}, Reserves(u)
          PROVE  threads'[alloc[u]][id[u]] = XA_ZERO
        BY <1>2, <2>3, OthersSlots
    <2> QED
        BY <1>0, <2>1, <2>2, <2>3 DEF Reserved
<1> QED
    BY <1>1, <1>2, Actors

\* Slots are filled and emptied by the thread they are registered for.
LEMMA TenantsNext == Careful /\ Tenancy /\ [Next]_vars => Tenants'
<1> SUFFICES ASSUME Careful, Tenancy, [Next]_vars PROVE Tenants'
    OBVIOUS
<1>0. /\ Tenants /\ Shape /\ LocalSorts /\ DescSorts /\ OwnDesc /\ OneDesc
    BY DEF Tenancy, Refs, Shape, TypeOK
<1>1. CASE Quiet
    BY <1>0, <1>1, QuietKeeps DEF Tenants, Settled, Area, Registered
<1>2. ASSUME NEW t \in Threads, Acts(t) PROVE Tenants'
    <2>0. Alone(t)
        BY <1>0, <1>2, ActsAlone
    <2>1. \A d \in Descs : tgid[d] # NULL => tgid'[d] = tgid[d]
        BY DescSteps
    <2>2. ASSUME NEW u \in Threads \ {t}, held'[u] # NULL
          PROVE  \E d \in Descs : tgid'[d] = Group[u] /\ Area(d, held[u], u)'
        <3>1. held[u] \in Ids /\ held'[u] = held[u] /\ Group[u] # NULL
            BY <1>0, <2>0, <2>2, Constants DEF Alone, LocalSorts
        <3>2. PICK d \in Descs : tgid[d] = Group[u] /\ Area(d, held[u], u)
            BY <1>0, <2>2, <3>1 DEF Tenants
        <3>3. threads'[d][held[u]] = threads[d][held[u]]
            BY <1>2, <3>1, <3>2, OthersSlots
        <3> QED
            BY <2>1, <3>1, <3>2, <3>3 DEF Area, Registered
    <2>3. ASSUME NEW u \in Threads \ {t}, Settled(u)'
          PROVE  alloc'[u] # NULL /\ Area(alloc[u], id[u], u)'
        <3>1. /\ Settled(u) /\ id[u] \in Ids /\ id'[u] = id[u] /\ alloc'[u] = alloc[u]
            BY <1>0, <2>0, <2>3 DEF Alone, LocalSorts, Settled
        <3>2. alloc[u] \in Descs /\ Area(alloc[u], id[u], u)
            BY <1>0, <3>1 DEF Tenants, LocalSorts
        <3>3. threads'[alloc[u]][id[u]] = threads[alloc[u]][id[u]]
            BY <1>2, <3>1, <3>2, OthersSlots
        <3> QED
            BY <3>1, <3>2, <3>3, Constants DEF Area, Registered
    <2>4. ASSUME held'[t] # NULL
          PROVE  \E d \in Descs : tgid'[d] = Group[t] /\ Area(d, held[t], t)'
        <3>1. threads' = threads /\ Group[t] # NULL
            BY <1>2, <2>4, HeldStep, Constants
        <3>2. PICK d \in Descs : tgid[d] = Group[t] /\ Area(d, held'[t], t)
            <4>1. CASE held'[t] = held[t]
                BY <1>0, <2>4, <4>1 DEF Tenants
            <4>2. CASE Settled(t) /\ held'[t] = id[t]
                BY <1>0, <4>2 DEF Tenants, OwnDesc, LocalSorts
            <4> QED
                BY <1>2, <2>4, <4>1, <4>2, HeldStep
        <3> QED
            BY <2>1, <3>1, <3>2 DEF Area, Registered
    <2>5. ASSUME Settled(t)'
          PROVE  alloc'[t] # NULL /\ Area(alloc[t], id[t], t)'
        <3>1. CASE /\ held[t] \in Ids /\ id'[t] = held[t] /\ threads' = threads
                   /\ alloc'[t] = sa_allocators[Group[t]] /\ alloc'[t] \in Descs
            <4>1. held[t] # NULL /\ alloc'[t] # NULL /\ Group[t] \in Tgids /\ Group[t] # NULL
                BY <3>1, Constants
            <4>2. PICK d \in Descs : tgid[d] = Group[t] /\ Area(d, held[t], t)
                BY <1>0, <4>1 DEF Tenants
            <4>3. tgid[alloc'[t]] = Group[t]
                BY <1>0, <3>1, <4>1 DEF OwnDesc
            <4>4. d = alloc'[t]
                BY <1>0, <3>1, <4>1, <4>2, <4>3 DEF OneDesc
            <4> QED
                BY <3>1, <4>1, <4>2, <4>4 DEF Area, Registered
        <3>2. CASE /\ alloc'[t] = alloc[t] /\ id'[t] = id[t] /\ alloc[t] \in Descs
                   /\ SlotBecomes(alloc[t], id[t], [tid |-> t, pagelist |-> pagelist[t]])
                   /\ pagelist[t] \in Pagelists
            <4>1. threads'[alloc[t]][id[t]] = [tid |-> t, pagelist |-> pagelist[t]]
                BY <1>0, <3>2 DEF SlotBecomes, LocalSorts
            <4> QED
                BY <3>2, <4>1, Constants DEF Area, Registered, ThreadDesc
        <3>3. CASE /\ alloc'[t] = alloc[t] /\ id'[t] = id[t]
                   /\ Settled(t) /\ threads' = threads
            BY <1>0, <3>3 DEF Tenants, Area, Registered
        <3> QED
            BY <1>2, <2>5, <3>1, <3>2, <3>3, SettledStep
    <2> QED
        BY <2>2, <2>3, <2>4, <2>5 DEF Tenants
<1> QED
    BY <1>1, <1>2, Actors

\* A thread that gets a slot registered uses it, or gives it back.
LEMMA NoOtherNext == Careful /\ Tenancy /\ [Next]_vars => NoOther'
<1> SUFFICES ASSUME Careful, Tenancy, [Next]_vars, ~CopyFails,
                    NEW d \in Descs, NEW i \in Ids, Registered(d, i)'
             PROVE  Used(d, i, threads[d][i].tid)'
    BY DEF NoOther
<1>0. NoOther /\ OneDesc /\ Shape /\ Tenancy
    BY DEF Tenancy, Refs
<1> DEFINE u == threads[d][i].tid
<1>1. ASSUME NEW t \in Threads, Acts(t), threads'[d][i] # threads[d][i]
      PROVE  threads'[d][i].tid = t /\ Settled(t)' /\ id'[t] = i
    BY <1>1, NewEntry
<1>2. ASSUME threads'[d][i] = threads[d][i]
      PROVE  /\ u \in Threads /\ Registered(d, i) /\ tgid[d] = Group[u]
             /\ tgid'[d] = tgid[d] /\ tgid[d] \in Tgids
    <2>1. Registered(d, i) /\ u \in Threads
        BY <1>2 DEF Registered, ThreadDesc
    <2>2. tgid[d] = Group[u]
        BY <1>0, <2>1 DEF OneDesc
    <2>3. tgid[d] \in Tgids /\ tgid[d] # NULL
        BY <2>1, <2>2, Constants
    <2> QED
        BY <2>1, <2>2, <2>3, DescSteps
<1>3. ASSUME threads'[d][i] = threads[d][i], sa_allocators[tgid[d]] = NULL
      PROVE  sa_allocators'[tgid'[d]] = NULL
    BY <1>2, <1>3, DescSteps
<1>4. ASSUME threads'[d][i] = threads[d][i], NEW t \in Threads, Acts(t),
             sa_allocators[tgid[d]] # NULL
      PROVE  held'[u] = i \/ (Settled(u)' /\ id'[u] = i) \/ i = THREADS_LIMIT
    <2>1. u \in Threads /\ Registered(d, i)
        BY <1>2, <1>4
    <2>2. held[u] = i \/ (Settled(u) /\ id[u] = i) \/ i = THREADS_LIMIT
        BY <1>0, <1>4, <2>1 DEF NoOther, Used
    <2>3. CASE u = t
        <3>1. Area(d, i, t) /\ threads'[d][i] # NULL
            BY <1>4, <2>1, <2>3, Constants DEF Area, Registered
        <3> QED
            BY <1>4, <2>2, <2>3, <3>1, OwnSlots
    <2>4. CASE u # t
        BY <1>0, <1>4, <2>1, <2>2, <2>4, ActsAlone DEF Alone, Settled
    <2> QED
        BY <2>3, <2>4
<1>5. CASE Quiet
    BY <1>0, <1>2, <1>5, QuietKeeps DEF NoOther, Used, Settled
<1>6. CASE ~Quiet
    <2>1. PICK t \in Threads : Acts(t)
        BY <1>6, Actors
    <2>2. CASE threads'[d][i] # threads[d][i]
        BY <1>1, <2>1, <2>2 DEF Used
    <2>3. CASE threads'[d][i] = threads[d][i]
        BY <1>3, <1>4, <2>1, <2>3 DEF Used
    <2> QED
        BY <2>2, <2>3
<1> QED
    BY <1>5, <1>6

\* The parent waits, so it has no second area when the lookup comes.
LEMMA ParentAreaNext == Careful /\ Tenancy /\ [Next]_vars => ParentArea'
<1> SUFFICES ASSUME Careful, Tenancy, [Next]_vars, NEW u \in Threads,
                    (pc'[u] = "stack" /\ op'[u] = "fork") \/ pc'[u] = "fork_lookup",
                    NEW i \in Ids, Area(parent[u], i, ppid[u])'
             PROVE  held'[ppid'[u]] = i \/ i = THREADS_LIMIT
    BY DEF ParentArea
<1>0. /\ ParentArea /\ Shape /\ LocalSorts /\ DescSorts /\ OpAt /\ OpState /\ NoNullDeref
      /\ NoOther /\ OwnDesc /\ ParentWaits /\ Pinned
    BY DEF Tenancy, Refs, Shape, TypeOK
<1> DEFINE Found(t) == (pc[t] = "stack" /\ op[t] = "fork") \/ pc[t] = "fork_lookup"
<1>1. CASE Quiet
    BY <1>0, <1>1, QuietKeeps DEF ParentArea, Area, Registered
<1>2. ASSUME NEW t \in Threads, Acts(t), Found(u), parent'[u] = parent[u],
             ppid'[u] = ppid[u], u # t \/ threads' = threads
      PROVE  held'[ppid'[u]] = i \/ i = THREADS_LIMIT
    <2>1. Forking(u)
        BY <1>0, <1>2 DEF OpAt, Forking
    <2>2. /\ ppid[u] \in Threads \ {u} /\ held'[ppid[u]] = held[ppid[u]]
          /\ t = ppid[u] => threads' = threads
        BY <1>2, <2>1, WaitingParent
    <2>3. parent[u] \in Descs
        <3>1. CASE pc[u] = "fork_lookup"
            BY <1>0, <3>1 DEF NoNullDeref, UsesParent, LocalSorts
        <3>2. CASE pc[u] = "stack" /\ op[u] = "fork"
            BY <1>0, <3>2 DEF OpAt, LocalSorts
        <3> QED
            BY <1>2, <3>1, <3>2
    <2>4. Area(parent[u], i, ppid[u])
        <3>1. CASE threads'[parent[u]][i] = threads[parent[u]][i]
            BY <1>2, <3>1 DEF Area, Registered
        <3>2. CASE threads'[parent[u]][i] # threads[parent[u]][i]
            <4>1. threads'[parent[u]][i].tid = t
                BY <1>2, <2>3, <3>2, NewEntry DEF Area, Registered
            <4> QED
                BY <1>2, <2>2, <3>2, <4>1 DEF Area
        <3> QED
            BY <3>1, <3>2
    <2> QED
        BY <1>0, <1>2, <2>2, <2>4 DEF ParentArea
<1>3. ASSUME NEW t \in Threads \ {u}, Acts(t)
      PROVE  held'[ppid'[u]] = i \/ i = THREADS_LIMIT
    BY <1>0, <1>2, <1>3, ActsAlone DEF Alone
<1>4. CASE SaForkParent(u)
    <2> DEFINE p == ppid[u]
               d == sa_allocators[Group[p]]
    <2>1. pc[u] = "fork_parent" /\ Forking(u) /\ ~CopyFails
        BY <1>0, <1>4 DEF SaForkParent, OpAt, OpState, Forking
    <2>2. p \in Threads /\ Group[p] \in Tgids /\ (pc[p] = "idle" \/ op[p] = "destroy")
        BY <1>0, <2>1, Constants DEF ParentWaits
    <2>3. d # NULL /\ parent'[u] = d
        BY <1>0, <1>4 DEF SaForkParent, Fail, Goto, LocalSorts
    <2>4. d \in Descs /\ tgid[d] = Group[p]
        BY <1>0, <2>2, <2>3 DEF DescSorts, OwnDesc
    <2>5. ~Settled(p)
        BY <1>0, <2>2 DEF Settled, Pinned
    <2>6. threads' = threads /\ ppid' = ppid /\ held' = held
        BY <1>4 DEF SaForkParent, descVars, userVars
    <2>7. Registered(d, i) /\ threads[d][i].tid = p
        BY <2>3, <2>6 DEF Area, Registered
    <2> QED
        BY <1>0, <2>1, <2>3, <2>4, <2>5, <2>6, <2>7 DEF NoOther, Used
<1>5. CASE GlAllocStack(u)
    <2>1. /\ pc[u] = "stack" /\ op[u] = "fork" /\ parent' = parent /\ ppid' = ppid
          /\ threads' = threads
        BY <1>0, <1>5 DEF GlAllocStack, Fail, Goto, LocalSorts, OpAt, descVars
    <2>2. Acts(u)
        BY <1>5 DEF Acts, Step
    <2> QED
        BY <1>2, <2>1, <2>2
<1>6. ASSUME Acts(u) PROVE SaForkParent(u) \/ GlAllocStack(u)
    <2> USE <1>0 DEF LocalSorts, Goto, Fail, localVars, Ready, OpAt
    <2>1. CASE AllocCreate(u) \/ AllocDestroy(u) \/ SaAlloc(u) \/ UserWrite(u)
        BY <2>1 DEF AllocCreate, AllocDestroy, SaAlloc, FindAlloc, UserWrite
    <2>2. ASSUME NEW j \in Ids, SaFree(u, j) PROVE FALSE
        BY <2>2 DEF SaFree, FindAlloc
    <2>3. ASSUME NEW p \in Threads, SaFork(u, p) PROVE FALSE
        BY <2>3 DEF SaFork, FindAlloc
    <2>4. CASE AllocPut(u) \/ AllocGet(u) \/ GlFreeCheck(u) \/ GlFreeInsert(u)
        BY <2>4 DEF AllocPut, AllocGet, GlFreeCheck, GlFreeInsert, AfterGlFree
    <2>5. CASE Map(u) \/ XaAlloc(u) \/ SaAllocStore(u) \/ EraseSlot(u)
        BY <2>5 DEF Map, XaAlloc, SaAllocStore, EraseSlot
    <2>6. CASE SaFreeErase(u) \/ SaFreeUnmap(u)
        BY <2>6 DEF SaFreeErase, SaFreeUnmap
    <2>7. CASE SaForkLookup(u) \/ SaForkCopy(u) \/ SaForkInsert(u) \/ Return(u)
        BY <2>7 DEF SaForkLookup, SaForkCopy, SaForkInsert, Return
    <2> QED
        BY <1>6, <2>1, <2>2, <2>3, <2>4, <2>5, <2>6, <2>7 DEF Acts, Step
<1> QED
    BY <1>1, <1>3, <1>4, <1>5, <1>6, Actors

\* The parent keeps its area from the lookup to the end of sa_fork.
LEMMA ForkSlotNext == Careful /\ Tenancy /\ [Next]_vars => ForkSlot'
<1> SUFFICES ASSUME Careful, Tenancy, [Next]_vars, NEW u \in Threads, Copying(u)'
             PROVE  \/ id'[u] = held'[ppid'[u]]
                    \/ held'[ppid'[u]] = NULL /\ id'[u] = THREADS_LIMIT
    BY DEF ForkSlot, Copying
<1>0. /\ ForkSlot /\ Shape /\ OpAt
    BY DEF Tenancy, Refs, Shape
<1>1. CASE Quiet
    BY <1>0, <1>1, QuietKeeps DEF ForkSlot, Copying
<1>2. ASSUME Acts(u)
      PROVE  \/ id'[u] = held'[ppid'[u]]
             \/ held'[ppid'[u]] = NULL /\ id'[u] = THREADS_LIMIT
    <2>1. ppid'[u] = ppid[u] /\ Forking(u)
        BY <1>2, CopyingStep
    <2>3. held'[ppid[u]] = held[ppid[u]]
        BY <1>2, <2>1, WaitingParent
    <2>4. CASE SaForkLookup(u) /\ pc'[u] = "fork_copy"
        BY <2>1, <2>3, <2>4, LookupFinds
    <2>5. CASE Copying(u) /\ id'[u] = id[u]
        BY <1>0, <2>1, <2>3, <2>5 DEF ForkSlot
    <2> QED
        BY <1>2, <2>4, <2>5, CopyingStep
<1>3. ASSUME NEW t \in Threads \ {u}, Acts(t)
      PROVE  \/ id'[u] = held'[ppid'[u]]
             \/ held'[ppid'[u]] = NULL /\ id'[u] = THREADS_LIMIT
    <2>1. /\ pc'[u] = pc[u] /\ op'[u] = op[u] /\ err'[u] = err[u] /\ id'[u] = id[u]
          /\ ppid'[u] = ppid[u]
        BY <1>0, <1>3, ActsAlone DEF Alone
    <2>2. Copying(u) /\ Forking(u)
        BY <1>0, <2>1 DEF Copying, Forking, OpAt
    <2>4. held'[ppid[u]] = held[ppid[u]]
        BY <1>3, <2>2, WaitingParent
    <2> QED
        BY <1>0, <2>1, <2>2, <2>4 DEF ForkSlot
<1> QED
    BY <1>1, <1>2, <1>3, Actors

\* Who frees an area held it; FREE fails only for a process without an allocator
\* and for the last slot.
LEMMA FreeStep ==
    ASSUME Careful, Tenancy, NEW t \in Threads, Acts(t), op'[t] = "free"
    PROVE  /\ op[t] = "free" \/ held[t] # NULL
           /\ pc'[t] = "ret" /\ err'[t] # "ok" /\ sa_allocators'[Group[t]] # NULL =>
                id'[t] = THREADS_LIMIT
<1>0. Shape /\ LocalSorts /\ DescSorts /\ OpAt /\ OpState /\ Tenants /\ FreeRefusals
    BY DEF Tenancy, Refs, Shape, TypeOK, Refusals
<1> USE <1>0 DEF LocalSorts, Goto, Fail, descVars, pageVars, localVars, userVars,
        Ready, OpAt, OpState
<1>1. CASE AllocCreate(t) \/ AllocDestroy(t) \/ SaAlloc(t) \/ UserWrite(t)
    BY <1>1 DEF AllocCreate, AllocDestroy, SaAlloc, FindAlloc, UserWrite
<1>2. ASSUME NEW i \in Ids, SaFree(t, i)
      PROVE  /\ held[t] # NULL
             /\ pc'[t] = "ret" /\ err'[t] # "ok" /\ sa_allocators'[Group[t]] # NULL =>
                  id'[t] = THREADS_LIMIT
    <2>1. held[t] = i /\ i # NULL /\ id'[t] = i /\ sa_allocators' = sa_allocators
        BY <1>2, Constants DEF SaFree, Careful
    <2>2. CASE i >= THREADS_LIMIT
        BY <2>1, <2>2, Constants DEF Ids
    <2>3. CASE ~(i >= THREADS_LIMIT)
        BY <1>2, <2>1, <2>3 DEF SaFree, FindAlloc
    <2> QED
        BY <2>2, <2>3
<1>3. ASSUME NEW p \in Threads, SaFork(t, p) PROVE FALSE
    BY <1>3 DEF SaFork, FindAlloc
<1>4. CASE AllocPut(t) \/ AllocGet(t)
    BY <1>4 DEF AllocPut, AllocGet
<1>5. CASE GlAllocStack(t) \/ GlFreeCheck(t) \/ GlFreeInsert(t)
    BY <1>5 DEF GlAllocStack, GlFreeCheck, GlFreeInsert, AfterGlFree
<1>6. CASE Map(t)
    BY <1>6 DEF Map
<1>7. CASE XaAlloc(t) \/ SaAllocStore(t) \/ EraseSlot(t)
    BY <1>7 DEF XaAlloc, SaAllocStore, EraseSlot
<1>8. CASE SaFreeErase(t)
    <2>1. Registered(alloc[t], id[t])
        BY <1>8 DEF SaFreeErase, Tenants, Settled, Area
    <2> QED
        BY <1>8, <2>1 DEF SaFreeErase, Registered
<1>9. CASE SaFreeUnmap(t)
    BY <1>9 DEF SaFreeUnmap
<1>10. CASE SaForkParent(t) \/ SaForkLookup(t) \/ SaForkCopy(t) \/ SaForkInsert(t)
    BY <1>10 DEF SaForkParent, SaForkLookup, SaForkCopy, SaForkInsert
<1>11. CASE Return(t)
    BY <1>11 DEF Return
<1> QED
    BY <1>1, <1>2, <1>3, <1>4, <1>5, <1>6, <1>7, <1>8, <1>9, <1>10, <1>11
       DEF Acts, Step

\* sa_free refuses only the last slot, or once the device is closed.
LEMMA RefusalsNext == Careful /\ Tenancy /\ [Next]_vars => Refusals'
<1> SUFFICES ASSUME Careful, Tenancy, [Next]_vars PROVE Refusals'
    OBVIOUS
<1>0. /\ Refusals /\ Shape /\ OpAt /\ Tenants
    BY DEF Tenancy, Refs, Shape
<1>1. ASSUME NEW u \in Threads, op'[u] = "free",
             \/ Quiet \/ (\E t \in Threads \ {u} : Acts(t))
      PROVE  /\ op[u] = "free" /\ pc'[u] = pc[u] /\ err'[u] = err[u] /\ id'[u] = id[u]
    BY <1>0, <1>1, ActsAlone, QuietKeeps DEF Alone
<1>2. ASSUME NEW u \in Threads, op'[u] = "free"
      PROVE  \E d \in Descs : tgid[d] = Group[u]
    <2>1. op[u] = "free" \/ held[u] # NULL
        BY <1>1, <1>2, Actors, FreeStep
    <2> QED
        BY <1>0, <2>1 DEF Refusals, Tenants
<1>3. ASSUME NEW u \in Threads, op'[u] = "free"
      PROVE  \E d \in Descs : tgid'[d] = Group[u]
    <2>1. Group[u] # NULL
        BY Constants
    <2> QED
        BY <1>2, <1>3, <2>1, DescSteps
<1>4. ASSUME NEW u \in Threads, op'[u] = "free", pc'[u] = "ret", err'[u] # "ok",
             sa_allocators'[Group[u]] # NULL
      PROVE  id'[u] = THREADS_LIMIT
    <2>1. CASE Acts(u)
        BY <1>4, <2>1, FreeStep
    <2>2. CASE Quiet \/ (\E t \in Threads \ {u} : Acts(t))
        <3>1. sa_allocators[Group[u]] # NULL
            BY <1>2, <1>4, DescSteps, Constants
        <3>2. op[u] = "free" /\ pc'[u] = pc[u] /\ err'[u] = err[u] /\ id'[u] = id[u]
            BY <1>1, <1>4, <2>2
        <3> QED
            BY <1>0, <1>4, <3>1, <3>2 DEF Refusals, FreeRefusals
    <2> QED
        BY <2>1, <2>2, Actors
<1> QED
    BY <1>3, <1>4 DEF Refusals, FreeRefusals

-----------------------------------------------------------------------------
\* At the start no slot is taken.
LEMMA TenancyInit == Init => Tenancy
<1> SUFFICES ASSUME Init PROVE Tenancy
    OBVIOUS
<1>1. Refs /\ ExclusivePages
    BY RefsInit, ExclusiveInit
<1>2. OpState
    BY DEF Init, OpState
<1>3. OneDesc /\ NoOther
    BY Constants DEF Init, OneDesc, NoOther, Registered
<1>4. Reserved /\ Tenants /\ ParentArea /\ ForkSlot
    BY DEF Init, Reserved, Reserves, Tenants, Settled, ParentArea, ForkSlot, Copying
<1>5. Refusals
    BY DEF Init, Refusals, FreeRefusals
<1> QED
    BY <1>1, <1>2, <1>3, <1>4, <1>5 DEF Tenancy

\* Every step keeps the slots in order.
LEMMA TenancyNext == Careful /\ Tenancy /\ [Next]_vars => Tenancy'
<1> SUFFICES ASSUME Careful, Tenancy, [Next]_vars PROVE Tenancy'
    OBVIOUS
<1>1. Refs' /\ ExclusivePages'
    BY RefsNext, ExclusiveNext DEF Tenancy, Pages, Refs
<1>2. OpState'
    BY OpStateNext DEF Tenancy, Refs
<1>3. OneDesc' /\ Reserved' /\ Tenants'
    BY OneDescNext, ReservedNext, TenantsNext
<1>4. NoOther' /\ ParentArea' /\ ForkSlot' /\ Refusals'
    BY NoOtherNext, ParentAreaNext, ForkSlotNext, RefusalsNext
<1> QED
    BY <1>1, <1>2, <1>3, <1>4 DEF Tenancy

\* The slots of careful processes, in every behaviour.
THEOREM AreaTenancy == ASSUME Careful PROVE Spec => []Tenancy
<1>1. Init => Tenancy
    BY TenancyInit
<1>2. Tenancy /\ [Next]_vars => Tenancy'
    BY TenancyNext
<1> QED
    BY <1>1, <1>2, PTL DEF Spec

\* FREE of an area its thread was given never fails in a process that has the
\* device open, but for the slot whose address is SS_END: no failure, no fork and
\* no interleaving takes the registration away or moves it to another slot.
THEOREM AreaFreeRefusals == ASSUME Careful PROVE Spec => []FreeRefusals
<1>1. Tenancy => FreeRefusals
    BY DEF Tenancy, Refusals
<1> QED
    BY <1>1, AreaTenancy, PTL

-----------------------------------------------------------------------------
(***************************************************************************)
(* Nothing is lost.                                                        *)
(***************************************************************************)

\* The reserved slot of sa_alloc is still only reserved when it is filled or
\* given up.
LEMMA FoundReserved ==
    ASSUME Tenancy, NEW t \in Threads
    PROVE  OnlyReserved(t)
<1>1. OpAt /\ Reserved
    BY DEF Tenancy, Refs, Shape
<1> QED
    BY <1>1, Constants DEF OpAt, Reserved, Reserves, OnlyReserved, Registered

\* kref is the number of references, in every state: an error path of sa_alloc,
\* sa_fork or sa_free that forgot a kref_put, or made one too many, would have
\* to show, whichever allocation fails and whatever runs in between.
THEOREM AreaRefCount == ASSUME Careful PROVE Spec => []RefCount
<1>1. Init => RefCount
    <2> SUFFICES ASSUME Init, NEW d \in Descs PROVE kref[d] = References(d)
        BY DEF RefCount
    <2>1. Shape
        BY ShapeInit
    <2>2. Table(d) = {} /\ Slots(d) = {} /\ Holders(d) = {}
        BY Constants
           DEF Init, Table, Slots, Registered, Holders, HoldsRef, UsesAlloc
    <2>3. References(d) = 0 + 0 + 0
        BY <2>1, <2>2, RefSets, FS_EmptySet
    <2> QED
        BY <2>3 DEF Init
<1>2. Tenancy /\ RefCount /\ [Next]_vars => RefCount'
    <2> SUFFICES ASSUME Tenancy, RefCount, [Next]_vars, NEW d \in Descs
                 PROVE  kref'[d] = References(d)'
        BY DEF RefCount
    <2>1. Refs /\ \A t \in Threads : OnlyReserved(t)
        BY FoundReserved DEF Tenancy
    <2>2. Exact(d)
        BY <2>1, CoveredNext
    <2> QED
        BY <2>2 DEF RefCount, Exact
<1> QED
    BY <1>1, <1>2, AreaTenancy, PTL DEF Spec

\* Somebody answers for the pages of l.
Owned(l) ==
    \/ l \in gl_sa
    \/ \E d \in Descs, i \in Ids : Registered(d, i) /\ threads[d][i].pagelist = l
    \/ \E t \in Threads : pc[t] \in OwnsPages /\ pagelist[t] = l

\* The stack in the hands of an operation stays there, or goes to the free list,
\* to the page allocator or into a slot; one that is taken is in its hands.
LEMMA HandsOn ==
    ASSUME Careful, Tenancy, NEW t \in Threads, Acts(t)
    PROVE  /\ pc[t] \in OwnsPages =>
                \/ pc'[t] \in OwnsPages /\ pagelist'[t] = pagelist[t]
                \/ pagelist[t] \in gl_sa' \/ pagelist[t] \notin allocated'
                \/ \E d \in Descs, i \in Ids :
                        Registered(d, i)' /\ threads'[d][i].pagelist = pagelist[t]
           /\ \A l \in (allocated' \ allocated) \cup (gl_sa \ gl_sa') :
                pc'[t] \in OwnsPages /\ pagelist'[t] = l
<1>0. /\ Shape /\ LocalSorts /\ NoNullDeref /\ OpAt
    BY DEF Tenancy, Refs, Shape, TypeOK
<1> USE <1>0 DEF LocalSorts, Goto, Fail, descVars, pageVars, localVars, userVars,
        Ready, OpAt, OwnsPages, UsesPages
<1>1. CASE AllocCreate(t) \/ AllocDestroy(t) \/ SaAlloc(t) \/ UserWrite(t)
    BY <1>1 DEF AllocCreate, AllocDestroy, SaAlloc, FindAlloc, UserWrite
<1>2. ASSUME NEW i \in Ids, SaFree(t, i)
      PROVE  gl_sa' = gl_sa /\ allocated' = allocated /\ pc[t] \notin OwnsPages
    BY <1>2 DEF SaFree, FindAlloc
<1>3. ASSUME NEW p \in Threads, SaFork(t, p)
      PROVE  gl_sa' = gl_sa /\ allocated' = allocated /\ pc[t] \notin OwnsPages
    BY <1>3 DEF SaFork, FindAlloc
<1>4. CASE AllocPut(t) \/ AllocGet(t) \/ Return(t)
    BY <1>4 DEF AllocPut, AllocGet, Return
<1>5. CASE GlAllocStack(t)
    BY <1>5 DEF GlAllocStack
<1>6. CASE GlFreeCheck(t)
    BY <1>6 DEF GlFreeCheck, FreePages
<1>7. CASE GlFreeInsert(t)
    BY <1>7 DEF GlFreeInsert
<1>8. CASE Map(t)
    BY <1>8 DEF Map
<1>9. CASE XaAlloc(t) \/ EraseSlot(t)
    BY <1>9 DEF XaAlloc, EraseSlot
<1>10. CASE SaAllocStore(t) \/ SaForkInsert(t)
    <2>1. gl_sa' = gl_sa /\ allocated' = allocated
        BY <1>10, RegisterEffect
    <2>2. CASE /\ SlotBecomes(alloc[t], id[t], [tid |-> t, pagelist |-> pagelist[t]])
               /\ alloc[t] \in Descs /\ id[t] \in Ids /\ pagelist[t] \in Pagelists
        <3>1. threads'[alloc[t]][id[t]] = [tid |-> t, pagelist |-> pagelist[t]]
            BY <2>2 DEF SlotBecomes
        <3>2. [tid |-> t, pagelist |-> pagelist[t]] \in ThreadDesc
            BY <2>2 DEF ThreadDesc
        <3>3. \E d \in Descs, i \in Ids :
                threads'[d][i] \in ThreadDesc /\ threads'[d][i].pagelist = pagelist[t]
            BY <2>2, <3>1, <3>2
        <3> QED
            BY <2>1, <3>3 DEF Registered
    <2>3. CASE SaForkInsert(t) /\ pc'[t] = "gl_free"
        BY <2>1, <2>3 DEF SaForkInsert
    <2>4. SaForkInsert(t) /\ threads' = threads => pc'[t] = "gl_free"
        <3>1. CASE SaForkInsert(t) /\ pc'[t] = "fork_map"
            <4>1. /\ threads[alloc[t]][id[t]] = NULL /\ alloc[t] \in Descs /\ id[t] \in Ids
                  /\ threads' = [threads EXCEPT ![alloc[t]][id[t]] =
                                    [tid |-> t, pagelist |-> pagelist[t]]]
                  /\ pagelist[t] \in Pagelists
                BY <3>1, RegisterEffect DEF SaForkInsert
            <4>2. threads'[alloc[t]][id[t]] = [tid |-> t, pagelist |-> pagelist[t]]
                BY <4>1 DEF Shape, TypeOK, DescSorts
            <4>3. [tid |-> t, pagelist |-> pagelist[t]] \in ThreadDesc
                BY <4>1 DEF ThreadDesc
            <4> QED
                BY <4>1, <4>2, <4>3, Constants
        <3> QED
            BY <3>1 DEF SaForkInsert
    <2>5. SaAllocStore(t) =>
            SlotBecomes(alloc[t], id[t], [tid |-> t, pagelist |-> pagelist[t]])
        BY RegisterEffect DEF SaAllocStore, SlotBecomes, Shape, TypeOK, DescSorts
    <2> QED
        BY <1>10, <2>2, <2>3, <2>4, <2>5, RegisterEffect
<1>11. CASE SaFreeErase(t) \/ SaFreeUnmap(t)
    BY <1>11 DEF SaFreeErase, SaFreeUnmap
<1>12. CASE SaForkParent(t) \/ SaForkLookup(t) \/ SaForkCopy(t)
    BY <1>12 DEF SaForkParent, SaForkLookup, SaForkCopy
<1> QED
    BY <1>1, <1>2, <1>3, <1>4, <1>5, <1>6, <1>7, <1>8, <1>9, <1>10, <1>11, <1>12
       DEF Acts, Step

\* A registration that ends leaves its stack to the operation that ended it.
LEMMA TakesBack ==
    ASSUME Careful, Tenancy, NEW t \in Threads, Acts(t),
           NEW d \in Descs, NEW i \in Ids, Registered(d, i)
    PROVE  \/ threads'[d][i] = threads[d][i]
           \/ pc'[t] \in OwnsPages /\ pagelist'[t] = threads[d][i].pagelist
<1>0. /\ Shape /\ LocalSorts /\ NoNullDeref /\ OpAt /\ ForkEntry /\ SlotStep(t)
    BY SlotSteps DEF Tenancy, Refs, Shape, TypeOK
<1>1. NULL # XA_ZERO /\ NULL \notin ThreadDesc /\ XA_ZERO \notin ThreadDesc
    BY Constants
<1>2. OnlyReserved(t)
    BY FoundReserved
<1>3. ASSUME threads'[d][i] # threads[d][i]
      PROVE  d = alloc[t] /\ i = id[t] /\ pc[t] \in {"fork_erase", "free_erase"}
    BY <1>0, <1>1, <1>2, <1>3 DEF SlotStep, SlotBecomes, OnlyReserved, Registered
<1>4. ASSUME pc[t] \in {"fork_erase", "free_erase"}
      PROVE  EraseSlot(t) \/ SaFreeErase(t)
    BY <1>4
       DEF Acts, AllocCreate, AllocDestroy, SaAlloc, FindAlloc, SaFree, SaFork,
           UserWrite, Ready, Step, AllocPut, AllocGet, GlAllocStack, GlFreeCheck,
           GlFreeInsert, XaAlloc, SaAllocStore, SaFreeUnmap, SaForkParent,
           SaForkLookup, SaForkCopy, SaForkInsert, Map, Return
<1>5. ASSUME d = alloc[t], i = id[t], SaFreeErase(t)
      PROVE  pc'[t] \in OwnsPages /\ pagelist'[t] = threads[d][i].pagelist
    BY <1>0, <1>5
       DEF SaFreeErase, Registered, Goto, Fail, LocalSorts, OwnsPages, UsesPages
<1>6. ASSUME d = alloc[t], i = id[t], EraseSlot(t), pc[t] = "fork_erase"
      PROVE  pc'[t] \in OwnsPages /\ pagelist'[t] = threads[d][i].pagelist
    <2>1. pc'[t] = "gl_free" /\ pagelist' = pagelist
        BY <1>0, <1>6 DEF EraseSlot, Goto, LocalSorts
    <2>2. threads[d][i] = [tid |-> t, pagelist |-> pagelist[t]]
        BY <1>0, <1>6 DEF ForkEntry
    <2> QED
        BY <2>1, <2>2 DEF OwnsPages, UsesPages
<1> QED
    BY <1>3, <1>4, <1>5, <1>6 DEF EraseSlot

\* No stack is lost: on every path, failing ones and refused or interrupted
\* frees included, the pages taken from the kernel stay on the free list, in a
\* slot or in the hands of an operation, or go back.
THEOREM AreaNoLeak == ASSUME Careful PROVE Spec => []NoLeak
<1>1. Init => NoLeak
    BY DEF Init, NoLeak
<1>2. Tenancy /\ NoLeak /\ [Next]_vars => NoLeak'
    <2> SUFFICES ASSUME Tenancy, NoLeak, [Next]_vars, NEW l \in allocated'
                 PROVE  Owned(l)'
        BY DEF NoLeak, Owned
    <2>0. Shape /\ (l \in allocated => Owned(l))
        BY DEF Tenancy, Refs, NoLeak, Owned
    <2>1. CASE Quiet
        <3>1. l \in allocated /\ (l \in gl_sa => l \in gl_sa')
            BY <2>1 DEF Quiet, VmaFree, vars, pageVars
        <3> QED
            BY <2>0, <2>1, <3>1, QuietKeeps DEF Owned, Registered, OwnsPages, UsesPages
    <2>2. ASSUME NEW t \in Threads, Acts(t) PROVE Owned(l)'
        <3>1. CASE l \notin allocated \/ (l \in gl_sa /\ l \notin gl_sa')
            BY <2>2, <3>1, HandsOn DEF Owned, OwnsPages, UsesPages
        <3>2. CASE l \in gl_sa /\ l \in gl_sa'
            BY <3>2 DEF Owned
        <3>3. ASSUME NEW d \in Descs, NEW i \in Ids, Registered(d, i),
                     threads[d][i].pagelist = l
              PROVE  Owned(l)'
            BY <2>2, <3>3, TakesBack DEF Owned, Registered, OwnsPages, UsesPages
        <3>4. ASSUME NEW u \in Threads \ {t}, pc[u] \in OwnsPages, pagelist[u] = l
              PROVE  Owned(l)'
            <4>1. pc'[u] = pc[u] /\ pagelist'[u] = pagelist[u]
                BY <2>0, <2>2, <3>4, ActsAlone DEF Alone
            <4> QED
                BY <3>4, <4>1 DEF Owned, OwnsPages, UsesPages
        <3>5. ASSUME pc[t] \in OwnsPages, pagelist[t] = l
              PROVE  Owned(l)'
            BY <2>2, <3>5, HandsOn DEF Owned, OwnsPages, UsesPages
        <3> QED
            BY <2>0, <3>1, <3>2, <3>3, <3>4, <3>5 DEF Owned
    <2> QED
        BY <2>1, <2>2, Actors
<1> QED
    BY <1>1, <1>2, AreaTenancy, PTL DEF Spec

-----------------------------------------------------------------------------
(***************************************************************************)
(* What the threads see in their shadow areas.                             *)
(***************************************************************************)

\* The page table of t's process maps l alone in slot i, and l has contents c.
Shows(t, i, l, c) == ptes[Group[t]][i] = {l} /\ contents[l] = c

\* A thread with an area sees its own stack there, with what it expects.
SeesOwn(t) ==
    held[t] # NULL =>
        \E d \in Descs :
            /\ tgid[d] = Group[t] /\ Area(d, held[t], t)
            /\ Shows(t, held[t], threads[d][held[t]].pagelist, expect[t])

\* What t is to find in its stack once REQ or FORK is over.
Promised(t) == IF op[t] = "fork" THEN expect[ppid[t]] ELSE Zeroed

\* Whether FORK has something to copy for t: after FREE of the last slot, which
\* is refused, the parent has a stack that it does not use any more.
Inherits(t) == held[ppid[t]] # NULL

\* An operation that is to give t a stack prepares it: zeroed or copied, then
\* mapped and registered.
Prepares(t) ==
    /\ pc[t] = "map" => contents[pagelist[t]] = Zeroed
    /\ pc[t] = "store" => Shows(t, id[t], pagelist[t], Zeroed)
    /\ pc[t] = "fork_copy" =>
            /\ Area(parent[t], id[t], ppid[t])
            /\ src[t] = threads[parent[t]][id[t]].pagelist
    /\ pc[t] \in {"fork_insert", "fork_map"} /\ Inherits(t) =>
            contents[pagelist[t]] = expect[ppid[t]]
    /\ /\ pc[t] = "ret" /\ op[t] \in {"alloc", "fork"} /\ err[t] = "ok"
       /\ op[t] = "fork" => Inherits(t)
       => Shows(t, id[t], threads[alloc[t]][id[t]].pagelist, Promised(t))

\* Recycled stacks are cleared before anybody can take them.
Cleared ==
    /\ \A l \in gl_sa : contents[l] = Zeroed
    /\ \A t \in Threads : pc[t] = "gl_insert" => contents[pagelist[t]] = Zeroed

\* The inductive invariant of the views.
Views == Tenancy /\ Cleared /\ \A t \in Threads : SeesOwn(t) /\ Prepares(t)

-----------------------------------------------------------------------------
(***************************************************************************)
(* What a step does to pages and page tables.                              *)
(***************************************************************************)

\* The pages written: fresh ones, the caller's own, or, by a store in user space,
\* those its page table maps in its area.
LEMMA PagesWritten ==
    ASSUME Shape, NEW t \in Threads, Acts(t), NEW l \in Pagelists,
           contents'[l] # contents[l]
    PROVE  \/ GlAllocStack(t) /\ l \notin allocated
           \/ (GlFreeCheck(t) \/ SaForkCopy(t)) /\ l = pagelist[t]
           \/ UserWrite(t) /\ l \in ptes[Group[t]][held[t]]
<1>0. LocalSorts /\ PageSorts /\ NoNullDeref
    BY DEF Shape, TypeOK
<1> USE DEF pageVars
<1>1. CASE AllocCreate(t) \/ AllocDestroy(t) \/ SaAlloc(t)
    BY <1>1 DEF AllocCreate, AllocDestroy, SaAlloc
<1>2. CASE (\E i \in Ids : SaFree(t, i)) \/ (\E p \in Threads : SaFork(t, p))
    BY <1>2 DEF SaFree, SaFork
<1>3. CASE AllocPut(t) \/ AllocGet(t) \/ Return(t) \/ GlFreeInsert(t) \/ Map(t)
    BY <1>3 DEF AllocPut, AllocGet, Return, GlFreeInsert, Map
<1>4. CASE XaAlloc(t) \/ SaAllocStore(t) \/ EraseSlot(t) \/ SaFreeErase(t)
           \/ SaFreeUnmap(t) \/ SaForkParent(t) \/ SaForkLookup(t) \/ SaForkInsert(t)
    BY <1>4 DEF XaAlloc, SaAllocStore, EraseSlot, SaFreeErase, SaFreeUnmap,
                SaForkParent, SaForkLookup, SaForkInsert
<1>5. CASE GlAllocStack(t)
    BY <1>0, <1>5 DEF GlAllocStack, PageSorts
<1>6. CASE GlFreeCheck(t)
    BY <1>0, <1>6 DEF GlFreeCheck, ClearPages, PageSorts
<1>7. CASE SaForkCopy(t)
    BY <1>0, <1>7 DEF SaForkCopy, CopyPages, PageSorts
<1>8. CASE UserWrite(t)
    BY <1>8 DEF UserWrite
<1> QED
    BY <1>1, <1>2, <1>3, <1>4, <1>5, <1>6, <1>7, <1>8 DEF Acts, Step

\* The page-table entries written: those of the slot the caller is mapping, or,
\* when the last reference is put, all those of its process.
LEMMA EntriesWritten ==
    ASSUME Shape, NEW t \in Threads, Acts(t), NEW g \in Tgids, NEW i \in Ids,
           ptes'[g][i] # ptes[g][i]
    PROVE  /\ g = Group[t] /\ alloc[t] \in Descs /\ tgid[alloc[t]] = Group[t]
           /\ \/ Map(t) /\ i = id[t]
              \/ pc[t] = "put" /\ kref[alloc[t]] = 1
<1>0. LocalSorts /\ PageSorts /\ NoNullDeref /\ OwnDesc /\ DescSorts
    BY DEF Shape, TypeOK
<1> USE DEF pageVars
<1>1. CASE AllocCreate(t) \/ AllocDestroy(t) \/ SaAlloc(t) \/ UserWrite(t)
    BY <1>1 DEF AllocCreate, AllocDestroy, SaAlloc, UserWrite
<1>2. CASE (\E j \in Ids : SaFree(t, j)) \/ (\E p \in Threads : SaFork(t, p))
    BY <1>2 DEF SaFree, SaFork
<1>3. CASE \/ AllocGet(t) \/ Return(t) \/ GlFreeInsert(t) \/ GlFreeCheck(t)
           \/ GlAllocStack(t) \/ SaForkCopy(t)
    BY <1>3 DEF AllocGet, Return, GlFreeInsert, GlFreeCheck, GlAllocStack, SaForkCopy
<1>4. CASE XaAlloc(t) \/ SaAllocStore(t) \/ EraseSlot(t) \/ SaFreeErase(t)
           \/ SaFreeUnmap(t) \/ SaForkParent(t) \/ SaForkLookup(t) \/ SaForkInsert(t)
    BY <1>4 DEF XaAlloc, SaAllocStore, EraseSlot, SaFreeErase, SaFreeUnmap, UnmapRange,
                SaForkParent, SaForkLookup, SaForkInsert
<1>5. CASE AllocPut(t)
    <2>1. alloc[t] \in Descs /\ pc[t] = "put"
        BY <1>0, <1>5 DEF AllocPut, NoNullDeref, UsesAlloc, Labels, LocalSorts
    <2>2. tgid[alloc[t]] = Group[t]
        BY <1>0, <2>1, Constants DEF OwnDesc
    <2>3. kref[alloc[t]] = 1 /\ ptes' = FreePgdRange(tgid[alloc[t]])
        BY <1>5 DEF AllocPut
    <2>4. g = Group[t]
        BY <1>0, <2>2, <2>3 DEF FreePgdRange, PageSorts
    <2> QED
        BY <2>1, <2>2, <2>3, <2>4
<1>6. CASE Map(t)
    <2>1. alloc[t] \in Descs
        BY <1>0, <1>6 DEF Map, NoNullDeref, UsesAlloc, Labels, LocalSorts
    <2>2. tgid[alloc[t]] = Group[t]
        BY <1>0, <2>1, Constants DEF OwnDesc
    <2>3. g = Group[t] /\ i = id[t]
        BY <1>0, <1>6, Constants
           DEF Map, MapRange, MapRangeFailed, UnmapRange, PageSorts, LocalSorts
    <2> QED
        BY <1>6, <2>1, <2>2, <2>3
<1> QED
    BY <1>1, <1>2, <1>3, <1>4, <1>5, <1>6 DEF Acts, Step

\* When the last reference is put, no stack is registered any more and no other
\* operation works on the descriptor.
LEMMA LastPut ==
    ASSUME Refs, NEW t \in Threads, pc[t] = "put", NEW d \in Descs, alloc[t] = d,
           kref[d] = 1
    PROVE  Slots(d) = {} /\ Holders(d) = {t}
<1>0. Shape /\ kref[d] >= References(d)
    BY DEF Refs, RefsCovered
<1>1. t \in Holders(d)
    BY DEF Holders, HoldsRef, UsesAlloc, Labels
<1>2. Cardinality(Holders(d) \ {t}) = Cardinality(Holders(d)) - 1
    BY <1>0, <1>1, RefSets, FS_RemoveElement
<1>3. IsFiniteSet(Holders(d) \ {t}) /\ Cardinality(Holders(d) \ {t}) \in Nat
    BY <1>0, RefSets, FS_RemoveElement, FS_CardinalityType
<1>4. /\ Cardinality(Table(d)) \in Nat /\ Cardinality(Slots(d)) \in Nat
      /\ Cardinality(Holders(d)) \in Nat
      /\ References(d) = Cardinality(Table(d)) + Cardinality(Slots(d))
                         + Cardinality(Holders(d))
    BY <1>0, RefSets
<1>5. Cardinality(Slots(d)) = 0 /\ Cardinality(Holders(d) \ {t}) = 0
    BY <1>0, <1>2, <1>3, <1>4
<1>6. Slots(d) = {} /\ Holders(d) \ {t} = {}
    BY <1>0, <1>3, <1>5, RefSets, FS_EmptySet
<1> QED
    BY <1>1, <1>6
-----------------------------------------------------------------------------
(***************************************************************************)
(* The view of one thread is not touched by the steps of another.          *)
(***************************************************************************)

\* l belongs to u: it is in a slot registered for u, or in the hands of its
\* operation.
Has(u, l) ==
    \/ \E d \in Descs, i \in Ids : Area(d, i, u) /\ threads[d][i].pagelist = l
    \/ pc[u] \in OwnsPages /\ pagelist[u] = l

\* What a thread in user space can write is its own stack.
LEMMA WritesOwn ==
    ASSUME Views, NEW t \in Threads, held[t] # NULL
    PROVE  \E l \in Pagelists : ptes[Group[t]][held[t]] = {l} /\ Has(t, l)
<1>1. held[t] \in Ids
    BY DEF Views, Tenancy, Refs, Shape, TypeOK, LocalSorts
<1>2. PICK d \in Descs : /\ Area(d, held[t], t)
                         /\ ptes[Group[t]][held[t]] = {threads[d][held[t]].pagelist}
    BY DEF Views, SeesOwn, Shows
<1>3. threads[d][held[t]].pagelist \in Pagelists
    BY <1>2 DEF Area, Registered, ThreadDesc
<1> QED
    BY <1>1, <1>2, <1>3 DEF Has

\* The stacks of different threads are different, allocated and not recycled.
LEMMA HasAlone ==
    ASSUME ExclusivePages, NEW u \in Threads, NEW l \in Pagelists, Has(u, l)
    PROVE  /\ l \in allocated \ gl_sa
           /\ \A t \in Threads \ {u} : ~Has(t, l)
BY DEF ExclusivePages, Has, Area

\* Nobody writes the stack of another thread.
LEMMA ContentsKept ==
    ASSUME Views, NEW t \in Threads, Acts(t), NEW u \in Threads \ {t},
           NEW l \in Pagelists, Has(u, l)
    PROVE  contents'[l] = contents[l]
<1>0. Shape /\ ExclusivePages /\ LocalSorts /\ NoNullDeref
    BY DEF Views, Tenancy, Refs, Shape, TypeOK
<1>1. l \in allocated /\ ~Has(t, l)
    BY <1>0, HasAlone
<1>2. (GlFreeCheck(t) \/ SaForkCopy(t)) => Has(t, pagelist[t])
    BY DEF GlFreeCheck, SaForkCopy, Has, OwnsPages, UsesPages
<1>3. UserWrite(t) => \A m \in ptes[Group[t]][held[t]] : Has(t, m)
    BY WritesOwn DEF UserWrite
<1> QED
    BY <1>0, <1>1, <1>2, <1>3, PagesWritten

\* Nobody maps something else in the area of another thread, or in the slot it
\* has reserved.
LEMMA EntriesKept ==
    ASSUME Views, NEW t \in Threads, Acts(t), NEW u \in Threads \ {t},
           NEW d \in Descs, NEW i \in Ids, tgid[d] = Group[u],
           Area(d, i, u) \/ (Reserves(u) /\ alloc[u] = d /\ id[u] = i)
    PROVE  ptes'[Group[u]][i] = ptes[Group[u]][i]
<1> SUFFICES ASSUME ptes'[Group[u]][i] # ptes[Group[u]][i] PROVE FALSE
    OBVIOUS
<1>0. /\ Refs /\ Shape /\ LocalSorts /\ NoNullDeref /\ OneDesc /\ Reserved /\ Tenants
      /\ OpAt /\ Group[u] \in Tgids /\ Group[u] # NULL
    BY Constants DEF Views, Tenancy, Refs, Shape, TypeOK
<1>1. /\ Group[u] = Group[t] /\ alloc[t] \in Descs /\ tgid[alloc[t]] = Group[t]
      /\ \/ Map(t) /\ i = id[t]
         \/ pc[t] = "put" /\ kref[alloc[t]] = 1
    BY <1>0, EntriesWritten
<1>2. alloc[t] = d
    BY <1>0, <1>1 DEF OneDesc
<1>3. CASE Map(t) /\ i = id[t] /\ pc[t] = "map"
    <2>1. Reserves(t)
        BY <1>0, <1>3 DEF OpAt, Reserves
    <2>2. threads[d][i] = XA_ZERO /\ ~(Reserves(u) /\ alloc[u] = d /\ id[u] = i)
        BY <1>0, <1>2, <1>3, <2>1 DEF Reserved
    <2> QED
        BY <2>2, Constants DEF Area, Registered
<1>4. CASE Map(t) /\ i = id[t] /\ pc[t] = "fork_map"
    <2>1. Area(d, i, t)
        BY <1>0, <1>2, <1>4 DEF Tenants, Settled
    <2>2. Reserves(u) /\ alloc[u] = d /\ id[u] = i => threads[d][i] = XA_ZERO
        BY <1>0 DEF Reserved
    <2> QED
        BY <2>1, <2>2, Constants DEF Area, Registered
<1>5. CASE pc[t] = "put" /\ kref[alloc[t]] = 1
    <2>1. Slots(d) = {} /\ Holders(d) = {t}
        BY <1>0, <1>2, <1>5, LastPut
    <2>2. Area(d, i, u) => i \in Slots(d)
        BY DEF Area, Slots
    <2>3. Reserves(u) /\ alloc[u] = d => u \in Holders(d)
        BY DEF Reserves, Holders, HoldsRef, UsesAlloc, Labels
    <2> QED
        BY <2>1, <2>2, <2>3
<1> QED
    BY <1>1, <1>3, <1>4, <1>5 DEF Map

\* So a thread goes on seeing its stack while the others act.
LEMMA OthersSee ==
    ASSUME Careful, Views, [Next]_vars, NEW t \in Threads, Acts(t),
           NEW u \in Threads \ {t}
    PROVE  SeesOwn(u)'
<1>0. Tenancy /\ Shape /\ LocalSorts /\ SeesOwn(u) /\ Group[u] # NULL
    BY Constants DEF Views, Tenancy, Refs, Shape, TypeOK
<1>1. held'[u] = held[u] /\ expect'[u] = expect[u]
    BY <1>0, ActsAlone DEF Alone
<1> SUFFICES ASSUME held[u] # NULL
             PROVE  \E d \in Descs :
                      /\ tgid'[d] = Group[u] /\ Area(d, held[u], u)'
                      /\ ptes'[Group[u]][held[u]] = {threads'[d][held[u]].pagelist}
                      /\ contents'[threads'[d][held[u]].pagelist] = expect[u]
    BY <1>1 DEF SeesOwn, Shows
<1>2. held[u] \in Ids
    BY <1>0 DEF LocalSorts
<1>3. PICK d \in Descs :
        /\ tgid[d] = Group[u] /\ Area(d, held[u], u)
        /\ Shows(u, held[u], threads[d][held[u]].pagelist, expect[u])
    BY <1>0 DEF SeesOwn
<1> DEFINE l == threads[d][held[u]].pagelist
<1>4. l \in Pagelists /\ Has(u, l)
    BY <1>2, <1>3 DEF Area, Registered, ThreadDesc, Has
<1>5. threads'[d][held[u]] = threads[d][held[u]]
    BY <1>0, <1>2, <1>3, OthersSlots
<1>6. tgid'[d] = Group[u]
    BY <1>0, <1>3, DescSteps
<1>7. ptes'[Group[u]][held[u]] = {l}
    BY <1>2, <1>3, EntriesKept DEF Shows
<1>8. contents'[l] = expect[u]
    BY <1>3, <1>4, ContentsKept DEF Shows
<1>9. Area(d, held[u], u)'
    BY <1>1, <1>3, <1>5 DEF Area, Registered
<1> QED
    BY <1>5, <1>6, <1>7, <1>8, <1>9

\* And the stack another thread prepares stays as it is.
LEMMA OthersPrepare ==
    ASSUME Views, NEW t \in Threads, Acts(t), NEW u \in Threads \ {t}
    PROVE  Prepares(u)'
<1>0. /\ Tenancy /\ Shape /\ LocalSorts /\ NoNullDeref /\ OpAt /\ OwnDesc /\ ForkEntry
      /\ Tenants /\ Prepares(u)
    BY DEF Views, Tenancy, Refs, Shape, TypeOK
<1>1. /\ op'[u] = op[u] /\ pc'[u] = pc[u] /\ alloc'[u] = alloc[u]
      /\ parent'[u] = parent[u] /\ ppid'[u] = ppid[u] /\ id'[u] = id[u]
      /\ pagelist'[u] = pagelist[u] /\ err'[u] = err[u] /\ src'[u] = src[u]
    BY <1>0, ActsAlone DEF Alone
<1>2. id[u] \in Ids /\ Group[u] # NULL
    BY <1>0, Constants DEF LocalSorts
<1>3. ASSUME Forking(u)
      PROVE  /\ ppid[u] \in Threads /\ held'[ppid[u]] = held[ppid[u]]
             /\ expect'[ppid[u]] = expect[ppid[u]] /\ (t = ppid[u] => threads' = threads)
    BY <1>0, <1>3, WaitingParent
<1>4. ASSUME pc[u] \in OwnsPages
      PROVE  pagelist[u] \in Pagelists /\ contents'[pagelist[u]] = contents[pagelist[u]]
    <2>1. pagelist[u] \in Pagelists
        BY <1>0, <1>4 DEF NoNullDeref, OwnsPages, LocalSorts
    <2> QED
        BY <1>4, <2>1, ContentsKept DEF Has
<1>5. ASSUME NEW d \in Descs, NEW i \in Ids, Area(d, i, u)
      PROVE  /\ threads'[d][i] = threads[d][i]
             /\ contents'[threads[d][i].pagelist] = contents[threads[d][i].pagelist]
    <2>1. threads[d][i].pagelist \in Pagelists /\ Has(u, threads[d][i].pagelist)
        BY <1>5 DEF Area, Registered, ThreadDesc, Has
    <2> QED
        BY <1>0, <1>5, <2>1, ContentsKept, OthersSlots
<1>6. ASSUME pc[u] = "map" PROVE contents'[pagelist[u]] = Zeroed
    BY <1>0, <1>4, <1>6 DEF Prepares, OwnsPages, UsesPages
<1>7. ASSUME pc[u] = "store"
      PROVE  ptes'[Group[u]][id[u]] = {pagelist[u]} /\ contents'[pagelist[u]] = Zeroed
    <2>1. alloc[u] \in Descs /\ Reserves(u)
        BY <1>0, <1>7 DEF NoNullDeref, UsesAlloc, Labels, LocalSorts, OpAt, Reserves
    <2>2. tgid[alloc[u]] = Group[u]
        BY <1>0, <2>1, Constants DEF OwnDesc
    <2>3. ptes'[Group[u]][id[u]] = ptes[Group[u]][id[u]]
        BY <1>2, <2>1, <2>2, EntriesKept
    <2> QED
        BY <1>0, <1>4, <1>7, <2>3 DEF Prepares, Shows, OwnsPages, UsesPages
<1>8. ASSUME pc[u] = "fork_copy"
      PROVE  /\ Area(parent[u], id[u], ppid[u])'
             /\ src[u] = threads'[parent[u]][id[u]].pagelist
    <2>1. parent[u] \in Descs /\ Forking(u)
        BY <1>0, <1>8 DEF NoNullDeref, UsesParent, LocalSorts, OpAt, Forking
    <2>2. threads'[parent[u]][id[u]] = threads[parent[u]][id[u]]
        BY <1>0, <1>2, <1>3, <1>8, <2>1, OthersSlots DEF Prepares
    <2> QED
        BY <1>0, <1>1, <1>8, <2>2 DEF Prepares, Area, Registered
<1>9. ASSUME pc[u] \in {"fork_insert", "fork_map"}, held'[ppid[u]] # NULL
      PROVE  contents'[pagelist[u]] = expect'[ppid[u]]
    <2>1. Forking(u)
        BY <1>0, <1>9 DEF OpAt, Forking
    <2>2. contents[pagelist[u]] = expect[ppid[u]]
        BY <1>0, <1>3, <1>9, <2>1 DEF Prepares, Inherits
    <2>3. CASE pc[u] = "fork_insert"
        BY <1>3, <1>4, <2>1, <2>2, <2>3 DEF OwnsPages, UsesPages
    <2>4. CASE pc[u] = "fork_map"
        <3>1. alloc[u] \in Descs /\ Area(alloc[u], id[u], u)
            BY <1>0, <2>4 DEF Tenants, Settled, LocalSorts
        <3>2. threads[alloc[u]][id[u]] = [tid |-> u, pagelist |-> pagelist[u]]
            BY <1>0, <2>4 DEF ForkEntry
        <3> QED
            BY <1>2, <1>3, <1>5, <2>1, <2>2, <3>1, <3>2
    <2> QED
        BY <1>9, <2>3, <2>4
<1>10. ASSUME pc[u] = "ret", op[u] \in {"alloc", "fork"}, err[u] = "ok",
              op[u] = "fork" => held'[ppid[u]] # NULL
       PROVE  Shows(u, id[u], threads[alloc[u]][id[u]].pagelist, Promised(u))'
    <2>1. alloc[u] \in Descs /\ Area(alloc[u], id[u], u)
        BY <1>0, <1>10 DEF Tenants, Settled, LocalSorts
    <2>2. tgid[alloc[u]] = Group[u]
        BY <1>0, <2>1, Constants DEF OwnDesc
    <2>3. Promised(u)' = Promised(u) /\ (op[u] = "fork" => Inherits(u))
        BY <1>1, <1>3, <1>10 DEF Promised, Inherits, Forking
    <2>4. Shows(u, id[u], threads[alloc[u]][id[u]].pagelist, Promised(u))
        BY <1>0, <1>10, <2>3 DEF Prepares
    <2>5. ptes'[Group[u]][id[u]] = ptes[Group[u]][id[u]]
        BY <1>2, <2>1, <2>2, EntriesKept
    <2>6. /\ threads'[alloc[u]][id[u]] = threads[alloc[u]][id[u]]
          /\ contents'[threads[alloc[u]][id[u]].pagelist]
                = contents[threads[alloc[u]][id[u]].pagelist]
        BY <1>2, <1>5, <2>1
    <2> QED
        BY <1>1, <2>3, <2>4, <2>5, <2>6 DEF Shows
<1> QED
    BY <1>1, <1>6, <1>7, <1>8, <1>9, <1>10 DEF Prepares, Shows, Inherits

-----------------------------------------------------------------------------
(***************************************************************************)
(* How an operation prepares the stack of its thread.                      *)
(***************************************************************************)

\* The operation has succeeded and is about to return.
Succeeds(t) == pc[t] = "ret" /\ op[t] \in {"alloc", "fork"} /\ err[t] = "ok"

\* Which step leads to a control point.
LEMMA Arrivals ==
    ASSUME Tenancy, NEW t \in Threads, Acts(t)
    PROVE  /\ pc'[t] = "map" => GlAllocStack(t)
           /\ pc'[t] = "store" => Map(t) /\ pc[t] = "map"
           /\ pc'[t] = "fork_copy" => SaForkLookup(t)
           /\ pc'[t] = "fork_insert" => SaForkCopy(t)
           /\ pc'[t] = "fork_map" => SaForkInsert(t)
           /\ pc'[t] = "gl_insert" => GlFreeCheck(t)
           /\ Succeeds(t)' => SaAllocStore(t) \/ (Map(t) /\ pc[t] = "fork_map")
<1>0. LocalSorts /\ OpState /\ OpAt
    BY DEF Tenancy, Refs, Shape, TypeOK
<1> USE <1>0 DEF LocalSorts, Goto, Fail, descVars, pageVars, localVars, userVars,
        Ready, OpAt, Succeeds
<1>1. CASE AllocCreate(t) \/ AllocDestroy(t) \/ SaAlloc(t)
    BY <1>1 DEF AllocCreate, AllocDestroy, SaAlloc, FindAlloc
<1>2. CASE \E i \in Ids : SaFree(t, i)
    BY <1>2 DEF SaFree, FindAlloc
<1>3. CASE \E p \in Threads : SaFork(t, p)
    BY <1>3 DEF SaFork, FindAlloc
<1>4. CASE AllocPut(t) \/ AllocGet(t)
    BY <1>4 DEF AllocPut, AllocGet, OpState
<1>5. CASE GlAllocStack(t) \/ GlFreeCheck(t) \/ GlFreeInsert(t)
    BY <1>5 DEF GlAllocStack, GlFreeCheck, GlFreeInsert, AfterGlFree
<1>6. CASE Map(t)
    BY <1>6 DEF Map
<1>7. CASE XaAlloc(t) \/ SaAllocStore(t) \/ EraseSlot(t)
    BY <1>7 DEF XaAlloc, SaAllocStore, EraseSlot
<1>8. CASE SaFreeErase(t) \/ SaFreeUnmap(t)
    BY <1>8 DEF SaFreeErase, SaFreeUnmap
<1>9. CASE SaForkParent(t) \/ SaForkLookup(t) \/ SaForkCopy(t) \/ SaForkInsert(t)
    BY <1>9 DEF SaForkParent, SaForkLookup, SaForkCopy, SaForkInsert
<1>10. CASE Return(t) \/ UserWrite(t)
    BY <1>10 DEF Return, UserWrite
<1> QED
    BY <1>1, <1>2, <1>3, <1>4, <1>5, <1>6, <1>7, <1>8, <1>9, <1>10 DEF Acts, Step

\* A stack from gl_alloc_stack is cleared: a recycled one already, a new one now.
LEMMA TakesCleared ==
    ASSUME Views, NEW t \in Threads, GlAllocStack(t), pc'[t] = "map"
    PROVE  contents'[pagelist'[t]] = Zeroed
<1>0. LocalSorts /\ PageSorts /\ Cleared
    BY DEF Views, Tenancy, Refs, Shape, TypeOK
<1>1. CASE \E l \in gl_sa : pagelist' = [pagelist EXCEPT ![t] = l] /\ contents' = contents
    BY <1>0, <1>1 DEF Cleared, LocalSorts
<1>2. CASE \E l \in Pagelists : /\ pagelist' = [pagelist EXCEPT ![t] = l]
                                /\ contents' = [contents EXCEPT ![l] = Zeroed]
    BY <1>0, <1>2 DEF PageSorts, LocalSorts
<1> QED
    BY <1>0, <1>1, <1>2 DEF GlAllocStack, Fail, Goto, LocalSorts

\* map_range makes the stack of sa_alloc visible, and nothing else with it.
LEMMA MapsCleared ==
    ASSUME Views, NEW t \in Threads, Map(t), pc[t] = "map", pc'[t] = "store"
    PROVE  Shows(t, id[t], pagelist[t], Zeroed)'
<1>0. LocalSorts /\ PageSorts /\ Prepares(t) /\ Group[t] \in Tgids
    BY Constants DEF Views, Tenancy, Refs, Shape, TypeOK
<1>1. /\ ptes' = MapRange(ptes, Group[t], id[t], pagelist[t])
      /\ id' = id /\ pagelist' = pagelist /\ contents' = contents
    BY <1>0 DEF Map, Fail, Goto, LocalSorts
<1>2. ptes'[Group[t]][id[t]] = {pagelist[t]}
    BY <1>0, <1>1 DEF MapRange, PageSorts, LocalSorts
<1> QED
    BY <1>0, <1>1, <1>2 DEF Shows, Prepares

\* sa_fork copies what its parent sees.
LEMMA CopiesParents ==
    ASSUME Views, NEW t \in Threads, SaForkCopy(t), held[ppid[t]] # NULL
    PROVE  contents'[pagelist[t]] = expect[ppid[t]]
<1>0. /\ Tenancy /\ LocalSorts /\ PageSorts /\ NoNullDeref /\ OpAt /\ OneDesc /\ ForkSlot
      /\ ParentWaits /\ Prepares(t)
    BY DEF Views, Tenancy, Refs, Shape, TypeOK
<1> DEFINE p == ppid[t]
<1>1. /\ pc[t] = "fork_copy" /\ p \in Threads /\ parent[t] \in Descs
      /\ pagelist[t] \in Pagelists /\ id[t] \in Ids
    BY <1>0 DEF SaForkCopy, OpAt, Forking, ParentWaits, NoNullDeref, UsesParent,
                UsesPages, LocalSorts
<1>2. id[t] = held[p]
    BY <1>0, <1>1 DEF ForkSlot, Copying
<1>3. Area(parent[t], held[p], p) /\ src[t] = threads[parent[t]][held[p]].pagelist
    BY <1>0, <1>1, <1>2 DEF Prepares
<1>4. PICK d \in Descs : /\ tgid[d] = Group[p]
                         /\ contents[threads[d][held[p]].pagelist] = expect[p]
    BY <1>1 DEF Views, SeesOwn, Shows
<1>5. tgid[parent[t]] = Group[p] /\ Group[p] # NULL
    BY <1>0, <1>1, <1>2, <1>3, Constants DEF OneDesc, Area
<1>6. d = parent[t]
    BY <1>0, <1>1, <1>4, <1>5 DEF OneDesc
<1>7. contents' = [contents EXCEPT ![pagelist[t]] = contents[src[t]]]
    BY DEF SaForkCopy, CopyPages
<1> QED
    BY <1>0, <1>1, <1>3, <1>4, <1>6, <1>7 DEF PageSorts

\* The step that ends sa_alloc or sa_fork with success leaves the stack mapped
\* and registered.
LEMMA EndsReady ==
    ASSUME Views, NEW t \in Threads,
           SaAllocStore(t) \/ (Map(t) /\ pc[t] = "fork_map" /\ pc'[t] = "ret"),
           op[t] = "fork" => Inherits(t)
    PROVE  Shows(t, id[t], threads[alloc[t]][id[t]].pagelist, Promised(t))'
<1>0. /\ LocalSorts /\ PageSorts /\ DescSorts /\ NoNullDeref /\ OpAt /\ ForkEntry
      /\ Prepares(t) /\ Group[t] \in Tgids
    BY Constants DEF Views, Tenancy, Refs, Shape, TypeOK
<1>1. CASE SaAllocStore(t)
    <2>1. alloc[t] \in Descs /\ id[t] \in Ids /\ pc[t] = "store" /\ op[t] = "alloc"
        BY <1>0, <1>1 DEF SaAllocStore, NoNullDeref, UsesAlloc, Labels, LocalSorts, OpAt
    <2>2. threads'[alloc[t]][id[t]] = [tid |-> t, pagelist |-> pagelist[t]]
        BY <1>0, <1>1, <2>1 DEF SaAllocStore, DescSorts
    <2>3. /\ alloc' = alloc /\ id' = id /\ ptes' = ptes /\ contents' = contents
          /\ op' = op
        BY <1>1 DEF SaAllocStore, pageVars
    <2>4. Shows(t, id[t], pagelist[t], Zeroed)
        BY <1>0, <2>1 DEF Prepares
    <2> QED
        BY <2>1, <2>2, <2>3, <2>4 DEF Shows, Promised
<1>2. CASE Map(t) /\ pc[t] = "fork_map" /\ pc'[t] = "ret"
    <2>1. op[t] = "fork" /\ threads[alloc[t]][id[t]] = [tid |-> t, pagelist |-> pagelist[t]]
        BY <1>0, <1>2 DEF OpAt, ForkEntry
    <2>2. ptes' = MapRange(ptes, Group[t], id[t], pagelist[t])
        BY <1>0, <1>2 DEF Map, Fail, Goto, LocalSorts
    <2>3. /\ alloc' = alloc /\ id' = id /\ threads' = threads /\ contents' = contents
          /\ op' = op /\ ppid' = ppid /\ expect' = expect
        BY <1>2 DEF Map, userVars
    <2>4. ptes'[Group[t]][id[t]] = {pagelist[t]}
        BY <1>0, <2>2 DEF MapRange, PageSorts, LocalSorts
    <2>5. contents[pagelist[t]] = expect[ppid[t]]
        BY <1>0, <1>2, <2>1 DEF Prepares
    <2> QED
        BY <2>1, <2>3, <2>4, <2>5 DEF Shows, Promised
<1> QED
    BY <1>1, <1>2

\* So an operation prepares the stack of its thread in each of its steps.
LEMMA ActorPrepares ==
    ASSUME Views, NEW t \in Threads, Acts(t)
    PROVE  Prepares(t)'
<1>0. Tenancy /\ LocalSorts /\ Prepares(t)
    BY DEF Views, Tenancy, Refs, Shape, TypeOK
<1>1. ASSUME pc'[t] = "map" PROVE contents'[pagelist'[t]] = Zeroed
    BY <1>0, <1>1, Arrivals, TakesCleared
<1>2. ASSUME pc'[t] = "store" PROVE Shows(t, id[t], pagelist[t], Zeroed)'
    BY <1>0, <1>2, Arrivals, MapsCleared
<1>3. ASSUME pc'[t] = "fork_copy"
      PROVE  /\ Area(parent[t], id[t], ppid[t])'
             /\ src'[t] = threads'[parent'[t]][id'[t]].pagelist
    <2>1. SaForkLookup(t)
        BY <1>0, <1>3, Arrivals
    <2>2. threads' = threads /\ parent' = parent /\ ppid' = ppid
        BY <1>0, <1>3, <2>1 DEF SaForkLookup, Goto, Fail, LocalSorts
    <2> QED
        BY <1>0, <1>3, <2>1, <2>2, LookupFinds DEF Area, Registered
<1>4. ASSUME pc'[t] = "fork_insert", Inherits(t)'
      PROVE  contents'[pagelist'[t]] = expect'[ppid'[t]]
    <2>1. SaForkCopy(t)
        BY <1>0, <1>4, Arrivals
    <2>2. pagelist' = pagelist /\ ppid' = ppid /\ held' = held /\ expect' = expect
        BY <2>1 DEF SaForkCopy, userVars
    <2> QED
        BY <1>4, <2>1, <2>2, CopiesParents DEF Inherits
<1>5. ASSUME pc'[t] = "fork_map", Inherits(t)'
      PROVE  contents'[pagelist'[t]] = expect'[ppid'[t]]
    <2>1. SaForkInsert(t)
        BY <1>0, <1>5, Arrivals
    <2>2. /\ pagelist' = pagelist /\ ppid' = ppid /\ held' = held /\ expect' = expect
          /\ contents' = contents /\ pc[t] = "fork_insert"
        BY <2>1 DEF SaForkInsert, userVars, pageVars
    <2> QED
        BY <1>0, <1>5, <2>2 DEF Inherits, Prepares
<1>6. ASSUME Succeeds(t)', op'[t] = "fork" => Inherits(t)'
      PROVE  Shows(t, id[t], threads[alloc[t]][id[t]].pagelist, Promised(t))'
    <2>1. SaAllocStore(t) \/ (Map(t) /\ pc[t] = "fork_map")
        BY <1>0, <1>6, Arrivals
    <2>2. op' = op /\ ppid' = ppid /\ held' = held /\ pc'[t] = "ret"
        BY <1>6, <2>1 DEF SaAllocStore, Map, userVars, Succeeds
    <2> QED
        BY <1>6, <2>1, <2>2, EndsReady DEF Inherits
<1> QED
    BY <1>1, <1>2, <1>3, <1>4, <1>5, <1>6 DEF Prepares, Succeeds

-----------------------------------------------------------------------------
(***************************************************************************)
(* What a thread sees in its area after a step of its own.                 *)
(***************************************************************************)

\* The steps that user space does not notice.
Unseen(t) ==
    /\ ~UserWrite(t) /\ ~Return(t)
    /\ \A i \in Ids : ~SaFree(t, i)
    /\ \A p \in Threads : ~SaFork(t, p)

\* They leave alone what threads hold and expect; a FORK may end without a word.
LEMMA UnseenSteps ==
    ASSUME NEW t \in Threads, Acts(t), Unseen(t)
    PROVE  /\ held' = held /\ expect' = expect
           /\ ppid' = ppid \/ ppid' = [ppid EXCEPT ![t] = NULL]
<1> USE DEF localVars, userVars
<1>1. CASE AllocCreate(t) \/ AllocDestroy(t) \/ SaAlloc(t) \/ AllocPut(t) \/ AllocGet(t)
    BY <1>1 DEF AllocCreate, AllocDestroy, SaAlloc, AllocPut, AllocGet
<1>2. CASE GlAllocStack(t) \/ GlFreeCheck(t) \/ GlFreeInsert(t) \/ Map(t)
    BY <1>2 DEF GlAllocStack, GlFreeCheck, GlFreeInsert, Map
<1>3. CASE XaAlloc(t) \/ SaAllocStore(t) \/ EraseSlot(t) \/ SaFreeErase(t) \/ SaFreeUnmap(t)
    BY <1>3 DEF XaAlloc, SaAllocStore, EraseSlot, SaFreeErase, SaFreeUnmap
<1>4. CASE SaForkParent(t) \/ SaForkLookup(t) \/ SaForkCopy(t) \/ SaForkInsert(t)
    BY <1>4 DEF SaForkParent, SaForkLookup, SaForkCopy, SaForkInsert
<1> QED
    BY <1>1, <1>2, <1>3, <1>4 DEF Acts, Step, Unseen

\* What comes back from the kernel: a stack from REQ, the parent's slot from a
\* FORK of a parent that has one, and otherwise nothing new.
LEMMA Returns ==
    ASSUME Tenancy, NEW t \in Threads, Return(t)
    PROVE  \/ /\ Succeeds(t) /\ op[t] = "alloc"
              /\ held' = [held EXCEPT ![t] = id[t]]
              /\ expect' = [expect EXCEPT ![t] = Zeroed]
           \/ /\ Succeeds(t) /\ op[t] = "fork" /\ Inherits(t)
              /\ held' = [held EXCEPT ![t] = id[t]]
              /\ expect' = [expect EXCEPT ![t] = expect[ppid[t]]]
           \/ /\ held' = held
              /\ \/ expect' = expect
                 \/ /\ held[t] = NULL /\ op[t] = "fork"
                    /\ expect' = [expect EXCEPT ![t] = expect[ppid[t]]]
<1>0. LocalSorts /\ OpState /\ ForkSlot
    BY DEF Tenancy, Refs, Shape, TypeOK
<1>1. CASE op[t] = "fork" /\ err[t] = "ok"
    <2>1. /\ held' = [held EXCEPT ![t] = held[ppid[t]]]
          /\ expect' = [expect EXCEPT ![t] = expect[ppid[t]]]
          /\ Succeeds(t) /\ Copying(t) /\ held[t] = NULL
        BY <1>0, <1>1 DEF Return, Succeeds, Copying, OpState
    <2>2. CASE held[ppid[t]] = NULL
        <3>1. held' = held
            BY <1>0, <2>1, <2>2 DEF LocalSorts
        <3> QED
            BY <1>1, <2>1, <3>1
    <2>3. CASE held[ppid[t]] # NULL
        BY <1>0, <1>1, <2>1, <2>3 DEF ForkSlot, Inherits
    <2> QED
        BY <2>2, <2>3
<1>2. CASE op[t] = "alloc" /\ err[t] = "ok"
    BY <1>2 DEF Return, Succeeds, userVars
<1>3. CASE op[t] \notin {"alloc", "fork"} \/ err[t] # "ok"
    BY <1>3 DEF Return, userVars
<1> QED
    BY <1>1, <1>2, <1>3

\* The own operations of a thread that has an area, which can only be a close of
\* the device, leave its view alone: the page tables go with the last reference,
\* and its registration is one.
LEMMA OwnKept ==
    ASSUME Views, NEW t \in Threads, Acts(t), ~UserWrite(t), held[t] # NULL,
           NEW d \in Descs, tgid[d] = Group[t], Area(d, held[t], t)
    PROVE  /\ ptes'[Group[t]][held[t]] = ptes[Group[t]][held[t]]
           /\ contents'[threads[d][held[t]].pagelist]
                = contents[threads[d][held[t]].pagelist]
<1>0. /\ Refs /\ Shape /\ LocalSorts /\ OpState /\ OpAt /\ Pinned /\ OneDesc
      /\ Group[t] \in Tgids /\ Group[t] # NULL
    BY Constants DEF Views, Tenancy, Refs, Shape, TypeOK
<1>1. pc[t] \in {"idle", "put", "ret", "oops"} /\ held[t] \in Ids
    BY <1>0 DEF OpState, Pinned, LocalSorts
<1>2. threads[d][held[t]].pagelist \in Pagelists
    BY DEF Area, Registered, ThreadDesc
<1>3. contents'[threads[d][held[t]].pagelist] = contents[threads[d][held[t]].pagelist]
    BY <1>0, <1>1, <1>2, PagesWritten DEF GlAllocStack, GlFreeCheck, SaForkCopy
<1>4. ASSUME ptes'[Group[t]][held[t]] # ptes[Group[t]][held[t]] PROVE FALSE
    <2>1. /\ alloc[t] \in Descs /\ tgid[alloc[t]] = Group[t]
          /\ pc[t] = "put" /\ kref[alloc[t]] = 1
        BY <1>0, <1>1, <1>4, EntriesWritten DEF Map
    <2>2. alloc[t] = d
        BY <1>0, <2>1 DEF OneDesc
    <2>3. Slots(d) = {}
        BY <1>0, <2>1, <2>2, LastPut
    <2> QED
        BY <1>1, <2>3 DEF Slots, Area
<1> QED
    BY <1>3, <1>4

\* So a thread sees its stack after each step of its own.
LEMMA ActorSees ==
    ASSUME Careful, Views, [Next]_vars, NEW t \in Threads, Acts(t)
    PROVE  SeesOwn(t)'
<1>0. /\ Tenancy /\ Shape /\ LocalSorts /\ PageSorts /\ OwnDesc /\ Tenants /\ SeesOwn(t)
      /\ Prepares(t) /\ Group[t] # NULL
    BY Constants DEF Views, Tenancy, Refs, Shape, TypeOK
<1> SUFFICES ASSUME held'[t] # NULL
             PROVE  \E d \in Descs :
                      /\ tgid'[d] = Group[t] /\ Area(d, held[t], t)'
                      /\ ptes'[Group[t]][held'[t]] = {threads'[d][held'[t]].pagelist}
                      /\ contents'[threads'[d][held'[t]].pagelist] = expect'[t]
    BY DEF SeesOwn, Shows
<1>1. threads' = threads
    BY <1>0, HeldStep
<1>2. \A d \in Descs : tgid[d] # NULL => tgid'[d] = tgid[d]
    BY <1>0, DescSteps
<1>3. ASSUME held[t] # NULL
      PROVE  \E d \in Descs :
                /\ tgid[d] = Group[t] /\ Area(d, held[t], t)
                /\ Shows(t, held[t], threads[d][held[t]].pagelist, expect[t])
    BY <1>0, <1>3 DEF SeesOwn
<1>4. CASE held' = held /\ expect'[t] = expect[t] /\ ~UserWrite(t)
    <2>1. PICK d \in Descs :
                /\ tgid[d] = Group[t] /\ Area(d, held[t], t)
                /\ Shows(t, held[t], threads[d][held[t]].pagelist, expect[t])
        BY <1>3, <1>4
    <2>2. /\ ptes'[Group[t]][held[t]] = ptes[Group[t]][held[t]]
          /\ contents'[threads[d][held[t]].pagelist]
                = contents[threads[d][held[t]].pagelist]
        BY <1>4, <2>1, OwnKept
    <2>3. tgid'[d] = Group[t] /\ Area(d, held[t], t)'
        BY <1>0, <1>1, <1>2, <1>4, <2>1 DEF Area, Registered
    <2> QED
        BY <1>1, <1>4, <2>1, <2>2, <2>3 DEF Shows
<1>5. CASE UserWrite(t)
    <2>1. /\ held' = held /\ ptes' = ptes /\ expect'[t] = t /\ held[t] # NULL
          /\ contents' = [l \in Pagelists |-> IF l \in ptes[Group[t]][held[t]]
                                              THEN t ELSE contents[l]]
        BY <1>0, <1>5 DEF UserWrite, LocalSorts
    <2>2. PICK d \in Descs :
                /\ tgid[d] = Group[t] /\ Area(d, held[t], t)
                /\ Shows(t, held[t], threads[d][held[t]].pagelist, expect[t])
        BY <1>3, <2>1
    <2>3. threads[d][held[t]].pagelist \in Pagelists
        BY <2>2 DEF Area, Registered, ThreadDesc
    <2>4. contents'[threads[d][held[t]].pagelist] = t
        BY <2>1, <2>2, <2>3 DEF Shows
    <2>5. tgid'[d] = Group[t] /\ Area(d, held[t], t)'
        BY <1>0, <1>1, <1>2, <2>1, <2>2 DEF Area, Registered
    <2> QED
        BY <1>1, <2>1, <2>2, <2>4, <2>5 DEF Shows
<1>6. CASE /\ Return(t) /\ Succeeds(t) /\ held'[t] = id[t] /\ expect'[t] = Promised(t)
           /\ op[t] = "fork" => Inherits(t)
    <2>1. PICK d \in Descs : alloc[t] = d /\ Area(d, id[t], t)
        BY <1>0, <1>6 DEF Tenants, Settled, Succeeds, LocalSorts
    <2>2. tgid[d] = Group[t]
        BY <1>0, <2>1, Constants DEF OwnDesc
    <2>3. Shows(t, id[t], threads[d][id[t]].pagelist, Promised(t))
        BY <1>0, <1>6, <2>1 DEF Prepares, Succeeds
    <2>4. ptes' = ptes /\ contents' = contents /\ tgid' = tgid
        BY <1>6 DEF Return, pageVars, descVars
    <2>5. Area(d, held[t], t)'
        BY <1>1, <1>6, <2>1 DEF Area, Registered
    <2> QED
        BY <1>1, <1>6, <2>2, <2>3, <2>4, <2>5 DEF Shows
<1>7. CASE Return(t)
    <2>0. ~UserWrite(t)
        BY <1>7 DEF Return, UserWrite, Ready
    <2>1. CASE /\ Succeeds(t) /\ op[t] = "alloc"
               /\ held' = [held EXCEPT ![t] = id[t]]
               /\ expect' = [expect EXCEPT ![t] = Zeroed]
        <3>1. held'[t] = id[t] /\ expect'[t] = Promised(t)
            BY <1>0, <2>1 DEF LocalSorts, Promised
        <3> QED
            BY <1>6, <1>7, <2>1, <3>1
    <2>2. CASE /\ Succeeds(t) /\ op[t] = "fork" /\ Inherits(t)
               /\ held' = [held EXCEPT ![t] = id[t]]
               /\ expect' = [expect EXCEPT ![t] = expect[ppid[t]]]
        <3>1. held'[t] = id[t] /\ expect'[t] = Promised(t)
            BY <1>0, <2>2 DEF LocalSorts, Promised
        <3> QED
            BY <1>6, <1>7, <2>2, <3>1
    <2> QED
        BY <1>0, <1>4, <1>7, <2>0, <2>1, <2>2, Returns
<1>8. CASE Unseen(t)
    BY <1>4, <1>8, UnseenSteps DEF Unseen
<1>9. CASE \E i \in Ids : SaFree(t, i)
    BY <1>0, <1>9 DEF SaFree, LocalSorts
<1>10. CASE \E p \in Threads : SaFork(t, p)
    BY <1>0, <1>10 DEF SaFork, userVars
<1> QED
    BY <1>5, <1>7, <1>8, <1>9, <1>10 DEF Unseen

\* Recycled stacks stay cleared.
LEMMA ClearedNext ==
    ASSUME Views, [Next]_vars
    PROVE  Cleared'
<1>0. /\ Tenancy /\ Shape /\ LocalSorts /\ PageSorts /\ NoNullDeref /\ ExclusivePages
      /\ Cleared
    BY DEF Views, Tenancy, Refs, Shape, TypeOK
<1>1. CASE Quiet
    BY <1>0, <1>1, QuietKeeps DEF Cleared
<1>2. ASSUME NEW t \in Threads, Acts(t) PROVE Cleared'
    <2>1. ASSUME NEW l \in gl_sa PROVE contents'[l] = Zeroed
        <3>0. l \in Pagelists /\ l \in allocated /\ ~Has(t, l) /\ contents[l] = Zeroed
            BY <1>0, <2>1, HasAlone DEF PageSorts, Cleared, ExclusivePages
        <3>1. (GlFreeCheck(t) \/ SaForkCopy(t)) => Has(t, pagelist[t])
            BY DEF GlFreeCheck, SaForkCopy, Has, OwnsPages, UsesPages
        <3>2. UserWrite(t) => \A m \in ptes[Group[t]][held[t]] : Has(t, m)
            BY WritesOwn DEF UserWrite
        <3> QED
            BY <1>0, <1>2, <3>0, <3>1, <3>2, PagesWritten
    <2>2. ASSUME NEW l \in gl_sa' PROVE contents'[l] = Zeroed
        <3>1. CASE GlFreeInsert(t)
            <4>1. gl_sa' = gl_sa \cup {pagelist[t]} /\ contents' = contents
                BY <3>1 DEF GlFreeInsert
            <4>2. contents[pagelist[t]] = Zeroed
                BY <1>0, <3>1 DEF GlFreeInsert, Cleared
            <4> QED
                BY <2>1, <2>2, <4>1, <4>2
        <3>2. CASE ~GlFreeInsert(t)
            <4>1. gl_sa' \subseteq gl_sa
                <5>1. CASE GlAllocStack(t) \/ GlFreeCheck(t)
                    BY <5>1 DEF GlAllocStack, GlFreeCheck
                <5>2. CASE ~GlAllocStack(t) /\ ~GlFreeCheck(t)
                    BY <1>0, <1>2, <3>2, <5>2, ListUntouched DEF Acts, Step, ListKept
                <5> QED
                    BY <5>1, <5>2
            <4> QED
                BY <2>1, <2>2, <4>1
        <3> QED
            BY <3>1, <3>2
    <2>3. ASSUME pc'[t] = "gl_insert" PROVE contents'[pagelist'[t]] = Zeroed
        <3>1. GlFreeCheck(t)
            BY <1>0, <1>2, <2>3, Arrivals
        <3>2. pagelist[t] \in Pagelists
            BY <1>0, <3>1 DEF GlFreeCheck, NoNullDeref, UsesPages, LocalSorts
        <3>3. contents' = ClearPages(pagelist[t]) /\ pagelist' = pagelist
            BY <1>0, <2>3, <3>1 DEF GlFreeCheck, AfterGlFree, Goto, LocalSorts
        <3> QED
            BY <1>0, <3>2, <3>3 DEF ClearPages, PageSorts
    <2>4. ASSUME NEW u \in Threads \ {t}, pc'[u] = "gl_insert"
          PROVE  contents'[pagelist'[u]] = Zeroed
        <3>1. pc[u] = "gl_insert" /\ pagelist'[u] = pagelist[u]
            BY <1>0, <1>2, <2>4, ActsAlone DEF Alone
        <3>2. pagelist[u] \in Pagelists /\ Has(u, pagelist[u])
            BY <1>0, <3>1 DEF NoNullDeref, UsesPages, OwnsPages, LocalSorts, Has
        <3> QED
            BY <1>0, <1>2, <3>1, <3>2, ContentsKept DEF Cleared
    <2> QED
        BY <2>2, <2>3, <2>4 DEF Cleared
<1> QED
    BY <1>1, <1>2, Actors

-----------------------------------------------------------------------------
(***************************************************************************)
(* The theorems.                                                           *)
(***************************************************************************)
LEMMA ViewsInit == Init => Views
<1> SUFFICES ASSUME Init PROVE Views
    OBVIOUS
<1>1. Tenancy
    BY TenancyInit
<1>2. Cleared
    BY DEF Init, Cleared
<1>3. \A t \in Threads : SeesOwn(t) /\ Prepares(t)
    BY DEF Init, SeesOwn, Prepares
<1> QED
    BY <1>1, <1>2, <1>3 DEF Views

\* Every step keeps what the threads see.
LEMMA ViewsNext == Careful /\ Views /\ [Next]_vars => Views'
<1> SUFFICES ASSUME Careful, Views, [Next]_vars PROVE Views'
    OBVIOUS
<1>1. Tenancy'
    BY TenancyNext DEF Views
<1>2. Cleared'
    BY ClearedNext
<1>3. ASSUME NEW u \in Threads PROVE SeesOwn(u)' /\ Prepares(u)'
    <2>1. CASE Quiet
        <3>1. SeesOwn(u) /\ Prepares(u)
            BY DEF Views
        <3>2. SeesOwn(u)'
            BY <2>1, <3>1, QuietKeeps DEF SeesOwn, Shows, Area, Registered
        <3>3. Prepares(u)'
            BY <2>1, <3>1, QuietKeeps
               DEF Prepares, Shows, Area, Registered, Inherits, Promised
        <3> QED
            BY <3>2, <3>3
    <2>2. ASSUME NEW t \in Threads, Acts(t) PROVE SeesOwn(u)' /\ Prepares(u)'
        <3>1. CASE u = t
            BY <2>2, <3>1, ActorSees, ActorPrepares
        <3>2. CASE u # t
            BY <2>2, <3>2, OthersSee, OthersPrepare
        <3> QED
            BY <3>1, <3>2
    <2> QED
        BY <2>1, <2>2, Actors
<1> QED
    BY <1>1, <1>2, <1>3 DEF Views

\* The views of careful processes, in every behaviour.
THEOREM AreaViews == ASSUME Careful PROVE Spec => []Views
<1>1. Init => Views
    BY ViewsInit
<1>2. Views /\ [Next]_vars => Views'
    BY ViewsNext
<1> QED
    BY <1>1, <1>2, PTL DEF Spec

\* A thread with an area always sees one stack there, the one sa_alloc or sa_fork
\* registered for it, with its own data, however many threads and processes
\* request, free and fork stacks and recycle each other's pages meanwhile, and
\* although sa_free leaves the page-table entries behind.
THEOREM AreaIsolation == ASSUME Careful PROVE Spec => []Isolation
<1>1. Views => Isolation
    <2> SUFFICES ASSUME Views, NEW t \in Threads, held[t] # NULL
                 PROVE  \E d \in Descs :
                            /\ tgid[d] = Group[t]
                            /\ Registered(d, held[t])
                            /\ threads[d][held[t]].tid = t
                            /\ ptes[Group[t]][held[t]] = {threads[d][held[t]].pagelist}
                            /\ contents[threads[d][held[t]].pagelist] = expect[t]
        BY DEF Isolation
    <2> QED
        BY DEF Views, SeesOwn, Shows, Area
<1> QED
    BY <1>1, AreaViews, PTL

-----------------------------------------------------------------------------
(***************************************************************************)
(* The refinement of PrivateStacks.                                        *)
(***************************************************************************)

\* What a thread sees is what it expects.
Seen == [t \in Threads |-> IF held[t] = NULL THEN NULL ELSE expect[t]]

\* The page tables and the contents of the stacks show exactly that.
LEMMA SeesSeen == Views => visible = Seen
<1> SUFFICES ASSUME Views PROVE visible = Seen
    OBVIOUS
<1>1. ASSUME NEW t \in Threads, held[t] # NULL
      PROVE  contents[CHOOSE l \in Pagelists : l \in ptes[Group[t]][held[t]]] = expect[t]
    <2>1. PICK l \in Pagelists : ptes[Group[t]][held[t]] = {l} /\ contents[l] = expect[t]
        BY <1>1 DEF Views, SeesOwn, Shows, Area, Registered, ThreadDesc
    <2>2. (CHOOSE m \in Pagelists : m \in ptes[Group[t]][held[t]]) = l
        BY <2>1
    <2> QED
        BY <2>1, <2>2
<1> QED
    BY <1>1 DEF visible, Seen

\* The same after a step.
LEMMA SeesSeenNext == Views' => visible' = Seen'
<1>1. Views => visible = Seen
    BY SeesSeen
<1>2. Views' => (visible = Seen)'
    BY <1>1, PTL
<1> QED
    BY <1>2

\* A thread in user space waits for no fork.
LEMMA ReadyFree ==
    ASSUME OpState, NEW t \in Threads, Ready(t)
    PROVE  ppid[t] = NULL /\ \A u \in Threads : ppid[u] # t
<1>1. ppid[t] = NULL
    BY DEF OpState, Ready
<1>2. ASSUME NEW u \in Threads, ppid[u] = t PROVE FALSE
    <2>1. ppid[u] # NULL
        BY <1>2, Constants
    <2>2. Forking(u)
        BY <2>1 DEF OpState, Forking
    <2> QED
        BY <1>2, <2>2 DEF Ready, Blocked
<1> QED
    BY <1>1, <1>2

\* Each step of a thread is a step of PrivateStacks or changes nothing there.
LEMMA StackStep ==
    ASSUME Careful, Views, Views', NEW t \in Threads, Acts(t)
    PROVE  Abstract!Next \/ UNCHANGED <<visible, ppid>>
<1>0. /\ Tenancy /\ LocalSorts /\ NoNullDeref /\ OpState /\ ParentWaits
      /\ visible = Seen /\ visible' = Seen'
    BY SeesSeen, SeesSeenNext DEF Views, Tenancy, Refs, Shape, TypeOK
<1>1. ASSUME NEW u \in Threads
      PROVE  Seen[u] = NULL <=> held[u] = NULL
    BY <1>0, Constants DEF Seen, LocalSorts
<1>2. CASE Unseen(t)
    <2>1. Seen' = Seen /\ (ppid' = ppid \/ ppid' = [ppid EXCEPT ![t] = NULL])
        BY <1>2, UnseenSteps DEF Seen
    <2>2. CASE ppid' = ppid
        BY <1>0, <2>1, <2>2
    <2>3. CASE ppid' = [ppid EXCEPT ![t] = NULL] /\ ppid[t] = NULL
        BY <1>0, <2>1, <2>3 DEF LocalSorts
    <2>4. CASE ppid' = [ppid EXCEPT ![t] = NULL] /\ ppid[t] # NULL
        <3>1. Abstract!ForkFails(t)
            BY <1>0, <2>1, <2>4 DEF Abstract!ForkFails
        <3> QED
            BY <3>1 DEF Abstract!Next
    <2> QED
        BY <2>1, <2>2, <2>3, <2>4
<1>3. CASE UserWrite(t)
    <2>1. /\ Ready(t) /\ held[t] # NULL /\ held' = held /\ ppid' = ppid
          /\ expect' = [expect EXCEPT ![t] = t]
        BY <1>3 DEF UserWrite, localVars
    <2>2. Seen' = [Seen EXCEPT ![t] = t]
        BY <1>0, <2>1 DEF Seen, LocalSorts
    <2>3. Abstract!Write(t)
        BY <1>0, <1>1, <2>1, <2>2, ReadyFree DEF Abstract!Write, Abstract!Waits
    <2> QED
        BY <2>3 DEF Abstract!Next
<1>4. ASSUME NEW i \in Ids, SaFree(t, i) PROVE Abstract!Next
    <2>1. /\ Ready(t) /\ held[t] # NULL /\ held' = [held EXCEPT ![t] = NULL]
          /\ expect' = expect /\ ppid' = ppid
        BY <1>4, Constants DEF SaFree, FindAlloc, Careful
    <2>2. Seen' = [Seen EXCEPT ![t] = NULL]
        BY <1>0, <2>1 DEF Seen, LocalSorts
    <2>3. Abstract!Release(t)
        BY <1>0, <1>1, <2>1, <2>2, ReadyFree DEF Abstract!Release, Abstract!Waits
    <2> QED
        BY <2>3 DEF Abstract!Next
<1>5. ASSUME NEW p \in Threads, SaFork(t, p) PROVE Abstract!Next
    <2>1. /\ Ready(t) /\ held[t] = NULL /\ held' = held /\ expect' = expect
          /\ ppid' = [ppid EXCEPT ![t] = p]
        BY <1>5 DEF SaFork, FindAlloc, userVars
    <2>2. Seen' = Seen
        BY <2>1 DEF Seen
    <2>3. Abstract!Fork(t, p)
        BY <1>0, <1>1, <2>1, <2>2, ReadyFree DEF Abstract!Fork
    <2> QED
        BY <2>3 DEF Abstract!Next
<1>6. CASE Return(t)
    <2>0. pc[t] = "ret" /\ ppid' = [ppid EXCEPT ![t] = NULL]
        BY <1>6 DEF Return
    <2>1. CASE /\ Succeeds(t) /\ op[t] = "alloc"
               /\ held' = [held EXCEPT ![t] = id[t]]
               /\ expect' = [expect EXCEPT ![t] = Zeroed]
        <3>1. held[t] = NULL /\ ppid[t] = NULL /\ id[t] # NULL
            BY <1>0, <2>1, Constants DEF OpState, LocalSorts
        <3>2. Seen' = [Seen EXCEPT ![t] = Zeroed]
            BY <1>0, <2>1, <3>1 DEF Seen, LocalSorts
        <3>3. ppid' = ppid
            BY <1>0, <2>0, <3>1 DEF LocalSorts
        <3>4. Abstract!Request(t)
            BY <1>0, <1>1, <3>1, <3>2, <3>3 DEF Abstract!Request
        <3> QED
            BY <3>4 DEF Abstract!Next
    <2>2. CASE /\ Succeeds(t) /\ op[t] = "fork" /\ Inherits(t)
               /\ held' = [held EXCEPT ![t] = id[t]]
               /\ expect' = [expect EXCEPT ![t] = expect[ppid[t]]]
        <3>1. ppid[t] \in Threads /\ ppid[t] # NULL /\ id[t] # NULL
            BY <1>0, <2>0, <2>2, Constants DEF ParentWaits, Forking, LocalSorts
        <3>2. Seen[ppid[t]] = expect[ppid[t]] /\ Seen[ppid[t]] # NULL
            BY <1>1, <2>2, <3>1 DEF Seen, Inherits
        <3>3. Seen' = [Seen EXCEPT ![t] = Seen[ppid[t]]]
            BY <1>0, <2>2, <3>1, <3>2 DEF Seen, LocalSorts
        <3>4. Abstract!Inherit(t)
            BY <1>0, <2>0, <3>1, <3>2, <3>3 DEF Abstract!Inherit
        <3> QED
            BY <3>4 DEF Abstract!Next
    <2>3. CASE /\ held' = held
               /\ \/ expect' = expect
                  \/ /\ held[t] = NULL /\ op[t] = "fork"
                     /\ expect' = [expect EXCEPT ![t] = expect[ppid[t]]]
        <3>1. Seen' = Seen
            BY <1>0, <2>3 DEF Seen, LocalSorts
        <3>2. CASE ppid[t] = NULL
            BY <1>0, <2>0, <3>1, <3>2 DEF LocalSorts
        <3>3. CASE ppid[t] # NULL
            <4>1. Abstract!ForkFails(t)
                BY <1>0, <2>0, <3>1, <3>3 DEF Abstract!ForkFails
            <4> QED
                BY <4>1 DEF Abstract!Next
        <3> QED
            BY <3>2, <3>3
    <2> QED
        BY <1>0, <1>6, <2>1, <2>2, <2>3, Returns
<1> QED
    BY <1>2, <1>3, <1>4, <1>5, <1>6 DEF Unseen

\* The module implements PrivateStacks: whatever the processes do through REQ,
\* FREE, FORK and close, and whatever allocation fails inside, each step changes
\* what at most one thread sees in its area, and only as the ioctls promise.
THEOREM AreaImplementsPrivateStacks ==
    ASSUME Careful PROVE Spec => ImplementsPrivateStacks
<1>1. Init => Abstract!Init
    <2> SUFFICES ASSUME Init PROVE Abstract!Init
        OBVIOUS
    <2>1. visible = Seen
        BY ViewsInit, SeesSeen
    <2> QED
        BY <2>1 DEF Init, Seen, Abstract!Init
<1>2. Views /\ Views' /\ [Next]_vars => [Abstract!Next]_(Abstract!vars)
    <2> SUFFICES ASSUME Views, Views', [Next]_vars
                 PROVE  Abstract!Next \/ UNCHANGED <<visible, ppid>>
        BY DEF Abstract!vars
    <2>1. CASE Quiet
        <3>1. visible = Seen /\ visible' = Seen'
            BY SeesSeen, SeesSeenNext
        <3> QED
            BY <2>1, <3>1, QuietKeeps DEF Seen
    <2> QED
        BY <2>1, StackStep, Actors
<1> QED
    BY <1>1, <1>2, AreaViews, PTL DEF Spec, ImplementsPrivateStacks, Abstract!Spec

=============================================================================
