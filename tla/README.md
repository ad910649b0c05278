# ShadowStackLLVM: TLA+ specifications and proofs

ShadowStackLLVM keeps a second copy of every return address in a *shadow stack*.
An LLVM machine pass adds code to prologues and epilogues that pushes to and pops
from the area the `gs` register points to. The area of a thread comes from a
user-space pool (`runtime/`) or from a kernel module (`lkm/`, used through
`alt_runtime/`). This directory models the two allocators, what happens around them (process
start, `fork`, loading and unloading of the module) and the two compiler passes, checks all of it
with TLC, and proves with TLAPS every safety property that the passing runs check, the two refinements
included, for every value of the constants. Liveness is checked by TLC alone.

## 1. Inventory

| Component | State | Operations | Interacts with |
|---|---|---|---|
| Kernel allocator, `lkm/core/api.c` | `sa_allocators` (tgid -> descriptor), per descriptor a kref, `al_lock`, `max_id`, the xarray `threads` (slot -> thread descriptor); page tables of the processes | `alloc_create`, `alloc_destroy`, `sa_alloc`, `sa_free`, `sa_fork` | called by the ioctls; takes stacks from the free list |
| Global free list, `api.c` | `gl_sa`, `gl_size`, `gl_lock` | `gl_alloc_stack`, `gl_free`, `vma_free` | shared by all processes |
| ioctl dispatcher, `chrdev_ioctl.c` | none | REQ, FREE, FORK, PIVOT | copies arguments and results |
| Device open/release, `chrdev_fops.c` | none: both bodies are commented out | `shadow_open`, `shadow_release` | meant to create and destroy the descriptor |
| `sa_pivot`, `runtime/stckcpy.S` | the stack vma, `saved_auxv` | PIVOT, `relocate_stack` | runs at the entry point, after the constructor of the runtime |
| Chunk pool, `runtime/allocator.c`, `runtime/main.c` | `freelist`, `freearea_start`, `llock`, chunk headers | `MemPoolInit`, `MemPoolAlloc`, `MemPoolRelease`, `pthread_create` | chunk address goes to `gs` |
| Pool placement, `runtime/mapping.c` | gap list | `setup_memory` | before `MemPoolInit` |
| Preload runtime, `alt_runtime/main.c` | `shadow_fd`, TLS key | `fork`, `pthread_create`, destructor | ioctls; the parent waits on a pipe while the child runs FORK |
| Machine pass, `shadow_stack_x86/` | emitted code | prologue push, epilogue pop and check | `gs:8` |
| IR pass, `shadow_stack/` | `MaskedPtrs` | masks the pointer of every store | keeps program stores out of the area |
| Registration, `chrdev.c`, `lkm/main.c` | region, cdev, class, device | `runtime_init`, `runtime_exit` | files opened meanwhile |
| Symbol bindings, debug file, `pt_bindings.c`, `debug.c` | function pointers; `target_pid` | `resolve_symbols`, `pgd_show` | page-table code; page table of another process |

What is hard here: ioctls of threads and processes interleave over xarrays, a kref, a
read/write semaphore and one spinlock, some reads take no lock or reference at all,
every operation can fail at several points and unwinds with its own chain of labels,
and a client can lose an answer or free an address that is not its own. The inserted code
updates `gs:8` in several instructions that a signal can separate. `fork()` of `alt_runtime`
relies on a pipe whose ends other children inherit, the start-up stub rewrites the stack it runs
on, and a module can be unloaded while files are open. The list of
these places, with line numbers and the properties aimed at them, is under "hazards"
in `PROJECT.json`.

What makes the components correct: a stack has one owner; a descriptor lives as long as
it is used and no longer; nothing leaks whatever fails; a thread sees its own data and
only that; a child starts with its parent's data; the free list is bounded; every call
returns; the pool never hands a chunk to two threads, and a thread's entries are its own; start-up
overwrites no mapping and hands `_start` the stack it was given; the masking pass leaves no store
unconfined and changes no store of a well-behaved program; the module leaves nothing behind.

## 2. Modules

| Module | Content |
|---|---|
| `ShadowArea` | the kernel allocator, its free list and the REQ, FREE, FORK ioctls |
| `PrivateStacks` | what the kernel module promises: each thread has a stack of its own |
| `MCShadowArea` | instances for TLC |
| `ShadowAreaProofs` | proofs for any clients: shape of the states, owners of the pages, references |
| `ShadowAreaTenancy` | proofs for careful clients, on top of these: slots, what user space sees, refinement |
| `ShadowCalls`, `MCShadowCalls` | the code inserted by the machine pass, instruction by instruction, and its instance |
| `CallReturn` | what that code is for: a call returns to its caller |
| `ShadowCallsProofs` | proofs about the inserted code |
| `MemPool`, `MemPoolProofs` | the user-space pool and its proofs |
| `ForkPipe`, `ForkPipeProofs` | `fork()` of the preloaded runtime and its proofs |
| `Placement`, `Startup`, `MCStartup` | where the pool goes; the same composed with the relocation of the stack and `sa_pivot`; instance |
| `StartupProofs` | proofs about both |
| `MaskPass`, `MCMaskPass`, `MaskPassProofs` | the IR pass and the code it produces; instance; proofs |
| `ModuleLife`, `MCModuleLife`, `ModuleLifeProofs` | the kernel module from insmod to rmmod, its files and the ioctl dispatcher; instance; proofs |
| `PageWalk` | `map_range` and `__free_pgd_range` over the levels of a page table |

How they fit together: `ForkPipe` looks at what `ShadowArea` assumes of a forking parent
(`Blocked`). Its `ParentWaits` gives it for a thread whose `pipe()` worked and whose `read()` no signal
ended, and only for the thread that forks: the other threads of the process, and the end of the process,
are free in `ShadowArea`. `ModuleLife` discharges what it assumes of `vma_free`
(`CallsSafe`); `PageWalk` looks inside the two walks that `ShadowArea` has as single steps;
`MaskPass` looks at the assumption of `ShadowCalls` that stores do not reach the area;
`Placement` gives `MemPool` its memory.

Each module's mutants (definitions commented `Mutant:`) are changed versions of the
definition after them; they are not part of the specification.

### ShadowArea

`pc[t]` is the point thread `t` has reached in the operation `op[t]`. An action is the
code from one access to shared state to the next, and the labels follow the source:

| Label | Code about to run |
|---|---|
| `get` | `kref_get_unless_zero` on the descriptor just found |
| `reserve` | `xa_alloc` |
| `stack` | `kmalloc` of the thread descriptor, `gl_alloc_stack` |
| `map`, `fork_map` | `map_range` under `mmap_write_lock` |
| `store` | `atomic64_max`, `xa_store` |
| `gl_free`, `gl_insert` | the test and the insertion of `gl_free` |
| `erase`, `fork_erase` | the labels `err_erase` |
| `put` | `alloc_put` |
| `free_erase`, `unmap` | `xa_erase` under `al_lock`, `unmap_range` |
| `fork_parent`, `fork_lookup`, `fork_copy`, `fork_insert` | the middle of `sa_fork` |
| `ret` | the copy of the result to user space |
| `oops` | none: the thread met a freed descriptor |

Data is reduced to identities. A pagelist is a stack with all its pages; `contents` is the
last thread that wrote it or `Zeroed`; `ptes[g][i]` is the set of pagelists that some PTE
of area `i` points to in group `g`, so that a half-finished map and a map over old
entries can be told apart. The address of an area is its slot number. The free list is a
set, since no property depends on its order. `max_id` is kept although nothing reads it.

Choices that need a justification:

* **`alloc_create` and `alloc_destroy`.** At this commit their callers, `shadow_open` and
  `shadow_release`, are commented out, so the built module never has a descriptor.
  `ModuleLife` models what is built. `ShadowArea` models `api.c` at the boundary of `api.h`: a process
  creates its descriptor once and destroys it when none of its ioctls is running, which is the rule
  the kernel enforces for `release` of an open file. A thread that waits in `fork()` sits in `read()`,
  which is no ioctl, and its child has closed the inherited descriptor (`alt_runtime/main.c:129`). So
  `AllocDestroy` may happen while the child is in `sa_fork`, by another thread or because the parent is killed.
* **A freed parent.** `sa_fork` found the parent's descriptor without a reference. If it is freed before
  `down_read`, the memory may still look like the empty table it held (then the lookup fails with ENOENT), or the
  child does not come back from it (`oops`). What becomes of that process is not followed.
* **Who may call.** The parent thread of a running `sa_fork` does not enter the kernel
  (`api.c:741`: "the parent thread is blocked in fork() until this function returns";
  `alt_runtime` waits on a pipe), and a process in `sa_fork` has one thread, as after any
  fork. A thread asks for a stack when it has none. Threads in `Careless` may in addition
  FREE any address and reopen the device with stacks outstanding.
* **Failures.** With `MayFail` every allocation can fail; `map_range` can fail with none or
  some of the PTEs set. With `CopyFails` the `copy_to_user` after `sa_alloc` can fail, and
  the thread asks again. Without `MayFail`, `gl_alloc_stack` fails when `Pagelists` is
  used up, which stands for memory running out.
* **`unmap_range`** leaves the PTEs as they are, since the clearing call is commented out.
* **`__free_pgd_range(0, 0, 0, 0)`** is modelled by its effect on the areas: none is
  mapped afterwards. How it walks (past the end of the pgd; one entry per upper level), and what
  else it unmaps, is the subject of `PageWalk`.
* **`vma_free`** runs at module unload, possible only when no process has the device open.
* `sa_alloc` reads `thread->addr` once more after `xa_store`; the model joins the two, see the
  hazard at `api.c:701`.

### MemPool

Chunks are numbered; `freearea_start` is the number of the next new one. `recycle_chunk` is
split at its unlocked test, the lock, the second test and the removal, `MemPoolRelease` at
its two assignments, `MemPoolAlloc` at the atomic addition. `exited` stands for
`exit(EXIT_FAILURE)`. `main.c` defines `put_chunk` and never calls it; `Recycle` selects
between the code as it is and threads that give their chunk back. `free` and `peak` are
history variables; `top` of a chunk is reduced to whose entries it counts.

### ShadowCalls

One thread runs functions compiled with the pass. `frames` are the calls in progress, each
with the words the inserted code has on the stack above the return address; `top` is the
word at `gs:8`, `shadow` the area, `pc` the next inserted instruction or `body`. `strategy`
is chosen in `Init` and never changes: a program is compiled with one of them. Leaves have
no inserted code, tail calls take the entry back before they jump (`isReturn`). A signal
saves the registers and starts a handler, instrumented or not; its return restores them.
`Overwrite` is a store of the program over the return address of any call in progress, at the label it has
reached: a running function, one that waits for a callee, or one a handler interrupted. The inserted code protects a
return address from its copy in the prologue to the check; outside that span (`Unprotected`: the
first instructions of the prologue, the end of the return code, and all of a leaf), a store over it makes the call
`exposed`. The IR pass is trusted to keep stores out of the area. The ghost fields `site`, `base` and `exposed` record
what the call left, where its entry belongs, and whether it lost its protection. `Stray` is a `ret` to another
address than the call left; what runs there is not followed. The scratch register that `instrumentRet` finds is `free`,
or r11 pushed when there is none; a dead r10 or r11 chosen by the scavenger is not told apart from `free`.

Signals arrive at every instruction. They are harmless except at three: after the prologue has stored the
entry and before it has stored the new top (labels `add` and `settop`), and after the return
code has stored the new top and before it has read the entry (`rfetch`; together `Exposed`). A handler with calls
then writes the very entry, and the interrupted function traps or returns to the handler's
return address. `Signal` marks a call interrupted there as `exposed`, and the properties except these calls, by name and
one by one: all others, the handlers and the callers of the exposed function included, are still held to them.

### ForkPipe

`pc[t]` and `cpc[t]` are the points the thread `t` and its child have reached in `fork()`; `fds`
has the descriptor table of every process, copied whole by `real_fork`, so a child also inherits
the pipes of forks in progress in other threads. `Read` and `ChildWrite` follow the rules for
pipes (a byte, end of file without writers, SIGPIPE without readers). `pipe`, `open`, `ioctl`,
`read` and `fork` may fail, and the code goes on as it does: a failed `pipe` leaves `sy_pipe` with
stack rubbish, which is a descriptor that is not open, an end of another pipe, or another open file (`FILE`), whose
`read` and `write` return when that file pleases (`ReadOther`, `WriteOther`, without fairness). `sa_fork` is seen page by page
(`ChildCopy`), so that a parent that runs too early gives a mixed copy. A child without a
copy of its own faults (`ChildFault`). At this commit `alt_runtime` does not compile
(`pthread_local`, members missing in `lkm.h`); `shadow_fd` is modelled as the one descriptor per process that
`lkm.c` declares. Each thread forks once, and the children do not fork.

### Placement and Startup

The constructor of the runtime comes first (`maps` to `pool`), then the entry point
`relocate_stack` (`entry` to `start`). `vmas` is the address space. `mmap` without `MAP_FIXED`
rounds its hint down to a page, honours it if that range is free and returns any free range otherwise (`Places`).
`ReadLine` is one round of the loop of `setup_memory` over `/proc/self/maps`, whose lines come in the order of
the addresses; `LastGap`, `ChooseTarget` and `Target` are the rest of it, `Reserve` and `Spared` are
`reserve_all`. `JumpOver` is the jump over the initialisation of `found`, after which both results are possible. `CEIL` is the last address
of the page above `TASK_SIZE`, as 0x7fffffffffff is on x86-64.

In `Startup` a memory cell is one word of the tables at `rsp` or one character of the strings, so the
16 bytes of `AT_RANDOM` become `RANDOM_LEN` cells and 16-byte alignment `ALIGN` cells. `wild` is the point where the stub
works on an address `mmap` never gave it, or has left the new area; `exit` is `_exit(1)`. The
stack `execve` leaves has a zero word at its end, as Linux writes it, which is what makes the
extra byte of the copy harmless. `Execve` builds such a stack from `Args`, for TLC; what the code
relies on is written down apart from it, as `AbiStack`: three terminated tables at `rsp`, above them
the strings and the random bytes, apart from each other and with room for one more byte, the interpreter mapped
below the stack, and an `mm` that agrees. That `Execve` yields it is part of the assumption
`StartupConstants`, which TLC evaluates on the instance. The result of the ioctl is 0 in every case, since the stub passes
a valid command and its own stack; the error field is never read.

### MaskPass

The function under compilation (`succ`, `def`, `code`) is chosen in `Init`: any graph, any placing of
stores through one pointer that its definition dominates. `Collect` is the loop of `instrumentStores`, a block
per step, in layout order; `InstrumentStore` is one call of
`instrumentStore`; `operand` says which mask a store ends up with. Then `Call` and `Jump` run
the function, a block per step; a mask is computed where the pass put it. Unreachable blocks are included,
with the answers LLVM's `DominatorTree` gives for them; dominance is defined by paths (`Reached`, a least closed set). `Facts` holds what `computeKnownBits` and `ScalarEvolution` find, together with
the values the pointer then takes; that they are sound is the assumption `MaskConstants`.

### ModuleLife

`pc` is the next call of `runtime_init` or `runtime_exit`; `registry` is what is registered;
each call that registers may fail. Processes open, read, call and close at any point. The kernel refuses
`rmmod` while a file pins the module (`Owner`), but discards a module whose init failed without
asking; a debug file opened before that is `stale`. `bound` holds the function pointers
`resolve_symbols` has set, in their order. `calls` are the processes inside `chrdev_ioctl`; which number was passed and what is
answered makes no difference to the module's life. Files are opened through the node of `device_create` only, not
through one made by hand between `cdev_add` and that call.

### PageWalk

The four levels are sets of present entries. `MapRange` enters the pages of an area and may stop
where an allocation fails; `Round` is one iteration of the loop of `__free_pgd_range`. Addresses
are modulo `WORD` and `pgd` is an index that can leave the table; there the walk finds
something that looks empty or crashes.

## 3. What TLC checks

The longest runs, `area_threads` and `fork_pipe`, take two to three minutes, the others two or less.

| Run | Instance | Shows |
|---|---|---|
| `area_threads` | 2 threads, 1 process, 3 stacks, 3 slots, all failures | references are accounted for on every path; FREE; refinement of `PrivateStacks` |
| `area_fork` | 2 processes, 2 stacks, 2 slots, allocation failures | references and stacks across `sa_fork`; data isolation |
| `area_fork_race` | 3 threads, one careless in the parent's process, fair | the copy in `sa_fork` against concurrent frees and a close of the device; every ioctl returns |
| `area_careless` | 2 threads, one of them careless, 2 descriptors, 3 stacks, 3 slots, capacity 1 | the kernel's own state survives any order of calls; bound and counter of the free list |
| `pool` | 4 threads, 3 chunks, recycling, fair | the double-checked list, recycling, the end of the pool; threads start |
| `calls` | 2 calls deep, 2 call sites, signals everywhere, both strategies | returns go to the caller; refinement of `CallReturn` |
| `fork_pipe` | 2 threads fork at once; pipe failure and EINTR in one, a child that may die in the other; fair | the parent waits; no leak; fork returns |
| `startup` | 7 pages, all layouts above `BASE`, 16 initial stacks, all failures | placement, reservation, relocation, pivot |
| `mask_pass` | all graphs of 3 blocks, 0 to 3 stores each, 4 facts, 3 builds | masks are sound and current |
| `module_life` | 2 processes, 2 files, 2 symbols, all failures | loading and unloading against open files |

The properties, in `ShadowArea`:

* `TypeOK`: types, and no NULL pointer at a point that dereferences it.
* `NoUseAfterFree`: no operation goes on with a freed descriptor, although `sa_free` and
  the parent lookup of `sa_fork` hold no reference. One case is excepted by name: at `down_read` the
  parent's descriptor may be gone if its process has closed the device since the lookup (`ParentClosed`); the run
  `doc_fork_parent` shows that it happens. From `down_read` on it is not excepted: a stack was found
  in the table, it counts as a reference, and no FREE can take it out before `up_read`.
* `RefCount`, `RefsCovered`: the kref equals (with careless clients: is at least) the number
  of references someone will drop.
* `ExclusivePages`, `NoLeak`: each stack has at most, and at least, one owner. A stack registered in a descriptor
  whose process has closed the device counts as owned, although no FREE reaches it.
* `GlBound`, `GlSize`: the free list under its unlocked test.
* `FreeRefusals`: what was given out can be freed, but for the slot past the range.
* `ForkSourceStable`: what `sa_fork` copies stays in place.
* `Isolation`, `ImplementsPrivateStacks`: what user space sees. The refinement mapping sends
  `stack[t]` to the contents of the pagelist the page table maps at the address `t` holds,
  and `from[t]` to the parent a running `sa_fork` was called with.
* `OpsReturn`: every ioctl returns, but for a child that met a freed descriptor.

In `MemPool`: `Exclusive`, `WellLinked`, `PoolBound`, `OwnEntries` (the entries on the shadow stack a thread
runs on are its own), `ExitLimit`, `ThreadsStart`.

In `ShadowCalls`: `AreaMatches` (the area holds exactly the return addresses of the functions
between prologue and return), `NoFalseTrap`, `RegsKept`, and `ReturnsToCaller`, the refinement of
`CallReturn`: `calls` is the sites of `frames` with the mark of those that are not exposed, and `at` is where the last
return went. The number and order of the entries (second part of `AreaMatches`) and `RegsKept` hold for exposed calls too.

In `ForkPipe`, for forks whose `pipe()` worked: `ParentWaits` (unless the read was interrupted,
the parent does not run before the copy is done, so the copy is of one moment) and `NoFdLeak` (each side closes the two
ends of its own pipe; ends inherited from a concurrent fork do stay open).
`ForkReturns` names the two cases in which `fork()` may hang: the child of a concurrent fork inherited the write end and
keeps it (`HeldOpen`), or `pipe()` had failed and `sy_pipe` names another open file (`ReadsOther`).

In `Startup`:

* `NothingClobbered`: no mapping of the process is lost but the old stack.
* `SetupMemory`: `setup_memory` against a definition of its result: the highest place
  (`TargetBest`), and everything else reserved (`AllReserved`).
* `TopGapOnly`: what the choice of `CEIL` amounts to. The top gap ends above `TASK_SIZE`, so
  when a lower gap is chosen, reserving the top one fails and the process exits; when the top one is chosen, the
  range asked for ends beyond `TASK_SIZE` by less than a page, `mmap` rounds the hint down, and the pool lies right below
  `TASK_SIZE`.
* `CopyInside`, `Relocated`, `KernelView`: the copy reads and writes inside its areas; `_start` sees
  an equal stack; the kernel's fields agree with it. All but `AT_BASE`, which the stub moves
  although it is the address of the dynamic linker, and which the kernel's copy keeps.

In `MaskPass`: `SameTarget` (a store through a mask goes where the pointer now leads, cut off at
`MASK`) and what it is for, `Confined`. In `ModuleLife`: `Registrations` (nothing rests on what is
gone, nothing is left), `CallsSafe` (no code of the module runs before it is ready or after it is
gone), `ShownAlive`.

`RefCount` is checked with careful clients only: a careless FREE of a slot that is merely
reserved lets `xa_store` overwrite another thread's entry, whose reference is then lost
(a leak, never a premature free: `RefsCovered`).

**Bounds.** Two threads suffice for each race of two critical sections; the third one in
`area_fork_race` is needed because the racing thread must be neither the child nor the
parent, which waits. Three stacks and a list of capacity one make the list empty, full and
overfull. Slots are `0 .. THREADS_LIMIT` with limits 1 and 2, so the last slot, the one past
the address range, is always in play. Descriptors are never reused; two let each process
have one, or one process reopen once. Pagelists and descriptors are symmetric, except where liveness is
checked: there (`area_fork_race`) the action constraint `Roles` stands in for the symmetry. It gives each process its own
descriptor, takes the two stacks in order, and lets the careless thread ask for no stack of its own (it frees that of the parent).
Each restricts which operation or which identity is chosen, never whether an operation in progress goes on, so no fair step is cut off.
Two calls deep lets a handler interrupt a function, or a handler, at every instruction and overwrite its return
address; the proofs are for any depth. `KernelSpec`
leaves out the stores of user threads where no property looks at contents. Two forks are enough
for one child to inherit the other's pipe, two pages for a mixed copy. In `startup` the upper four
pages take every layout, with mappings below, across and above `BASE`, and strings of length 0
and 1 make first, last and empty argument lists. Three blocks give branches, joins, loops
(of one block and of two) and unreachable code. Two symbols can miss the first, the last, both or none.

**Fairness.** In `ShadowArea`, `FairKernelSpec` has weak fairness on the steps of a running operation (kernel threads
are scheduled) and strong fairness on `SaFreeErase`, which waits for `al_lock`: a
`rw_semaphore` queues its waiters, so a writer is not overtaken for ever. In `MemPool` weak
fairness suffices, because each thread takes the mutex at most twice. In `ForkPipe` both sides
of a fork are scheduled (weak fairness); no signal, death or end of a child is assumed to
happen, nor that a file which is not the pipe can be read or written. `CHECK_DEADLOCK FALSE`
is set for the pool, where all threads may have ended or the process exited, for `calls`,
where the trap ends the program, and for `fork_pipe`, `startup`, `mask_pass` and `doc_free_range`, whose
processes come to an end or stop.

### Where code and documentation disagree

Each is a run that TLC must find violated; the finding in `PROJECT.json` quotes the line.

| Run | Claim | What happens |
|---|---|---|
| `doc_fork_parent` | the parent's descriptor stays, because the parent waits in `fork()` (`api.c:741`) | another thread closes the device, or the parent is killed, and with no stack registered the descriptor is freed under the child |
| `doc_free_range` | `__free_pgd_range` frees the tables of `[addr, end)` | called with an empty range it clears the whole table and runs past it |

Two other disagreements are stated by properties that hold: the free list can exceed its
capacity (`GlBound` says by how much), and the area of the last slot cannot be freed (`FreeRefusals`).

Two more are plain from the text of the code and need no run. `api.c:509` ("Zeroes all the PTE entry between `addr`
and `end`") and `api.c:817` say that FREE zeroes the PTEs; the call is commented out (`api.c:520`, `UnmapRange`), so
the process that freed a stack still maps it when it is on the free list and when another process has it. And the test programs
(`lkm/user/test_raw_multithread.c:28`, `test_raw_fork.c:31`) expect REQ to succeed, which it cannot as built: with the bodies of
`shadow_open` and `shadow_release` commented out no process has a descriptor, and REQ, FREE and FORK end at `alloc_find`.

## 4. What is proved

All theorems hold for every value of the constants that the named assumptions of the modules
allow: any finite set of threads, any sets of processes, descriptors, stacks and call sites, any
limits, with or without failures, and for the pool with `Recycle` either way (the run has it
TRUE, where more can happen, and `main.c` as it is has it FALSE). The assumptions say that model
values differ from each other where the code tells them apart (`NULL` and `Zeroed` from threads
and from each other, `None` from return addresses and saved contexts), that limits are numbers, and that
threads, or the files of `ModuleLife`, are finitely many. Three have content: `MaskConstants` says that the
analyses of LLVM are sound and that `HighBits` are the bits above `MASK`; `PlacementConstants` says that a
process starts with disjoint, page-aligned mappings below `TASK_SIZE`, one of them its stack, and that `BASE` and the
size of the pool are multiples of the page; `StartupConstants` says that `execve` follows the ABI (`AbiStack`).

### ShadowArea, for any clients

* `AreaTypes` (`TypeOK`). `TypeOK` is not inductive: a label alone does not say which pointers
  are set. `Shape` adds which operation a label belongs to (`OpAt`), that a process
  reaches only its own descriptor (`OwnDesc`), that a process in `sa_fork` runs nothing else
  (`ForkAlone`), and that the slot it filled is still its own until it is done (`ForkEntry`).
  The last one needs the other two: a careless thread could otherwise erase the slot.
* `AreaExclusive` (`ExclusivePages`). Inductive together with `Shape`. Steps that give nobody a
  new stack are handled together (`NoNewOwner`); for the six others a lemma states what they do to
  the owners. `ForkEntry` is what makes the error path of `sa_fork` safe: it takes its
  stack back from a slot it no longer protects.
* `AreaGlBound`, `AreaGlSize`. From a summary of what each step does to the list (`ListSteps`).
  The bound holds because a thread starts an insertion only when `gl_size` is below the
  capacity; the counter is right because no stack is inserted twice (`AreaExclusive`).
* `AreaForkSource` (`ForkSourceStable`). The invariant `ForkInv` says that during the copy the
  caller is a reader of the parent's table, the parent is idle or closing the device, and if a slot holds the
  source it is a slot of that table under the parent's tid. A careless FREE in the parent's
  process is stopped by the read lock; the error path of a fork of the parent's own cannot
  run because the parent waits.
* `AreaRefsCovered`, `AreaNoUseAfterFree`. The references to a descriptor are counted as the sizes of
  three sets: entries in `sa_allocators` (`Table`), registered slots (`Slots`) and running
  operations (`Holders`). The invariant `Refs` adds that an operation works on the descriptor the
  table has for its process, which no close takes out meanwhile (`Pinned`), and that the parent's descriptor is that of the parent's process
  (`ParentOwns`). Each step that moves
  a reference has a lemma that says by how much each set grows. That `sa_free` and the lookups take no reference is
  harmless because of `Pinned`. The parent's descriptor needs another argument, since a close may take it out of the table: during the
  copy its kref exceeds what the table and the running operations can drop (`CopyRef`, `Spare`). At `down_read` this holds because
  the slot that was found counts as a reference. No FREE turns a slot's reference into that of an operation, because it needs `al_lock` for
  writing; a careless `xa_store` over a slot loses a reference without dropping it. `AreaCopies` is the theorem, and
  `AreaNoUseAfterFree` combines the two.

### ShadowArea, for careful clients

The next theorems have the hypothesis `Careful`: no thread is in `Careless`, and if the answer of REQ
can get lost (`CopyFails`), nobody forks. Both are needed. A careless FREE of a reserved slot loses
a reference (see section 3). A REQ whose answer is lost leaves a registered slot its thread never heard
of; if the thread asks again and forks, `sa_fork` takes the first slot registered for the parent, which may
be the wrong one, and the child starts with other data than its parent has. The runs `area_threads` and
`area_fork` are the two sides of this hypothesis.

* `AreaFreeRefusals`, `AreaRefCount`, `AreaNoLeak`, from the invariant `Tenancy`: a process has one
  descriptor, ever (`OneDesc`); a reserved slot belongs to one operation (`Reserved`); the area a
  thread holds, and the slot an operation has settled on, are registered for that thread
  (`Tenants`); and every registered slot has such a reason (`NoOther`), from which `sa_fork` finds the
  slot its parent uses (`ForkSlot`). Between the two lookups of `sa_fork` a close may come; `ParentArea` keeps what `NoOther`
  said of the parent before it. `AreaRefCount` repeats the accounting of `AreaRefsCovered`
  with equality, which `Reserved` allows: `xa_store` and the error paths never hit a registered slot.
* `AreaIsolation` (`Isolation`), from `Views`: a thread's page table maps exactly the stack
  registered for it, with the contents it expects (`SeesOwn`); an operation prepares such a stack
  before it registers it (`Prepares`); recycled stacks are zeroed before anyone can take them (`Cleared`).
  The entries that FREE leaves behind do no harm because `map_range` overwrites them before the slot is used again.
* `AreaImplementsPrivateStacks` (`ImplementsPrivateStacks`): under `Views` what the page tables show
  equals `Seen`, a function of `held` and `expect` alone, so only the steps that return to user space or store
  there change it, and each of them is a step of `PrivateStacks`.

### MemPool

`PoolTypes` (`TypeOK`, which also says that no NULL chunk is used), `PoolExclusive`, `PoolWellLinked`,
`PoolBounded`, from `PoolInvariant`; `PoolExitLimit` from that and a count of the threads
created so far (`LimitInv`); `PoolOwnEntries`, which rests on `PoolExclusive`: a chunk is empty when it is handed over,
and nobody else pushes to it because nobody else has it.

### ShadowCalls

`CallInv` says, for every call in progress and not only the innermost, what the stack, the registers and the area
hold at its label (`StackAt`, `RegsAt`, `AreaAt`); a call that is interrupted or waits for a callee has its label
and registers in the frame above it (`LabelOf`, `RegOf`). `Chain` says that the entries of callers lie
below those of callees and that there are no more entries than calls, so that a store to the area hits no
caller's entry and stays inside. `Bottom` is the same for the program outside any call. Most instructions touch the innermost call
only (`InnerStep`); calls and returns shift all calls by one (`CallStep`, `RetNext`). What
the area and the return address hold is claimed of calls that are not exposed; how many entries there are, and where the next one
goes, is claimed of all. A function interrupted between its store to the area and its store of the top is exposed, so the
entry a handler writes is never the entry of a call the invariant speaks of.

`CallsAreaMatches`, `CallsNoFalseTrap` and `CallsRegsKept` follow directly. `CallsReturnToCaller` is the
refinement of `CallReturn`: at `ret` the word on the stack is the site the call left unless the call is exposed, whatever stores
came before, and no other step changes the list of sites except calls and signals.

### ForkPipe and ModuleLife

* `ForkParentWaits`, `ForkNoFdLeak`, from `PipeInv`: as long as every `pipe()` worked (`PipesOK`, part
  of the properties), each thread's pipe has its ends exactly where `fork()` has got to (`ParentEnds`, `ChildEnds`), and the
  parent waits while the child is silent (`Waits`). Pipes inherited by children of other forks are covered:
  they keep the pipe open, but only the thread's own child writes to it.
* `LifeRegistrations`, `LifeCallsSafe`, `LifeShownAlive`, from `LifeInv`: a label fixes what is
  registered (`RegisteredAt`), a file that is not stale pins the module, a process in an ioctl has the device open,
  and `mm_users` counts the readers of a page table besides its owner.

### MaskPass

`MaskSameTarget` and `MaskConfined`, for every control-flow graph (loops, irreducible and unreachable parts included),
any number of stores, every mask and every combination of the three optimisations. `MaskInv` has three parts
besides types. `UsesDominated` carries the verifier's rule over to the collected stores. `PassInv` is about the
pass: a store left alone is covered by an analysis, and a reused mask stands at a store that has a mask of its own and
dominates the other. `RunInv` is about the run: control either is still at blocks that can be reached
without the block of a mask, or that mask is the mask of the present value of the pointer. The step that could break it is a jump back to
the definition of the pointer, which makes every mask out of date. It does not, because then control is again in `Reached`
of the mask's block: the definition dominates that block, and of two distinct reachable blocks one can always be reached without
passing the other.

### Placement and Startup

For every set of mappings, all sizes, every initial stack the ABI allows, and failures at each point.

* `StartupNothingClobbered`, `StartupSetupMemory`, `StartupTopGapOnly`, from `ClobberInv`. The loop over
  `/proc/self/maps` has the invariant that the list holds free gaps in descending order, each ending at a mapping
  (`ListInv`), and that every address from `BASE` to `prev_hi` is mapped or in a gap (`LinesInv`); after the loop this covers all up to
  `CEIL` (`ChooseInv`). From it the first gap that fits has the highest place (`TargetInv`), and since
  each reservation fills exactly a listed gap, what stays free is the gap of the target (`TargetGap`). A
  `MAP_FIXED` that replaced a mapping would have to overlap a gap, and gaps are free. The pivot removes one mapping, the one
  `find_vma` finds for the old `rsp`: the old stack, because `rsp` was inside it and no later mapping overlaps it.
* `StartupCopyInside`, `StartupRelocated`, `StartupKernelView`, from `ClobberInv` and `CopyInv`. `EntryInv` keeps
  what `execve` left, `MemInv` says what the new stack holds at each point. The scans are characterised by their
  results (`ZeroFromIs`, `AuxSlotsIs`, `TablesAre`), which the copy shifts and the patch preserves (`ShiftTables`,
  `CopyPatched`), so scanning the copied tables finds the same words. Each object ends at or below the end
  of the one the highest pointer leads to (`ObjectsBelow`), so all are copied, and the patch does not touch them because they lie
  above the tables.

### Only model-checked

* Liveness (`OpsReturn`, `ThreadsStart`, `ForkReturns`): out of the prover's reach.
* That the concrete `Execve` of the instance satisfies `AbiStack`: an assumption for the proofs, evaluated by TLC
  for the 16 initial stacks of `startup`.
* `PageWalk`, which is there for the run `doc_free_range`.

## 5. Not modelled, and the plan

Not modelled, and why:

* TLB maintenance: all properties are about page tables and ownership, not about cached entries.
* The `sa_tlb` batch (`api.c:214` to `250`): it collects the pages of page tables during the walk of
  `PageWalk`, which already destroys more than it should.
* The `sa_tdown` helpers of `chrdev_fops.c` and the `my_*_free` helpers of `pt_bindings.h`: unreachable.
* Constructor, thread creation and destructor of `alt_runtime`: only the REQ and FREE they issue, in `ShadowArea`.
* `longjmp`, exceptions and the end of the area in the inserted code: nothing in the code handles
  them.
* LLVM's analyses, `mmap`, `execve`, pipes: modelled as far as the code uses them, and marked external.
* Build files and test programs.

What could come next: the lifetime of `struct sa_thread_desc` in `ShadowArea` (`api.c:701`, where `sa_alloc` reads
a descriptor it has already published), and the end of the shadow area in `ShadowCalls`.
