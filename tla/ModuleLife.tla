------------------------------ MODULE ModuleLife ------------------------------
(***************************************************************************)
(* The life of the kernel module: loading with its error paths, unloading, *)
(* and the files that processes open meanwhile (lkm/main.c, chrdev.c,      *)
(* debug.c, pt_bindings.c, chrdev_fops.c, chrdev_ioctl.c).                 *)
(*                                                                         *)
(* insmod and rmmod run one at a time, one registration per step, and      *)
(* processes open, use and close files between any two steps.  shadow_open *)
(* and shadow_release are as built: their bodies are commented out.  What  *)
(* the ioctls do and answer is the subject of ShadowArea and Startup; here *)
(* they only run.                                                          *)
(***************************************************************************)
EXTENDS Integers, Sequences, FiniteSets, SequencesExt

CONSTANTS
    Procs,      \* processes
    Files,      \* open file descriptions
    Symbols,    \* sequence of the kernel symbols to resolve, in their order
    NULL

ASSUME LifeConstants ==
    /\ NULL \notin Procs \cup Files
    /\ IsFiniteSet(Files)
    /\ Symbols \in Seq(Range(Symbols))

VARIABLES
    pti, missing,   \* X86_FEATURE_PTI; the symbols kallsyms does not know
    state,          \* of the module: "out", "coming", "live" or "going"
    pc,             \* the call runtime_init or runtime_exit makes next
    bound,          \* the __*_bnd pointers that are set
    registry,       \* what is registered, of Parts
    pins,           \* files that hold a reference to the module
    file,           \* file[f]: "closed", "dev", "debug", or "stale" (see InsmodDone)
    holder,         \* process that has f open
    calls,          \* processes that are in an ioctl
    alive,          \* processes that have not ended
    mm_users,       \* users of the address space of a process
    mm              \* mm[f]: process whose page table a read of f shows, or NULL

moduleVars == <<state, pc, bound, registry>>
fileVars == <<pins, file, holder>>
useVars == <<calls, alive, mm_users, mm>>
vars == <<pti, missing, moduleVars, fileVars, useVars>>

Parts == {"debug", "region", "cdev", "class", "device"}

Init ==
    /\ pti \in BOOLEAN
    /\ missing \in SUBSET Range(Symbols)
    /\ state = "out" /\ pc = "none"
    /\ bound = {} /\ registry = {}
    /\ pins = {}
    /\ file = [f \in Files |-> "closed"]
    /\ holder = [f \in Files |-> NULL]
    /\ calls = {}
    /\ alive = Procs
    /\ mm_users = [p \in Procs |-> 1]
    /\ mm = [f \in Files |-> NULL]

-----------------------------------------------------------------------------
(***************************************************************************)
(* insmod: runtime_init.                                                   *)
(***************************************************************************)

\* insmod loads a fresh image of the module.
Insmod ==
    /\ state = "out"
    /\ state' = "coming"
    /\ pc' = IF pti THEN "fail" ELSE "resolve"
    /\ bound' = {}
    /\ UNCHANGED <<pti, missing, registry, fileVars, useVars>>

\* Index of the symbol whose lookup fails first.
FirstUnresolved(found) ==
    LET bad == {k \in DOMAIN Symbols : Symbols[k] \notin found}
    IN IF bad = {} THEN Len(Symbols) + 1 ELSE CHOOSE k \in bad : \A j \in bad : k <= j

\* resolve_symbols: the kprobe may fail to find kallsyms_lookup_name; then, or
\* at the first symbol that is missing, it gives up.
ResolveSymbols ==
    LET found == Range(Symbols) \ missing
        first == FirstUnresolved(found)
    IN
    /\ pc = "resolve"
    /\ \/ pc' = "fail" /\ UNCHANGED bound
       \/ /\ pc' = IF first > Len(Symbols) THEN "debug" ELSE "fail"
          /\ bound' = {Symbols[k] : k \in 1 .. first - 1} \cap found
    /\ UNCHANGED <<pti, missing, state, registry, fileVars, useVars>>

\* debug_init: its errors are not passed on.
DebugInit ==
    /\ pc = "debug"
    /\ pc' = "region"
    /\ registry' \in {registry, registry \cup {"debug"}}
    /\ UNCHANGED <<pti, missing, state, bound, fileVars, useVars>>

\* A registration of chrdev_init, with the label it goes to on error.
Register(part, next, label) ==
    /\ pc = part
    /\ \/ pc' = next /\ registry' = registry \cup {part}
       \/ pc' = label /\ UNCHANGED registry
    /\ UNCHANGED <<pti, missing, state, bound, fileVars, useVars>>

\* alloc_chrdev_region, cdev_add, class_create, device_create_with_groups.
ChrdevInit ==
    \/ Register("region", "cdev", "debug_exit")
    \/ Register("cdev", "class", "out")
    \/ Register("class", "device", "out2")
    \/ Register("device", "done", "out3")

\* A deregistration.
Deregister(label, part, next) ==
    /\ pc = label
    /\ registry' = registry \ {part}
    /\ pc' = next
    /\ UNCHANGED <<pti, missing, state, bound, fileVars, useVars>>

\* The labels out3, out2 and out of chrdev_init.
ChrdevUnwind ==
    \/ Deregister("out3", "class", "out2")
    \/ Deregister("out2", "cdev", "out")
    \/ Deregister("out", "region", "debug_exit")

\* debug_exit, in both runtime_init and runtime_exit; debugfs_remove_recursive
\* waits for reads in progress, not for open files.
DebugExit ==
    /\ \A f \in Files : mm[f] = NULL
    /\ Deregister("debug_exit", "debug", IF state = "coming" THEN "fail" ELSE "device_destroy")

\* The kernel's end of insmod: it keeps the module or discards it, whoever has
\* files of it open.  The files of debugfs can be open by then; they are stale,
\* and closing one uses the operations of a module that is gone.
InsmodDone ==
    /\ \/ pc = "done" /\ state' = "live" /\ UNCHANGED <<pins, file>>
       \/ /\ pc = "fail"
          /\ state' = "out"
          /\ pins' = {}
          /\ file' = [f \in Files |-> IF file[f] = "debug" THEN "stale" ELSE file[f]]
    /\ pc' = "none"
    /\ UNCHANGED <<pti, missing, bound, registry, holder, useVars>>

-----------------------------------------------------------------------------
(***************************************************************************)
(* rmmod: runtime_exit.                                                    *)
(***************************************************************************)

\* rmmod is refused while a file holds a reference.
Rmmod ==
    /\ state = "live" /\ pins = {}
    /\ state' = "going"
    /\ pc' = "debug_exit"
    /\ UNCHANGED <<pti, missing, bound, registry, fileVars, useVars>>

\* Mutant: the region goes before the cdev.
ChrdevCleanupSwapped ==
    \/ Deregister("device_destroy", "device", "class_destroy")
    \/ Deregister("class_destroy", "class", "cdev_del")
    \/ Deregister("cdev_del", "region", "unregister")
    \/ Deregister("unregister", "cdev", "vma_free")

ChrdevCleanup ==
    \/ Deregister("device_destroy", "device", "class_destroy")
    \/ Deregister("class_destroy", "class", "cdev_del")
    \/ Deregister("cdev_del", "cdev", "unregister")
    \/ Deregister("unregister", "region", "vma_free")

\* vma_free gives the stacks of the free list back, and the module is gone.
VmaFree ==
    /\ pc = "vma_free"
    /\ pc' = "none"
    /\ state' = "out"
    /\ UNCHANGED <<pti, missing, bound, registry, fileVars, useVars>>

-----------------------------------------------------------------------------
(***************************************************************************)
(* Files.                                                                  *)
(***************************************************************************)

\* Mutant: the operations have no owner.
NoOwner(f) == UNCHANGED pins

\* The owner of the file operations is the module: the kernel takes a
\* reference for f.
Owner(f) == pins' = pins \cup {f}

\* open() of process p gives f.
Opened(p, f, kind) ==
    /\ p \in alive /\ p \notin calls
    /\ file[f] = "closed"
    /\ state \in {"coming", "live"}
    /\ file' = [file EXCEPT ![f] = kind]
    /\ holder' = [holder EXCEPT ![f] = p]
    /\ Owner(f)
    /\ UNCHANGED <<pti, missing, moduleVars, useVars>>

\* Through the node that device_create made; what shadow_open would do is
\* commented out.
shadow_open(p, f) == {"cdev", "device"} \subseteq registry /\ Opened(p, f, "dev")

\* A file of debugfs.
debug_file_open(p, f) == "debug" \in registry /\ Opened(p, f, "debug")

Open(p, f) == shadow_open(p, f) \/ debug_file_open(p, f)

\* close(), once no call uses the file; shadow_release does nothing.
Close(f) ==
    /\ file[f] # "closed"
    /\ holder[f] \notin calls /\ mm[f] = NULL
    /\ file' = [file EXCEPT ![f] = "closed"]
    /\ holder' = [holder EXCEPT ![f] = NULL]
    /\ pins' = pins \ {f}
    /\ UNCHANGED <<pti, missing, moduleVars, useVars>>

\* A process ends when its files are closed.
Exit(p) ==
    /\ p \in alive
    /\ \A f \in Files : holder[f] # p
    /\ alive' = alive \ {p}
    /\ mm_users' = [mm_users EXCEPT ![p] = @ - 1]
    /\ UNCHANGED <<pti, missing, moduleVars, fileVars, calls, mm>>

\* Mutant: the address space is used without a reference of its own.
TaskMm(p) == UNCHANGED mm_users

\* get_task_mm takes a reference to the address space.
GetTaskMm(p) == mm_users' = [mm_users EXCEPT ![p] = @ + 1]

\* pgd_show, for the process that target_pid names now: a process that has
\* ended has no task or no mm, and an error is printed.
PgdShow(f, p) ==
    /\ file[f] = "debug" /\ mm[f] = NULL
    /\ "debug" \in registry /\ pc # "debug_exit"
    /\ p \in alive
    /\ GetTaskMm(p)
    /\ mm' = [mm EXCEPT ![f] = p]
    /\ UNCHANGED <<pti, missing, moduleVars, fileVars, calls, alive>>

\* The entries are printed and mmput drops the reference.
PgdShowDone(f) ==
    /\ mm[f] # NULL
    /\ mm' = [mm EXCEPT ![f] = NULL]
    /\ mm_users' = [mm_users EXCEPT ![mm[f]] = @ - 1]
    /\ UNCHANGED <<pti, missing, moduleVars, fileVars, calls, alive>>

\* ioctl() on the device.
Ioctl(p) ==
    /\ p \notin calls
    /\ \E f \in Files : file[f] = "dev" /\ holder[f] = p
    /\ calls' = calls \cup {p}
    /\ UNCHANGED <<pti, missing, moduleVars, fileVars, alive, mm_users, mm>>

\* chrdev_ioctl returns, whether it refused the number, failed or was served.
ChrdevIoctl(p) ==
    /\ p \in calls
    /\ calls' = calls \ {p}
    /\ UNCHANGED <<pti, missing, moduleVars, fileVars, alive, mm_users, mm>>

-----------------------------------------------------------------------------
Load == Insmod \/ ResolveSymbols \/ DebugInit \/ ChrdevInit \/ ChrdevUnwind \/ InsmodDone

Unload == Rmmod \/ DebugExit \/ ChrdevCleanup \/ VmaFree

Next ==
    \/ Load \/ Unload
    \/ \E p \in Procs : \/ \E f \in Files : Open(p, f) \/ PgdShow(f, p)
                        \/ Ioctl(p) \/ ChrdevIoctl(p) \/ Exit(p)
    \/ \E f \in Files : Close(f) \/ PgdShowDone(f)

Spec == Init /\ [][Next]_vars

-----------------------------------------------------------------------------
(***************************************************************************)
(* Properties.                                                             *)
(***************************************************************************)

\* At every step of loading, unwinding and unloading what is registered rests
\* on what it needs: the node on its class and cdev, the cdev on its numbers.
\* And whichever registration of runtime_init fails, a module that is not loaded
\* has nothing registered; nor has one that was unloaded.
Registrations ==
    /\ "device" \in registry => {"class", "cdev"} \subseteq registry
    /\ "cdev" \in registry => "region" \in registry
    /\ state = "out" => registry = {}

\* No file is open whose operations lie in a module that is gone (files of
\* debugfs opened during a load that fails excepted), and vma_free, after which
\* the free list is not looked at again, runs when no ioctl can run any more.
\* Nor does an ioctl run before every function that the page-table code calls
\* through a __*_bnd pointer has been found.
CallsSafe ==
    /\ state = "out" \/ pc = "vma_free" =>
            \A f \in Files : file[f] \in {"closed", "stale"}
    /\ calls # {} => state # "out" /\ pc # "vma_free" /\ bound = Range(Symbols)

\* The page table that pgd_show prints is not freed under it, though the process
\* may end meanwhile.
ShownAlive == \A f \in Files : mm[f] # NULL => mm_users[mm[f]] > 0
=============================================================================
