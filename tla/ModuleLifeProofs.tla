--------------------------- MODULE ModuleLifeProofs ---------------------------
(***************************************************************************)
(* Proofs about ModuleLife, for any number of processes, files and kernel  *)
(* symbols.                                                                *)
(***************************************************************************)
EXTENDS ModuleLife, FiniteSetTheorems, WellFoundedInduction, TLAPS

Chrdev == {"region", "cdev", "class", "device"}

LifeTypes ==
    /\ state \in {"out", "coming", "live", "going"}
    /\ pins \in SUBSET Files
    /\ file \in [Files -> {"closed", "dev", "debug", "stale"}]
    /\ holder \in [Files -> Procs \cup {NULL}]
    /\ calls \in SUBSET Procs
    /\ alive \in SUBSET Procs
    /\ mm_users \in [Procs -> Int]
    /\ mm \in [Files -> Procs \cup {NULL}]

\* What runtime_init and runtime_exit have registered when they reach the label
\* q, the debug file apart.
RegisteredAt(q) ==
    CASE q \in {"fail", "resolve", "debug", "region", "vma_free"} -> {}
      [] q \in {"cdev", "out", "unregister"} -> {"region"}
      [] q \in {"class", "out2", "cdev_del"} -> {"region", "cdev"}
      [] q \in {"device", "out3", "class_destroy"} -> {"region", "cdev", "class"}
      [] q \in {"done", "device_destroy"} -> Chrdev
      [] q = "debug_exit" -> IF state = "coming" THEN {} ELSE Chrdev
      [] q = "none" -> IF state = "out" THEN {} ELSE Chrdev
      [] OTHER -> Parts

Loading   == {"fail", "resolve", "debug", "region", "cdev", "class", "device",
              "done", "out3", "out2", "out", "debug_exit"}
Unloading == {"debug_exit", "device_destroy", "class_destroy", "cdev_del",
              "unregister", "vma_free"}

\* Control: the label fits the state of the module, what is registered fits the
\* label, and so do the symbols that are bound.
ControlInv ==
    /\ state \in {"out", "live"} => pc = "none"
    /\ state = "coming" => pc \in Loading
    /\ state = "going" => pc \in Unloading
    /\ registry \ {"debug"} = RegisteredAt(pc)
    /\ "debug" \in registry =>
            /\ state # "out"
            /\ pc \notin {"fail", "resolve", "debug"}
            /\ state = "going" => pc = "debug_exit"
    /\ state = "live" \/ pc \in {"debug", "region", "cdev", "class", "device", "done"}
            => bound = Range(Symbols)

\* Files: the operations of an open file lie in a module that it pins, and a
\* file of the device is open only while the device is there.
FileInv ==
    \A f \in Files :
        /\ file[f] \in {"dev", "debug"} => f \in pins /\ state \in {"coming", "live"}
        /\ file[f] = "dev" => state = "live" \/ pc = "done"

\* A process in an ioctl has the device open.
CallInv ==
    \A p \in calls : \E f \in Files : file[f] = "dev" /\ holder[f] = p

\* Reads of the debug file that show the page table of p.
Shows(p) == {f \in Files : mm[f] = p}

\* An address space has one user for the process, while it lives, and one for
\* each read that shows it.
UsersInv ==
    \A p \in Procs :
        mm_users[p] = (IF p \in alive THEN 1 ELSE 0) + Cardinality(Shows(p))

LifeInv == LifeTypes /\ ControlInv /\ FileInv /\ CallInv /\ UsersInv
-----------------------------------------------------------------------------
(***************************************************************************)
(* Loading and unloading.                                                  *)
(***************************************************************************)

\* Every variable keeps its type.
LEMMA LifeTypesNext == LifeTypes /\ [Next]_vars => LifeTypes'
<1> SUFFICES ASSUME LifeTypes, [Next]_vars PROVE LifeTypes'
    OBVIOUS
<1> USE LifeConstants DEF LifeTypes, fileVars, useVars, moduleVars
<1>1. CASE Load
    BY <1>1 DEF Load, Insmod, ResolveSymbols, DebugInit, ChrdevInit, Register,
                ChrdevUnwind, Deregister, InsmodDone
<1>2. CASE Unload
    BY <1>2 DEF Unload, Rmmod, DebugExit, ChrdevCleanup, Deregister, VmaFree
<1>3. ASSUME NEW p \in Procs, NEW f \in Files, Open(p, f) \/ PgdShow(f, p)
      PROVE  LifeTypes'
    <2>1. CASE Open(p, f)
        <3>1. PICK kind \in {"dev", "debug"} : Opened(p, f, kind)
            BY <2>1 DEF Open, shadow_open, debug_file_open
        <3> QED
            BY <3>1 DEF Opened, Owner
    <2>2. CASE PgdShow(f, p)
        BY <2>2 DEF PgdShow, GetTaskMm
    <2> QED
        BY <1>3, <2>1, <2>2
<1>4. ASSUME NEW p \in Procs, Ioctl(p)
      PROVE  LifeTypes'
    BY <1>4 DEF Ioctl
<1>5. ASSUME NEW p \in Procs, ChrdevIoctl(p) \/ Exit(p) PROVE LifeTypes'
    <2>1. CASE ChrdevIoctl(p)
        BY <2>1 DEF ChrdevIoctl
    <2>2. CASE Exit(p)
        BY <2>2 DEF Exit
    <2> QED
        BY <1>5, <2>1, <2>2
<1>6. ASSUME NEW f \in Files, Close(f) \/ PgdShowDone(f) PROVE LifeTypes'
    BY <1>6 DEF Close, PgdShowDone
<1>7. CASE UNCHANGED vars
    BY <1>7 DEF vars
<1> QED
    BY <1>1, <1>2, <1>3, <1>4, <1>5, <1>6, <1>7 DEF Next

\* resolve_symbols goes on only when it has bound every symbol.
LEMMA Resolved ==
    ASSUME NEW found \in SUBSET Range(Symbols),
           FirstUnresolved(found) > Len(Symbols)
    PROVE  {Symbols[k] : k \in 1 .. FirstUnresolved(found) - 1} \cap found
               = Range(Symbols)
<1> DEFINE bad == {k \in DOMAIN Symbols : Symbols[k] \notin found}
<1>1. DOMAIN Symbols = 1 .. Len(Symbols) /\ Len(Symbols) \in Nat
    BY LifeConstants
<1>2. bad = {}
    <2> SUFFICES ASSUME bad # {} PROVE FALSE
        OBVIOUS
    <2>1. \E k \in bad : \A j \in bad : k <= j
        <3>1. bad \subseteq Nat /\ bad # {}
            BY <1>1
        <3>2. PICK k \in bad : \A j \in bad : ~ (<<j, k>> \in OpToRel(<, Nat))
            BY <3>1, NatLessThanWellFounded, WFMin, Zenon
        <3>3. ASSUME NEW j \in bad PROVE k <= j
            <4> HIDE DEF bad
            <4>1. j \in Nat /\ k \in Nat
                BY <3>1
            <4>2. j < k => <<j, k>> \in OpToRel(<, Nat)
                BY <4>1 DEF OpToRel
            <4>3. ~(j < k)
                BY <3>2, <4>2, Zenon
            <4> QED
                BY <4>1, <4>3
        <3> QED
            BY <3>3
    <2> QED
        BY <1>1, <2>1 DEF FirstUnresolved
<1>3. FirstUnresolved(found) = Len(Symbols) + 1
    BY <1>2 DEF FirstUnresolved
<1> QED
    BY <1>1, <1>2, <1>3 DEF Range

\* Every step of loading and unloading keeps label, state and registrations in
\* accord; what processes do changes none of them.
LEMMA ControlNext == LifeTypes /\ ControlInv /\ [Next]_vars => ControlInv'
<1> SUFFICES ASSUME LifeTypes, ControlInv, [Next]_vars PROVE ControlInv'
    OBVIOUS
<1> USE DEF LifeTypes, ControlInv, RegisteredAt, Chrdev, Parts, Loading, Unloading
<1>1. CASE Insmod
    BY <1>1 DEF Insmod
<1>2. CASE ResolveSymbols
    <2>1. CASE pc' = "fail" /\ UNCHANGED bound
        BY <1>2, <2>1 DEF ResolveSymbols
    <2>2. CASE pc' = "debug"
        <3>1. bound' = Range(Symbols)
            BY <1>2, <2>2, Resolved DEF ResolveSymbols
        <3> QED
            BY <1>2, <2>2, <3>1 DEF ResolveSymbols
    <2>3. CASE pc' = "fail"
        BY <1>2, <2>3 DEF ResolveSymbols
    <2> QED
        BY <1>2, <2>1, <2>2, <2>3 DEF ResolveSymbols
<1>3. CASE DebugInit
    BY <1>3 DEF DebugInit
<1>4. CASE ChrdevInit
    <2>1. CASE Register("region", "cdev", "debug_exit")
        BY <2>1 DEF Register
    <2>2. CASE Register("cdev", "class", "out")
        BY <2>2 DEF Register
    <2>3. CASE Register("class", "device", "out2")
        BY <2>3 DEF Register
    <2>4. CASE Register("device", "done", "out3")
        BY <2>4 DEF Register
    <2> QED
        BY <1>4, <2>1, <2>2, <2>3, <2>4 DEF ChrdevInit
<1>5. CASE ChrdevUnwind
    <2>1. CASE Deregister("out3", "class", "out2")
        BY <2>1 DEF Deregister
    <2>2. CASE Deregister("out2", "cdev", "out")
        BY <2>2 DEF Deregister
    <2>3. CASE Deregister("out", "region", "debug_exit")
        BY <2>3 DEF Deregister
    <2> QED
        BY <1>5, <2>1, <2>2, <2>3 DEF ChrdevUnwind
<1>6. CASE InsmodDone
    BY <1>6 DEF InsmodDone
<1>7. CASE Rmmod
    BY <1>7 DEF Rmmod
<1>8. CASE DebugExit
    BY <1>8 DEF DebugExit, Deregister
<1>9. CASE ChrdevCleanup
    <2>1. CASE Deregister("device_destroy", "device", "class_destroy")
        BY <2>1 DEF Deregister
    <2>2. CASE Deregister("class_destroy", "class", "cdev_del")
        BY <2>2 DEF Deregister
    <2>3. CASE Deregister("cdev_del", "cdev", "unregister")
        BY <2>3 DEF Deregister
    <2>4. CASE Deregister("unregister", "region", "vma_free")
        BY <2>4 DEF Deregister
    <2> QED
        BY <1>9, <2>1, <2>2, <2>3, <2>4 DEF ChrdevCleanup
<1>10. CASE VmaFree
    BY <1>10 DEF VmaFree
<1>11. CASE UNCHANGED moduleVars
    BY <1>11 DEF moduleVars
<1>12. ASSUME ~Load, ~Unload PROVE UNCHANGED moduleVars
    BY <1>12 DEF Next, Open, shadow_open, debug_file_open, Opened, PgdShow, Ioctl, ChrdevIoctl,
                 Exit, Close, PgdShowDone, vars
<1> QED
    BY <1>1, <1>2, <1>3, <1>4, <1>5, <1>6, <1>7, <1>8, <1>9, <1>10, <1>11, <1>12
       DEF Load, Unload
-----------------------------------------------------------------------------
(***************************************************************************)
(* Files and calls.                                                        *)
(***************************************************************************)

\* A file keeps its module: only rmmod, which an open file refuses, and the end
\* of a load that failed, by when the device is gone, take the module away.
LEMMA FileNext ==
    LifeTypes /\ ControlInv /\ FileInv /\ [Next]_vars => FileInv'
<1> SUFFICES ASSUME LifeTypes, ControlInv, FileInv, [Next]_vars,
                    NEW f \in Files
             PROVE  /\ file'[f] \in {"dev", "debug"} =>
                            f \in pins' /\ state' \in {"coming", "live"}
                    /\ file'[f] = "dev" => state' = "live" \/ pc' = "done"
    BY DEF FileInv
<1> USE DEF LifeTypes, FileInv, ControlInv, RegisteredAt, Chrdev, Loading,
            Unloading, moduleVars, fileVars
<1>1. CASE Insmod \/ ResolveSymbols \/ DebugInit
    BY <1>1 DEF Insmod, ResolveSymbols, DebugInit
<1>2. CASE ChrdevInit \/ ChrdevUnwind
    BY <1>2 DEF ChrdevInit, ChrdevUnwind, Register, Deregister
<1>3. CASE InsmodDone
    BY <1>3 DEF InsmodDone
<1>4. CASE Rmmod
    BY <1>4 DEF Rmmod
<1>5. CASE DebugExit \/ ChrdevCleanup
    BY <1>5 DEF DebugExit, ChrdevCleanup, Deregister
<1>6. CASE VmaFree
    BY <1>6 DEF VmaFree
<1>7. ASSUME NEW p \in Procs, NEW g \in Files, Open(p, g)
      PROVE  /\ file'[f] \in {"dev", "debug"} =>
                     f \in pins' /\ state' \in {"coming", "live"}
             /\ file'[f] = "dev" => state' = "live" \/ pc' = "done"
    <2>1. "device" \in registry /\ state = "coming" => pc = "done"
        OBVIOUS
    <2> QED
        BY <1>7, <2>1 DEF Open, shadow_open, debug_file_open, Opened, Owner
<1>8. ASSUME NEW g \in Files, Close(g)
      PROVE  /\ file'[f] \in {"dev", "debug"} =>
                     f \in pins' /\ state' \in {"coming", "live"}
             /\ file'[f] = "dev" => state' = "live" \/ pc' = "done"
    BY <1>8 DEF Close
<1>9. CASE UNCHANGED <<state, pc, pins, file>>
    BY <1>9
<1>10. ASSUME ~Load, ~Unload, ~ \E p \in Procs, g \in Files : Open(p, g),
              ~ \E g \in Files : Close(g)
       PROVE  UNCHANGED <<state, pc, pins, file>>
    BY <1>10 DEF Next, PgdShow, Ioctl, ChrdevIoctl, Exit, PgdShowDone, vars
<1> QED
    BY <1>1, <1>2, <1>3, <1>4, <1>5, <1>6, <1>7, <1>8, <1>9, <1>10 DEF Load, Unload

\* A process has the device open throughout its ioctl: close() waits for it.
LEMMA CallNext ==
    LifeTypes /\ ControlInv /\ FileInv /\ CallInv /\ [Next]_vars => CallInv'
<1> SUFFICES ASSUME LifeTypes, ControlInv, FileInv, CallInv, [Next]_vars,
                    NEW p \in calls'
             PROVE  \E f \in Files : file'[f] = "dev" /\ holder'[f] = p
    BY DEF CallInv
<1> USE LifeConstants DEF LifeTypes, CallInv
<1>1. ASSUME NEW q \in Procs, Ioctl(q)
      PROVE  \E f \in Files : file'[f] = "dev" /\ holder'[f] = p
    BY <1>1 DEF Ioctl, fileVars
<1>2. ASSUME NEW q \in Procs, ChrdevIoctl(q)
      PROVE  \E f \in Files : file'[f] = "dev" /\ holder'[f] = p
    BY <1>2 DEF ChrdevIoctl, fileVars
<1>3. ASSUME calls' = calls
      PROVE  \E f \in Files : file'[f] = "dev" /\ holder'[f] = p
    <2>1. PICK f \in Files : file[f] = "dev" /\ holder[f] = p
        BY <1>3
    <2>2. file'[f] = "dev" /\ holder'[f] = p
        <3>1. CASE InsmodDone
            BY <2>1, <3>1 DEF InsmodDone
        <3>2. ASSUME NEW q \in Procs, NEW g \in Files, Open(q, g)
              PROVE  file'[f] = "dev" /\ holder'[f] = p
            BY <2>1, <3>2 DEF Open, shadow_open, debug_file_open, Opened
        <3>3. ASSUME NEW g \in Files, Close(g)
              PROVE  file'[f] = "dev" /\ holder'[f] = p
            <4>1. g # f
                BY <1>3, <2>1, <3>3 DEF Close
            <4> QED
                BY <2>1, <3>3, <4>1 DEF Close
        <3>4. CASE UNCHANGED <<file, holder>>
            BY <2>1, <3>4
        <3>5. CASE ~InsmodDone /\ (~ \E g \in Files : Close(g))
                   /\ ~ \E q \in Procs, g \in Files : Open(q, g)
            BY <3>4, <3>5 DEF Next, Load, Unload, Insmod, ResolveSymbols, DebugInit,
                    ChrdevInit, Register, ChrdevUnwind, Deregister, Rmmod, DebugExit,
                    ChrdevCleanup, VmaFree, PgdShow, Ioctl, ChrdevIoctl, Exit,
                    PgdShowDone, fileVars, vars
        <3> QED
            BY <3>1, <3>2, <3>3, <3>5
    <2> QED
        BY <2>2
<1>4. ASSUME ~ \E q \in Procs : Ioctl(q) \/ ChrdevIoctl(q)
      PROVE  calls' = calls
    BY <1>4 DEF Next, Load, Unload, Insmod, ResolveSymbols, DebugInit, ChrdevInit,
            Register, ChrdevUnwind, Deregister, InsmodDone, Rmmod, DebugExit,
            ChrdevCleanup, VmaFree, Open, shadow_open, debug_file_open, Opened,
            Close, PgdShow, Exit, PgdShowDone,
            useVars, vars
<1> QED
    BY <1>1, <1>2, <1>3, <1>4
-----------------------------------------------------------------------------
(***************************************************************************)
(* The address spaces the debug file shows.                                *)
(***************************************************************************)

\* The reads that show a process are finitely many.
LEMMA ShowsFinite == \A p \in Procs : IsFiniteSet(Shows(p)) /\ Cardinality(Shows(p)) \in Nat
<1> SUFFICES ASSUME NEW p \in Procs
             PROVE  IsFiniteSet(Shows(p)) /\ Cardinality(Shows(p)) \in Nat
    OBVIOUS
<1>1. Shows(p) \in SUBSET Files
    BY DEF Shows
<1> QED
    BY <1>1, LifeConstants, FS_Subset, FS_CardinalityType

\* get_task_mm, mmput and the end of a process keep the count of users exact.
LEMMA UsersNext == LifeTypes /\ UsersInv /\ [Next]_vars => UsersInv'
<1> SUFFICES ASSUME LifeTypes, UsersInv, [Next]_vars, NEW p \in Procs
             PROVE  mm_users'[p] = (IF p \in alive' THEN 1 ELSE 0)
                                    + Cardinality(Shows(p)')
    BY DEF UsersInv, Shows
<1> USE LifeConstants DEF LifeTypes
<1>1. /\ mm_users[p] = (IF p \in alive THEN 1 ELSE 0) + Cardinality(Shows(p))
      /\ IsFiniteSet(Shows(p)) /\ Cardinality(Shows(p)) \in Nat
    BY ShowsFinite DEF UsersInv
<1>2. ASSUME NEW f \in Files, NEW q \in Procs, PgdShow(f, q)
      PROVE  mm_users'[p] = (IF p \in alive' THEN 1 ELSE 0)
                             + Cardinality(Shows(p)')
    <2>1. CASE q = p
        <3>1. Shows(p)' = Shows(p) \cup {f} /\ f \notin Shows(p)
            BY <1>2, <2>1 DEF PgdShow, Shows
        <3>2. Cardinality(Shows(p)') = Cardinality(Shows(p)) + 1
            BY <1>1, <3>1, FS_AddElement
        <3>3. mm_users'[p] = mm_users[p] + 1 /\ alive' = alive
            BY <1>2, <2>1 DEF PgdShow, GetTaskMm
        <3> QED
            BY <1>1, <3>2, <3>3
    <2>2. CASE q # p
        <3>1. Shows(p)' = Shows(p)
            BY <1>2, <2>2 DEF PgdShow, Shows
        <3>2. mm_users'[p] = mm_users[p] /\ alive' = alive
            BY <1>2, <2>2 DEF PgdShow, GetTaskMm
        <3> QED
            BY <1>1, <3>1, <3>2
    <2> QED
        BY <2>1, <2>2
<1>3. ASSUME NEW f \in Files, PgdShowDone(f)
      PROVE  mm_users'[p] = (IF p \in alive' THEN 1 ELSE 0)
                             + Cardinality(Shows(p)')
    <2>1. CASE mm[f] = p
        <3>1. Shows(p)' = Shows(p) \ {f} /\ f \in Shows(p)
            BY <1>3, <2>1 DEF PgdShowDone, Shows
        <3>2. Cardinality(Shows(p)') = Cardinality(Shows(p)) - 1
            <4>1. Cardinality(Shows(p) \ {f}) = Cardinality(Shows(p)) - 1
                BY <1>1, <3>1, FS_RemoveElement
            <4> QED
                BY <3>1, <4>1
        <3>3. mm_users'[p] = mm_users[p] - 1 /\ alive' = alive
            BY <1>3, <2>1 DEF PgdShowDone
        <3> QED
            BY <1>1, <3>2, <3>3
    <2>2. CASE mm[f] # p
        <3>1. \A g \in Files : mm'[g] = p <=> mm[g] = p
            BY <1>3, <2>2 DEF PgdShowDone
        <3>2. Shows(p)' = Shows(p)
            BY <3>1 DEF Shows
        <3>3. mm_users'[p] = mm_users[p] /\ alive' = alive
            BY <1>3, <2>2 DEF PgdShowDone
        <3> QED
            BY <1>1, <3>2, <3>3
    <2> QED
        BY <2>1, <2>2
<1>4. ASSUME NEW q \in Procs, Exit(q)
      PROVE  mm_users'[p] = (IF p \in alive' THEN 1 ELSE 0)
                             + Cardinality(Shows(p)')
    <2>1. Shows(p)' = Shows(p)
        BY <1>4 DEF Exit, Shows
    <2>2. /\ p = q => mm_users'[p] = mm_users[p] - 1 /\ p \in alive /\ p \notin alive'
          /\ p # q => mm_users'[p] = mm_users[p] /\ (p \in alive' <=> p \in alive)
        BY <1>4 DEF Exit
    <2> QED
        BY <1>1, <2>1, <2>2
<1>5. CASE UNCHANGED <<alive, mm_users, mm>>
    <2>1. Shows(p)' = Shows(p)
        BY <1>5 DEF Shows
    <2> QED
        BY <1>1, <1>5, <2>1
<1>6. CASE /\ ~ \E f \in Files, q \in Procs : PgdShow(f, q)
           /\ ~ \E f \in Files : PgdShowDone(f)
           /\ ~ \E q \in Procs : Exit(q)
    BY <1>5, <1>6 DEF Next, Load, Unload, Insmod, ResolveSymbols, DebugInit,
           ChrdevInit, Register, ChrdevUnwind, Deregister, InsmodDone, Rmmod,
           DebugExit, ChrdevCleanup, VmaFree, Open, shadow_open, debug_file_open, Opened,
            Close, Ioctl, ChrdevIoctl,
           useVars, vars
<1> QED
    BY <1>2, <1>3, <1>4, <1>6

-----------------------------------------------------------------------------
\* Before the first insmod the invariant holds.
LEMMA LifeInvInit == Init => LifeInv
<1> SUFFICES ASSUME Init PROVE LifeInv
    OBVIOUS
<1>1. LifeTypes
    BY DEF Init, LifeTypes
<1>2. ControlInv
    BY DEF Init, ControlInv, RegisteredAt, Loading, Unloading
<1>3. FileInv /\ CallInv
    BY DEF Init, FileInv, CallInv
<1>4. UsersInv
    <2> SUFFICES ASSUME NEW p \in Procs
                 PROVE  mm_users[p] = (IF p \in alive THEN 1 ELSE 0)
                                       + Cardinality(Shows(p))
        BY DEF UsersInv
    <2>1. Shows(p) = {}
        BY LifeConstants DEF Init, Shows
    <2>2. Cardinality(Shows(p)) = 0
        BY <2>1, FS_EmptySet, Zenon
    <2> QED
        BY <2>2 DEF Init
<1> QED
    BY <1>1, <1>2, <1>3, <1>4 DEF LifeInv

\* The invariant holds in every reachable state.
THEOREM LifeInvariant == Spec => []LifeInv
<1>1. LifeInv /\ [Next]_vars => LifeInv'
    BY LifeTypesNext, ControlNext, FileNext, CallNext, UsersNext
       DEF LifeInv
<1> QED
    BY <1>1, LifeInvInit, PTL DEF Spec

\* Wherever runtime_init fails and however far runtime_exit is, registrations
\* rest on those they need, and a module that is out has left none behind.
THEOREM LifeRegistrations == Spec => []Registrations
<1>1. LifeInv => Registrations
    <2> SUFFICES ASSUME LifeInv PROVE Registrations
        OBVIOUS
    <2>1. RegisteredAt(pc) \in {{}, {"region"}, {"region", "cdev"},
                                {"region", "cdev", "class"}, Chrdev}
        BY DEF LifeInv, LifeTypes, ControlInv, RegisteredAt, Loading, Unloading
    <2> QED
        BY <2>1 DEF LifeInv, LifeTypes, ControlInv, Chrdev, Registrations, RegisteredAt
<1> QED
    BY <1>1, LifeInvariant, PTL

\* No ioctl runs in a module that is gone, during vma_free or before every symbol
\* is bound, and no file that the module serves outlives it.
THEOREM LifeCallsSafe == Spec => []CallsSafe
<1>1. LifeInv => CallsSafe
    <2> SUFFICES ASSUME LifeInv PROVE CallsSafe
        OBVIOUS
    <2> USE DEF LifeInv, LifeTypes, ControlInv, Loading, Unloading
    <2>1. state = "out" \/ pc = "vma_free" => state \in {"out", "going"}
        OBVIOUS
    <2>2. ASSUME state = "out" \/ pc = "vma_free", NEW f \in Files
          PROVE  file[f] \in {"closed", "stale"}
        BY <2>1, <2>2 DEF FileInv
    <2>3. ASSUME NEW p \in calls
          PROVE  state # "out" /\ pc # "vma_free" /\ bound = Range(Symbols)
        <3>1. PICK f \in Files : file[f] = "dev"
            BY <2>3 DEF CallInv
        <3> QED
            BY <3>1 DEF FileInv
    <2> QED
        BY <2>2, <2>3 DEF CallsSafe
<1> QED
    BY <1>1, LifeInvariant, PTL

\* pgd_show never prints the page table of an address space that was freed.
THEOREM LifeShownAlive == Spec => []ShownAlive
<1>1. LifeInv => ShownAlive
    <2> SUFFICES ASSUME LifeInv, NEW f \in Files, mm[f] # NULL
                 PROVE  mm_users[mm[f]] > 0
        BY DEF ShownAlive
    <2>1. mm[f] \in Procs /\ f \in Shows(mm[f])
        BY DEF LifeInv, LifeTypes, Shows
    <2>2. Cardinality(Shows(mm[f])) # 0 /\ Cardinality(Shows(mm[f])) \in Nat
        BY <2>1, ShowsFinite, FS_EmptySet
    <2> QED
        BY <2>1, <2>2 DEF LifeInv, UsersInv
<1> QED
    BY <1>1, LifeInvariant, PTL
===============================================================================
