------------------------------- MODULE Startup -------------------------------
(***************************************************************************)
(* The start of an instrumented process: the constructor places the pool   *)
(* (Placement), then the entry point relocate_stack (runtime/stckcpy.S)    *)
(* moves the initial stack to a new mapping, rewrites the pointers in it   *)
(* and has the kernel follow (IOCTL_SHADOW_PIVOT, sa_pivot).               *)
(*                                                                         *)
(* A cell of memory is a word of the tables the kernel leaves at rsp, or a *)
(* character of the strings above them.  A string is a character and NUL,  *)
(* or NUL alone; the tables are argc, argv, envp and auxv.                 *)
(***************************************************************************)
EXTENDS Placement, SequencesExt

CONSTANTS
    STACK_SIZE,  \* of the new stack
    ADR_HINT,    \* where it should be
    RANDOM_LEN,  \* cells of the AT_RANDOM block
    Args         \* the start conditions: [argv, envp : sequences of string
                 \* lengths, platform, top, base]

AT_NULL == 0
AT_PAGESZ == 6
AT_BASE == 7
AT_PLATFORM == 15
AT_RANDOM == 25
AT_EXECFN == 31

VARIABLES
    mem,        \* contents of the old and the new stack, by address
    rsp,
    sp0,        \* ghost: rsp and contents at entry
    mem0,
    area,       \* address mmap returned for the new stack
    mm          \* fields of mm_struct that describe the stack

vars == <<placeVars, mem, rsp, sp0, mem0, area, mm>>
stubVars == <<mem, rsp, sp0, mem0, area, mm>>

-----------------------------------------------------------------------------
(***************************************************************************)
(* The stack execve leaves (external).  The ABI does not order the blocks  *)
(* above the tables; Linux puts the name of the program highest, the stub  *)
(* also handles the random bytes being highest.  A zero word ends it all.  *)
(***************************************************************************)

\* Names of the blocks that are not named by an auxv key.
Argv(i) == 100 + i
Envp(i) == 200 + i

Str(len, char) == [i \in 1 .. len + 1 |-> IF i <= len THEN char ELSE 0]

Blocks(a) ==
    LET random == <<[key |-> AT_RANDOM, cells |-> [i \in 1 .. RANDOM_LEN |-> 500 + i]]>>
        name   == <<[key |-> AT_EXECFN, cells |-> Str(1, 600)]>>
        plat   == IF a.platform THEN <<[key |-> AT_PLATFORM, cells |-> Str(1, 700)]>>
                                ELSE <<>>
        argv   == [i \in DOMAIN a.argv |-> [key |-> Argv(i),
                                            cells |-> Str(a.argv[i], 800 + i)]]
        envp   == [i \in DOMAIN a.envp |-> [key |-> Envp(i),
                                            cells |-> Str(a.envp[i], 900 + i)]]
    IN IF a.top = AT_RANDOM THEN plat \o argv \o envp \o name \o random
                            ELSE random \o plat \o argv \o envp \o name

Cells(blocks) == FlattenSeq([i \in DOMAIN blocks |-> blocks[i].cells])

\* The tables, given the address `at' of each block.
AuxTable(a, at) ==
    <<AT_PAGESZ, PAGE, AT_BASE, a.base, AT_RANDOM, at[AT_RANDOM],
      AT_EXECFN, at[AT_EXECFN]>>
    \o (IF a.platform THEN <<AT_PLATFORM, at[AT_PLATFORM]>> ELSE <<>>)
    \o <<AT_NULL, 0>>

Tables(a, at) ==
    <<Len(a.argv)>>
    \o [i \in DOMAIN a.argv |-> at[Argv(i)]] \o <<0>>
    \o [i \in DOMAIN a.envp |-> at[Envp(i)]] \o <<0>>
    \o AuxTable(a, at)

\* Addresses of the blocks when the stack area ends at hi.
BlockAt(a, hi) ==
    LET bs == Blocks(a)
        start == hi - 1 - Len(Cells(bs))
    IN [k \in {bs[i].key : i \in DOMAIN bs} |->
            LET i == CHOOSE j \in DOMAIN bs : bs[j].key = k
            IN start + Len(Cells(SubSeq(bs, 1, i - 1)))]

\* Stack pointer, contents and mm of a process started with a on stack v.
Execve(a, v) ==
    LET at    == BlockAt(a, v.hi)
        image == Tables(a, at) \o Cells(Blocks(a)) \o <<0>>
        sp    == v.hi - Len(image)
        name  == at[AT_EXECFN]
        first(k, s, else) == IF s = <<>> THEN else ELSE at[k]
        env   == first(Envp(1), a.envp, name)
    IN [rsp |-> sp,
        mem |-> [x \in v.lo .. v.hi - 1 |-> IF x < sp THEN 0 ELSE image[x - sp + 1]],
        mm  |-> [start_stack |-> sp,
                 arg_start |-> first(Argv(1), a.argv, env), arg_end |-> env,
                 env_start |-> env, env_end |-> name,
                 saved_auxv |-> AuxTable(a, at)]]

Init ==
    /\ PlaceInit
    /\ \E a \in Args, v \in vmas :
            /\ v.use = "stack"
            /\ rsp = Execve(a, v).rsp
            /\ mem = Execve(a, v).mem
            /\ mm = Execve(a, v).mm
    /\ sp0 = rsp /\ mem0 = mem
    /\ area = 0

-----------------------------------------------------------------------------
(***************************************************************************)
(* relocate_stack.                                                         *)
(***************************************************************************)

\* First zero cell at or above x.
ZeroFrom(m, x) == Min({y \in DOMAIN m : y >= x /\ m[y] = 0})

\* Slots of the auxv key words, the table starting at x.
AuxSlots(m, x) ==
    LET ends == {y \in DOMAIN m : y >= x /\ (y - x) % 2 = 0 /\ m[y] = AT_NULL}
    IN {y \in x .. Min(ends) - 1 : (y - x) % 2 = 0}

\* The ends of argv and envp, and the auxv key words, of the tables at sp.
ArgvEnd(m, sp) == ZeroFrom(m, sp + 1)
EnvpEnd(m, sp) == ZeroFrom(m, ArgvEnd(m, sp) + 1)
AuxKeys(m, sp) == AuxSlots(m, EnvpEnd(m, sp) + 1)

\* The values of these auxv keys.
AuxValues(m, sp, keys) == {y + 1 : y \in {z \in AuxKeys(m, sp) : m[z] \in keys}}

\* Words of the tables at sp that the stub takes for pointers: argv, envp and
\* the values of four auxv keys.
Pointers(m, sp, keys) ==
    LET argvEnd == ArgvEnd(m, sp)
        envpEnd == EnvpEnd(m, sp)
    IN (sp + 1 .. argvEnd - 1) \cup (argvEnd + 1 .. envpEnd - 1) \cup AuxValues(m, sp, keys)

StubKeys == {AT_BASE, AT_PLATFORM, AT_RANDOM, AT_EXECFN}

\* Mutant: the random block is measured like a string.
EndString(m, sp) ==
    ZeroFrom(m, Max({m[y] : y \in Pointers(m, sp, StubKeys)})) + 1

\* rdi after the scans: the end of the object the highest pointer leads to, 16
\* bytes for AT_RANDOM, else up to and with the NUL.
End(m, sp) ==
    LET ptrs == Pointers(m, sp, StubKeys)
        top  == Max({m[y] : y \in ptrs})
        rnd  == \E y \in AuxValues(m, sp, {AT_RANDOM}) : m[y] = top
    IN IF rnd THEN top + RANDOM_LEN ELSE ZeroFrom(m, top) + 1

\* rcx: one byte more than up to the end.
Length(m, sp) == End(m, sp) - sp + 1

\* Mutant: the environment is not patched.
PatchNoEnv(m, sp, delta) ==
    LET env == ArgvEnd(m, sp) + 1 .. EnvpEnd(m, sp) - 1
    IN [x \in DOMAIN m |-> IF x \in Pointers(m, sp, StubKeys) \ env
                           THEN m[x] + delta ELSE m[x]]

\* The pointers of the tables at sp move by delta.
Patch(m, sp, delta) ==
    LET ptrs == Pointers(m, sp, StubKeys)
    IN [x \in DOMAIN m |-> IF x \in ptrs THEN m[x] + delta ELSE m[x]]

PivotKeys == {AT_PLATFORM, AT_RANDOM, AT_EXECFN}

\* z is the first zero at or above x, and the first AT_NULL of a table at x.
FirstZero(m, x, z) ==
    /\ x <= z /\ x .. z \subseteq DOMAIN m
    /\ m[z] = 0 /\ \A y \in x .. z - 1 : m[y] # 0
AuxEnd(m, x, z) ==
    /\ x <= z /\ x .. z + 1 \subseteq DOMAIN m /\ (z - x) % 2 = 0
    /\ m[z] = AT_NULL /\ \A y \in x .. z - 1 : (y - x) % 2 = 0 => m[y] # AT_NULL

\* z is the last cell of the object the pointer in word y leads to.
ObjectEnd(m, sp, y, z) ==
    IF y \in AuxValues(m, sp, {AT_RANDOM}) THEN z = m[y] + RANDOM_LEN - 1
                                           ELSE FirstZero(m, m[y], z)

\* What the stub relies on (System V ABI; the kernel's create_elf_tables): three
\* terminated tables, above them the objects, apart from each other, and a zero
\* above these; the interpreter is mapped below the stack; mm agrees.
AbiStack(s, v) ==
    LET m    == s.mem
        sp   == s.rsp
        ptrs == Pointers(m, sp, PivotKeys)
    IN
    /\ DOMAIN m = v.lo .. v.hi - 1 /\ \A x \in v.lo .. v.hi - 1 : m[x] \in Nat
    /\ sp \in v.lo .. v.hi - 1
    /\ \E argvEnd, envpEnd, auxEnd \in v.lo .. v.hi - 1 :
        /\ FirstZero(m, sp + 1, argvEnd)
        /\ FirstZero(m, argvEnd + 1, envpEnd)
        /\ AuxEnd(m, envpEnd + 1, auxEnd)
        /\ \A y \in ptrs : /\ m[y] > auxEnd + 1
                          /\ \E z \in m[y] .. v.hi - 2 : ObjectEnd(m, sp, y, z)
        /\ DOMAIN s.mm.saved_auxv = 1 .. auxEnd + 1 - envpEnd
        /\ \A i \in 1 .. auxEnd + 1 - envpEnd : s.mm.saved_auxv[i] = m[envpEnd + i]
        /\ argvEnd > sp + 1 => s.mm.arg_start = m[sp + 1]
        /\ envpEnd > argvEnd + 1 => s.mm.env_start = m[argvEnd + 1]
        /\ auxEnd + 1 < s.mm.arg_start
    /\ \A y, z \in ptrs : \/ y = z
                          \/ \E e \in DOMAIN m : ObjectEnd(m, sp, y, e) /\ e < m[z]
                          \/ \E e \in DOMAIN m : ObjectEnd(m, sp, z, e) /\ e < m[y]
    /\ \A y \in Pointers(m, sp, StubKeys) : \E z \in ptrs : m[y] <= m[z]
    /\ s.mm.arg_start \in Nat /\ s.mm.arg_end \in s.mm.arg_start .. s.mm.env_end
    /\ \E y \in ptrs : s.mm.env_end = m[y]

ASSUME StartupConstants ==
    /\ {STACK_SIZE, ADR_HINT, RANDOM_LEN} \subseteq Nat \ {0}
    /\ \A V \in Maps : \A v \in V : v.use = "stack" =>
            \A a \in Args : AbiStack(Execve(a, v), v)

\* mmap of the new stack.  Its result is only compared with 0: after an error
\* the stub goes on with -ENOMEM as an address.
Mmap ==
    /\ pc = "entry"
    /\ \/ /\ \E a \in Places(ADR_HINT, STACK_SIZE) :
                /\ area' = a
                /\ vmas' = vmas \cup {Vma(a, a + STACK_SIZE, "new_stack")}
                /\ mem' = [x \in DOMAIN mem \cup (a .. a + STACK_SIZE - 1) |->
                                IF x \in DOMAIN mem THEN mem[x] ELSE 0]
          /\ pc' = "relocate"
       \/ /\ MayFail \/ Places(ADR_HINT, STACK_SIZE) = {}
          /\ pc' = "wild"
          /\ UNCHANGED <<area, vmas, mem>>
    /\ UNCHANGED <<maps0, scanVars, list, target, jumped, rsp, sp0, mem0, mm>>

\* Scan, copy to the upper end of the area, patch, switch.  The three words
\* below the new rsp hold the argument of the ioctl.
Relocate ==
    LET n   == Length(mem, rsp)
        dst == RoundDown(area + STACK_SIZE - n, ALIGN)
        moved == [x \in DOMAIN mem |->
                    IF x \in dst .. dst + n - 1 THEN mem[(x - dst) + rsp] ELSE mem[x]]
        inside == dst - 3 >= area
    IN
    /\ pc = "relocate"
    /\ \/ /\ inside
          /\ mem' = Patch(moved, dst, dst - rsp)
          /\ rsp' = dst
          /\ pc' = "open"
       \/ /\ ~inside
          /\ pc' = "wild"
          /\ UNCHANGED <<mem, rsp>>
    /\ UNCHANGED <<vmas, maps0, scanVars, list, target, jumped, sp0, mem0, area, mm>>

\* open() of the device.
OpenDevice ==
    /\ pc = "open"
    /\ \/ pc' = "pivot"
       \/ MayFail /\ Exit
    /\ UNCHANGED <<vmas, maps0, scanVars, list, target, jumped, stubVars>>

-----------------------------------------------------------------------------
(***************************************************************************)
(* sa_pivot.                                                               *)
(***************************************************************************)

NoVma == Vma(0, 0, "none")

\* find_vma: the lowest vma that ends above x.
find_vma(V, x) ==
    LET above == {v \in V : v.hi > x} IN
    IF above = {} THEN NoVma ELSE CHOOSE v \in above : \A w \in above : v.hi <= w.hi

Holds(v, x) == v # NoVma /\ v.lo <= x

\* Mutant: the argument range is left behind.
MovedAuxOnly(new, delta) ==
    [mm EXCEPT !.start_stack = new.lo,
               !.saved_auxv = [i \in DOMAIN mm.saved_auxv |->
                    IF i % 2 = 0 /\ mm.saved_auxv[i - 1] \in PivotKeys
                    THEN mm.saved_auxv[i] + delta ELSE mm.saved_auxv[i]]]

\* The fields of mm after a successful pivot by delta.
Moved(new, delta) ==
    [start_stack |-> new.lo,
     arg_start |-> mm.arg_start + delta, arg_end |-> mm.arg_end + delta,
     env_start |-> mm.env_start + delta, env_end |-> mm.env_end + delta,
     saved_auxv |-> [i \in DOMAIN mm.saved_auxv |->
                        IF i % 2 = 0 /\ mm.saved_auxv[i - 1] \in PivotKeys
                        THEN mm.saved_auxv[i] + delta ELSE mm.saved_auxv[i]]]

\* Mutant: the area of the new stack pointer is unmapped.
UnmappedNew(old, new) == new

\* After the lock is released the old area goes, whatever the result was.
Unmapped(old, new) == old

\* IOCTL_SHADOW_PIVOT: its error field, -1 after success too, is not read.  With
\* no area found, NULL is followed.
SaPivot ==
    LET old  == find_vma(vmas, sp0)
        new  == find_vma(vmas, rsp)
        gone == Unmapped(old, new)
    IN
    /\ pc = "pivot"
    /\ mm' = IF Holds(old, sp0) /\ Holds(new, rsp) THEN Moved(new, rsp - sp0) ELSE mm
    /\ vmas' = Without(vmas, gone.lo, gone.hi)
    /\ mem' = [x \in DOMAIN mem \ (gone.lo .. gone.hi - 1) |-> mem[x]]
    /\ pc' = IF gone = NoVma THEN "wild" ELSE "start"
    /\ UNCHANGED <<maps0, scanVars, list, target, jumped, rsp, sp0, mem0, area>>

Next ==
    \/ PlaceNext /\ UNCHANGED stubVars
    \/ Mmap \/ Relocate \/ OpenDevice \/ SaPivot

Spec == Init /\ [][Next]_vars

-----------------------------------------------------------------------------
(***************************************************************************)
(* Properties.                                                             *)
(***************************************************************************)
NewStack == area .. area + STACK_SIZE - 1

\* The MAP_FIXED reservations and the munmap of sa_pivot hit nothing they were
\* not meant for: of the mappings a process starts with it loses none, but for
\* the old stack, and that one only at the pivot.
NothingClobbered ==
    maps0 \ vmas = IF pc = "start" THEN {v \in maps0 : v.use = "stack"} ELSE {}

\* The target is free, has the size asked for, lies above BASE, and no other
\* free place for it lies higher.
TargetBest ==
    /\ BASE <= target.lo /\ target.hi <= CEIL
    /\ target.hi - target.lo = MEM_SIZE
    /\ Free(target.lo, target.hi)
    /\ \A x \in BASE .. CEIL - MEM_SIZE :
            (\A v \in maps0 : ~Overlap(v, x, x + MEM_SIZE)) => x < target.lo + ALIGN

\* Nothing between BASE and TASK_SIZE is free but the gap of the target.
AllReserved ==
    \A x \in BASE .. TASK_SIZE - 1 :
        Free(x, x + 1) => Free(Min({x, target.lo}), Max({x, target.lo}) + 1)

\* setup_memory chooses the best place for the pool, and when it returns 0 every
\* other gap has been reserved.
SetupMemory ==
    ~jumped => /\ pc \in {"reserve", "pool"} => TargetBest
               /\ pc = "pool" => AllReserved

\* setup_memory succeeds only with the gap under CEIL: when it picks a lower
\* one, reserve_all has to reserve that gap, and its MAP_FIXED reaches past
\* TASK_SIZE.  The target then reaches past TASK_SIZE too, but by less than a
\* page: mmap rounds MemPoolInit's hint down, finds that range free, and the
\* pool lies right below TASK_SIZE.
TopGapOnly ==
    /\ pc = "pool" /\ ~jumped => target.hi > TASK_SIZE
    /\ \A v \in vmas : v.use = "pool" /\ ~jumped => v.hi = TASK_SIZE

\* The copy, which takes one byte more than the end of the highest object, stays
\* inside the old stack, and it leaves the new one only when mmap had failed or
\* the arguments do not fit.
CopyInside ==
    /\ pc = "relocate" => sp0 + Length(mem, sp0) - 1 \in DOMAIN mem0
    /\ pc = "wild" => area = 0 \/ Length(mem0, sp0) + ALIGN + 2 > STACK_SIZE

\* _start finds the stack execve left, at another place: the tables are equal
\* word by word, except that every pointer to a string or to the random bytes
\* leads to an equal object inside the new stack.  (AT_BASE, which the stub
\* moves too although it is no stack address, is not claimed.)
Relocated ==
    pc \in {"open", "pivot", "start"} =>
        LET delta == rsp - sp0
            ptrs  == Pointers(mem0, sp0, PivotKeys)
            tops  == Min({mem0[y] : y \in ptrs})
            base  == AuxValues(mem0, sp0, {AT_BASE})
            random == AuxValues(mem0, sp0, {AT_RANDOM})
            len(y) == IF y \in random THEN RANDOM_LEN
                      ELSE ZeroFrom(mem0, mem0[y]) - mem0[y] + 1
        IN /\ \A y \in ptrs : \A i \in 0 .. len(y) - 1 :
                /\ mem[y + delta] + i \in NewStack
                /\ mem[mem[y + delta] + i] = mem0[mem0[y] + i]
           /\ \A y \in (sp0 .. tops - 1) \ (ptrs \cup base) : mem[y + delta] = mem0[y]

\* The kernel's picture of the process agrees with the stack it runs on: stub
\* and sa_pivot, each with its own list of auxv keys, leave the same values
\* (AT_BASE apart), and the argument and environment ranges of mm start at the
\* first strings of argv and envp.
KernelView ==
    pc = "start" =>
        LET argvEnd == ArgvEnd(mem, rsp)
            envpEnd == EnvpEnd(mem, rsp)
        IN /\ \A i \in DOMAIN mm.saved_auxv :
                i % 2 = 1 \/ mm.saved_auxv[i - 1] # AT_BASE
                    => mm.saved_auxv[i] = mem[envpEnd + i]
           /\ argvEnd > rsp + 1 => mm.arg_start = mem[rsp + 1]
           /\ envpEnd > argvEnd + 1 => mm.env_start = mem[argvEnd + 1]
           /\ mm.arg_start <= mm.arg_end /\ mm.arg_end <= mm.env_end
           /\ {mm.start_stack, mm.arg_start, mm.env_end} \subseteq NewStack
=============================================================================
