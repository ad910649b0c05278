------------------------------- MODULE PageWalk -------------------------------
(***************************************************************************)
(* The page-table walks of the kernel module: map_range, which enters the  *)
(* pages of an area, and __free_pgd_range, which alloc_destroy_callback    *)
(* calls for a process (lkm/core/api.c, with shadow_open and               *)
(* shadow_release creating and destroying allocators as in ShadowArea).    *)
(*                                                                         *)
(* Four levels of tables: the p4d is folded into the pgd, whose entries    *)
(* are what p4d_none and p4d_clear look at.  An entry is named by its      *)
(* level and its number, counted over all tables of the level, so that     *)
(* consecutive numbers are consecutive in memory.  Addresses are words of  *)
(* WORD values, of which the tables cover the lower half, for user space,  *)
(* and the upper: the one at address a is at position a % SPAN.            *)
(***************************************************************************)
EXTENDS Integers, FiniteSets

CONSTANTS
    PMD_SIZE, PUD_SIZE, P4D_SIZE,   \* pages under an entry of a level
    PTRS_PER_PGD,
    WORD,                           \* number of addresses, those no table covers included
    SS_START, SS_SIZE, AREAS,       \* the areas, in positions
    Others                          \* positions of other pages, of user space or the kernel

SPAN == PTRS_PER_PGD * P4D_SIZE

Area(i) == SS_START + i * SS_SIZE .. SS_START + (i + 1) * SS_SIZE - 1

VARIABLES
    p4d, pud, pmd, pte,     \* the entries present, of each level
    pc,                     \* "run", "walk" or "crash"
    addr, pgd,              \* of the walk: the address, and the entry pgd points to
    before                  \* ghost: the pages mapped when the walk began

vars == <<p4d, pud, pmd, pte, pc, addr, pgd, before>>

\* my_p4d_alloc, my_pud_alloc, my_pmd_alloc and my_pte_alloc on the way to the
\* positions in S: an entry that is there stays, one that is not is made.
Alloc(entries, S, size) == entries \cup {x \div size : x \in S}

\* A page is mapped when every level leads to it.
Mapped == {x \in pte : /\ x \div PMD_SIZE \in pmd
                       /\ x \div PUD_SIZE \in pud
                       /\ x \div P4D_SIZE \in p4d}

Init ==
    /\ p4d = Alloc({}, Others, P4D_SIZE)
    /\ pud = Alloc({}, Others, PUD_SIZE)
    /\ pmd = Alloc({}, Others, PMD_SIZE)
    /\ pte = Others
    /\ pc = "run" /\ addr = 0 /\ pgd = 0 /\ before = {}

\* map_range for area i: the pages are entered in order, pmd by pmd.  A table
\* that cannot be allocated ends it; the upper levels on the way to that table,
\* and what has been entered, stay.
MapRange(i) ==
    \E n \in {k \in 0 .. SS_SIZE : k % PMD_SIZE = 0} :
        LET start == SS_START + i * SS_SIZE
            done == start .. start + n - 1
            tried == {start + n} \cap Area(i)
        IN
        /\ pc = "run"
        /\ pmd' = Alloc(pmd, done, PMD_SIZE)
        /\ pte' = pte \cup done
        /\ \/ /\ pud' = Alloc(pud, done \cup tried, PUD_SIZE)
              /\ p4d' = Alloc(p4d, done \cup tried, P4D_SIZE)
           \/ /\ pud' = Alloc(pud, done, PUD_SIZE)
              /\ \E S \in {{}, tried} : p4d' = Alloc(p4d, done \cup S, P4D_SIZE)
        /\ UNCHANGED <<pc, addr, pgd, before>>

-----------------------------------------------------------------------------
(***************************************************************************)
(* __free_pgd_range, with floor and ceiling 0 as in its only call: every   *)
(* entry below which a range has been walked is cleared.                   *)
(***************************************************************************)

\* p4d_addr_end and the like: the next border, or end if that comes first.
AddrEnd(a, end, size) ==
    LET boundary == ((a \div size + 1) * size) % WORD
    IN IF (boundary - 1) % WORD < (end - 1) % WORD THEN boundary ELSE end

\* alloc_destroy_callback: __free_pgd_range(tlb, 0, 0, 0, 0).  Neither early
\* return applies, since end - 1 is the largest word.
FreePgdRange ==
    /\ pc = "run"
    /\ pc' = "walk"
    /\ addr' = 0 /\ pgd' = 0
    /\ before' = Mapped
    /\ UNCHANGED <<p4d, pud, pmd, pte>>

\* free_pud_range: its loop ends after one round (addr != next), so it descends
\* into the first entry only; then the entry above is cleared.
FreePudRange ==
    LET first == (pgd * P4D_SIZE) \div PUD_SIZE
        below == {m \in pmd : (m * PMD_SIZE) \div PUD_SIZE = first}
    IN
    /\ IF first \in pud
       THEN pmd' = pmd \ below /\ pud' = pud \ {first}
       ELSE UNCHANGED <<pmd, pud>>
    /\ p4d' = p4d \ {pgd}
    /\ UNCHANGED pte

\* One round of the loop of __free_pgd_range, where pgd advances by an entry.
\* Past the end of the table it reads whatever lies there: it looks empty, or
\* it is followed.
Round ==
    /\ pc = "walk"
    /\ addr' = AddrEnd(addr, 0, P4D_SIZE)
    /\ pgd' = pgd + 1
    /\ \/ /\ pgd \in p4d
          /\ FreePudRange
          /\ pc' = IF addr' = 0 THEN "run" ELSE "walk"
       \/ /\ pgd \notin p4d
          /\ pc' = IF addr' = 0 THEN "run" ELSE "walk"
          /\ UNCHANGED <<p4d, pud, pmd, pte>>
       \/ /\ pgd >= PTRS_PER_PGD
          /\ pc' = "crash"
          /\ UNCHANGED <<p4d, pud, pmd, pte>>
    /\ UNCHANGED before

Next == (\E i \in 0 .. AREAS - 1 : MapRange(i)) \/ FreePgdRange \/ Round

Spec == Init /\ [][Next]_vars

-----------------------------------------------------------------------------
\* __free_pgd_range "Unmaps and frees page tables in the range [addr, end)": the
\* pages mapped outside the range, here the empty one [0, 0), stay mapped.
RangeOnly == pc = "walk" => before \subseteq Mapped
===============================================================================
