---------------------------- MODULE StartupProofs ----------------------------
(***************************************************************************)
(* The start of a process for every address space, every size and every    *)
(* initial stack: what setup_memory chooses and reserves, and that the stub*)
(* and sa_pivot move the stack without loss.                               *)
(*                                                                         *)
(* Two inductive invariants.  ClobberInv is about the mappings: those the  *)
(* process started with are kept, the list holds exactly the gaps between  *)
(* the lines read so far (ListInv, LinesInv), and the target lies at the   *)
(* upper end of the highest gap that is large enough (ChooseInv, TargetInv,*)
(* TargetGap).  CopyInv is about the contents: the old stack is as execve  *)
(* left it (EntryInv), and after Relocate the new one holds its words,     *)
(* moved (MemInv).  What execve is assumed to leave is AbiStack, a part of *)
(* StartupConstants.                                                       *)
(***************************************************************************)
EXTENDS Startup, SequenceTheorems, WellFoundedInduction, TLAPS

-----------------------------------------------------------------------------
(***************************************************************************)
(* Arithmetic of pages and alignment.                                      *)
(***************************************************************************)

\* Products grow with a factor.
LEMMA TimesMono ==
    ASSUME NEW n \in Nat \ {0}, NEW a \in Int, NEW b \in Int, a < b
    PROVE  n * a + n <= n * b
<1>1. n * b - n * a = n * (b - a)
  OBVIOUS
<1>2. n * (b - a) >= n
  <2>1. b - a \in Nat /\ b - a >= 1
    OBVIOUS
  <2> HIDE <1>1
  <2> QED
    BY <2>1
<1>3. n * a \in Int /\ n * b \in Int
  OBVIOUS
<1> QED
  BY <1>1, <1>2, <1>3

\* Division with remainder.
LEMMA DivMod ==
    ASSUME NEW n \in Nat \ {0}, NEW x \in Int
    PROVE  /\ x \div n \in Int /\ x % n \in 0 .. n - 1
           /\ x = n * (x \div n) + (x % n)
OBVIOUS

\* Rounding down to a multiple of n.
LEMMA RoundDownBounds ==
    ASSUME NEW n \in Nat \ {0}, NEW x \in Int
    PROVE  RoundDown(x, n) \in Int /\ RoundDown(x, n) <= x /\ x < RoundDown(x, n) + n
BY DivMod DEF RoundDown

\* A multiple of n is n times something, and the other way round.
LEMMA Multiple ==
    ASSUME NEW n \in Nat \ {0}, NEW x \in Int
    PROVE  x % n = 0 <=> \E k \in Int : x = n * k
<1>1. x % n = 0 => x = n * (x \div n)
  BY DivMod
<1>2. ASSUME NEW k \in Int, x = n * k
      PROVE  x % n = 0
  <2> DEFINE q == x \div n
             r == x % n
  <2>1. q \in Int /\ r \in 0 .. n - 1 /\ n * k = n * q + r
    BY <1>2, DivMod
  <2> HIDE DEF q, r
  <2>2. n * k \in Int /\ n * q \in Int
    BY <2>1
  <2>3. ~(q < k)
    <3> SUFFICES ASSUME q < k PROVE FALSE
      OBVIOUS
    <3>1. n * q + n <= n * k
      BY <2>1, TimesMono
    <3> QED
      BY <2>1, <2>2, <3>1
  <2>4. ~(k < q)
    <3> SUFFICES ASSUME k < q PROVE FALSE
      OBVIOUS
    <3>1. n * k + n <= n * q
      BY <2>1, TimesMono
    <3> QED
      BY <2>1, <2>2, <3>1
  <2>5. k = q
    BY <2>1, <2>3, <2>4
  <2> QED
    BY <2>1, <2>2, <2>5 DEF r
<1>3. x \div n \in Int
  BY DivMod
<1> QED
  BY <1>1, <1>2, <1>3

\* Sums and differences of multiples.
LEMMA MultipleSum ==
    ASSUME NEW n \in Nat \ {0}, NEW x \in Int, NEW y \in Int, x % n = 0, y % n = 0
    PROVE  (x + y) % n = 0 /\ (x - y) % n = 0
<1>1. PICK i \in Int : x = n * i
  BY Multiple
<1>2. PICK j \in Int : y = n * j
  BY Multiple
<1>3. x + y = n * (i + j) /\ x - y = n * (i - j)
  BY <1>1, <1>2
<1>4. i + j \in Int /\ i - j \in Int /\ x + y \in Int /\ x - y \in Int
  OBVIOUS
<1> QED
  BY <1>3, <1>4, Multiple

\* Multiples of a multiple.
LEMMA MultipleTrans ==
    ASSUME NEW n \in Nat \ {0}, NEW p \in Nat \ {0}, NEW x \in Int, x % p = 0, p % n = 0
    PROVE  x % n = 0
<1>1. PICK i \in Int : x = p * i
  BY Multiple
<1>2. PICK j \in Int : p = n * j
  BY Multiple
<1>3. x = n * (j * i)
  BY <1>1, <1>2
<1>4. j * i \in Int
  OBVIOUS
<1> QED
  BY <1>3, <1>4, Multiple

\* Rounding down finds the multiple below.
LEMMA RoundDownIs ==
    ASSUME NEW n \in Nat \ {0}, NEW x \in Int, NEW m \in Int, m % n = 0, m <= x, x < m + n
    PROVE  RoundDown(x, n) = m
<1>1. PICK k \in Int : m = n * k
  BY Multiple
<1> DEFINE q == x \div n
           r == x % n
<1>2. q \in Int /\ r \in 0 .. n - 1 /\ x = n * q + r
  BY DivMod
<1> HIDE DEF q, r
<1>3. n * k \in Int /\ n * q \in Int
  BY <1>2
<1>4. ~(q < k)
  <2> SUFFICES ASSUME q < k PROVE FALSE
    OBVIOUS
  <2>1. n * q + n <= n * k
    BY <1>2, TimesMono
  <2> QED
    BY <1>1, <1>2, <1>3, <2>1
<1>5. ~(k < q)
  <2> SUFFICES ASSUME k < q PROVE FALSE
    OBVIOUS
  <2>1. n * k + n <= n * q
    BY <1>2, TimesMono
  <2> QED
    BY <1>1, <1>2, <1>3, <2>1
<1>6. k = q
  BY <1>2, <1>4, <1>5
<1> QED
  BY <1>1, <1>6 DEF RoundDown, q

\* Rounding up leaves multiples alone and never goes down.
LEMMA RoundUpIs ==
    ASSUME NEW n \in Nat \ {0}, NEW x \in Int
    PROVE  /\ RoundUp(x, n) \in Int /\ RoundUp(x, n) >= x
           /\ x % n = 0 => RoundUp(x, n) = x
<1>1. x + n - 1 \in Int /\ x <= x + n - 1 /\ x + n - 1 < x + n
  OBVIOUS
<1>2. RoundDown(x + n - 1, n) \in Int /\ x + n - 1 < RoundDown(x + n - 1, n) + n
  BY <1>1, RoundDownBounds
<1>3. x % n = 0 => RoundDown(x + n - 1, n) = x
  BY <1>1, RoundDownIs
<1> QED
  BY <1>2, <1>3 DEF RoundUp

-----------------------------------------------------------------------------
(***************************************************************************)
(* The invariant of setup_memory.                                          *)
(***************************************************************************)

Gaps == [lo : BASE .. CEIL, hi : BASE .. CEIL]

Inside(x, g) == g.lo <= x /\ x < g.hi

\* Mappings are ranges apart from each other.
VmaInv ==
    /\ \A v \in vmas : /\ v.lo \in Nat /\ v.hi \in Nat
                       /\ 0 < v.lo /\ v.lo < v.hi /\ v.hi <= TASK_SIZE
    /\ \A v, w \in vmas : v = w \/ v.hi <= w.lo \/ w.hi <= v.lo

\* The pool, once mapped, ends at TASK_SIZE.
PoolInv ==
    \A v \in vmas : v.use = "pool" /\ ~jumped => v.hi = TASK_SIZE

\* A gap is free, starts at a page, and ends at a mapping or at CEIL.
GapOK(g) ==
    /\ g \in Gaps /\ g.lo < g.hi /\ g.lo % PAGE = 0
    /\ g.hi = CEIL \/ (g.hi % PAGE = 0 /\ \E v \in maps0 : v.lo = g.hi)
    /\ Free(g.lo, g.hi)

\* The list holds gaps in descending order.
ListInv ==
    /\ list \in Seq(Gaps)
    /\ \A i \in DOMAIN list : GapOK(list[i])
    /\ \A i, j \in DOMAIN list : i < j => list[j].hi <= list[i].lo

\* Address x is mapped or in a gap of the list.
Covered(x) == (\E v \in vmas : Inside(x, v)) \/ (\E i \in DOMAIN list : Inside(x, list[i]))

\* What has been read ends at prev_hi, and all below is mapped or listed.
LinesInv ==
    /\ unread \subseteq maps0 \cup {Vsyscall}
    /\ prev_hi \in BASE .. TASK_SIZE /\ prev_hi % PAGE = 0
    /\ \A v \in maps0 \ unread : v.hi <= prev_hi
    /\ \A i \in DOMAIN list : list[i].hi <= prev_hi
    /\ \A x \in BASE .. prev_hi - 1 : Covered(x)

\* The list is complete, with the gap under CEIL in front.
ChooseInv ==
    /\ list # <<>> /\ list[1].hi = CEIL
    /\ \A x \in BASE .. CEIL - 1 : Covered(x)

\* The target has the size asked for, and no free place lies higher.
TargetInv ==
    /\ target.lo \in BASE .. CEIL /\ target.hi \in BASE .. CEIL
    /\ target.hi - target.lo = MEM_SIZE
    /\ \A x \in BASE .. CEIL - MEM_SIZE :
            (\A v \in maps0 : ~Overlap(v, x, x + MEM_SIZE)) => x < target.lo + ALIGN

\* g is the gap of the target: all but g is mapped or still listed, the gap under
\* CEIL included.
TargetGap(g) ==
    /\ g.lo % PAGE = 0 /\ g.lo <= target.lo /\ target.hi <= g.hi
    /\ target.hi = RoundDown(g.hi, ALIGN)
    /\ Free(g.lo, g.hi)
    /\ \A i \in DOMAIN list : list[i] = g \/ list[i].hi <= g.lo \/ g.hi <= list[i].lo
    /\ \A x \in BASE .. TASK_SIZE - 1 : Covered(x) \/ Inside(x, g)
    /\ g.hi = CEIL \/ \E i \in DOMAIN list : list[i].hi = CEIL

\* The page of the hint is MEM_SIZE below TASK_SIZE, and what is above it is free.
PoolHint ==
    /\ target.hi > TASK_SIZE /\ MEM_SIZE < TASK_SIZE
    /\ RoundDown(target.lo, PAGE) = TASK_SIZE - MEM_SIZE
    /\ Free(TASK_SIZE - MEM_SIZE, TASK_SIZE)

PlaceInv ==
    /\ maps0 \in Maps /\ target.lo \in Nat /\ sp0 \in Nat
    /\ VmaInv /\ PoolInv
    /\ pc \in {"maps", "lines", "choose", "reserve"} => ~jumped /\ ListInv
    /\ pc \in {"maps", "lines", "choose"} => vmas = maps0
    /\ pc = "maps" => list = <<>>
    /\ pc = "lines" => LinesInv
    /\ pc = "choose" => ChooseInv
    /\ pc = "reserve" => TargetInv /\ \E g \in Gaps : TargetGap(g)
    /\ pc = "pool" /\ ~jumped => PoolHint
    /\ \E s \in maps0 : s.use = "stack" /\ Inside(sp0, s)

ClobberInv == PlaceInv /\ NothingClobbered /\ SetupMemory

-----------------------------------------------------------------------------
(***************************************************************************)
(* Facts about the constants, mappings and gaps.                           *)
(***************************************************************************)

\* The sizes and bounds are whole numbers of pages, CEIL is one less than one.
LEMMA Sizes ==
    /\ PAGE \in Nat \ {0} /\ ALIGN \in Nat \ {0} /\ TASK_SIZE \in Nat \ {0}
    /\ BASE \in Nat \ {0} /\ MEM_SIZE \in Nat \ {0} /\ MayFail \in BOOLEAN
    /\ ALIGN < PAGE /\ BASE < TASK_SIZE
    /\ CEIL \in Nat /\ CEIL = TASK_SIZE + PAGE - 1 /\ TASK_SIZE < CEIL
    /\ PAGE % ALIGN = 0 /\ TASK_SIZE % PAGE = 0 /\ BASE % PAGE = 0 /\ MEM_SIZE % PAGE = 0
<1>1. {PAGE, ALIGN, TASK_SIZE, BASE, MEM_SIZE} \subseteq Nat \ {0} /\ MayFail \in BOOLEAN
  BY PlacementConstants
<1>2. ALIGN < PAGE /\ BASE < TASK_SIZE
  BY PlacementConstants
<1>3. PAGE % ALIGN = 0 /\ TASK_SIZE % PAGE = 0 /\ BASE % PAGE = 0 /\ MEM_SIZE % PAGE = 0
  BY PlacementConstants
<1> QED
  BY <1>1, <1>2, <1>3 DEF CEIL

\* The mappings a process may start with.
LEMMA MapsFacts ==
    ASSUME NEW V \in Maps
    PROVE  /\ \A v \in V : /\ v.lo \in Nat /\ v.hi \in Nat
                           /\ 0 < v.lo /\ v.lo < v.hi /\ v.hi <= TASK_SIZE
                           /\ v.lo % PAGE = 0 /\ v.hi % PAGE = 0
                           /\ v.use # "pool"
           /\ \A v, w \in V : v = w \/ v.hi <= w.lo \/ w.hi <= v.lo
           /\ \E s \in V : {v \in V : v.use = "stack"} = {s}
<1>1. \A v \in V : /\ v.hi \in 1 .. TASK_SIZE /\ v.lo \in 1 .. v.hi - 1
                   /\ v.lo % PAGE = 0 /\ v.hi % PAGE = 0
                   /\ v.use \in {"stack", "other"}
                   /\ \A w \in V \ {v} : v.hi <= w.lo \/ w.hi <= v.lo
  BY PlacementConstants
<1>2. \E s \in V : {v \in V : v.use = "stack"} = {s}
  BY PlacementConstants
<1> QED
  BY <1>1, <1>2, Sizes

\* The two ends of a record of mmap.
LEMMA VmaFields ==
    ASSUME NEW lo, NEW hi, NEW use
    PROVE  Vma(lo, hi, use).lo = lo /\ Vma(lo, hi, use).hi = hi /\ Vma(lo, hi, use).use = use
BY DEF Vma

\* A mapping of a free range keeps mappings apart.
LEMMA AddVma ==
    ASSUME VmaInv, NEW lo \in Nat, NEW hi \in Nat, NEW use,
           0 < lo, lo < hi, hi <= TASK_SIZE, Free(lo, hi),
           vmas' = vmas \cup {Vma(lo, hi, use)}
    PROVE  VmaInv'
<1> DEFINE n == Vma(lo, hi, use)
<1>1. n.lo = lo /\ n.hi = hi
  BY VmaFields
<1> HIDE DEF n
<1>2. \A v \in vmas : v.hi <= n.lo \/ n.hi <= v.lo
  BY <1>1 DEF Free, Overlap, VmaInv
<1>3. vmas' = vmas \cup {n}
  BY DEF n
<1>4. /\ \A v \in vmas : /\ v.lo \in Nat /\ v.hi \in Nat
                         /\ 0 < v.lo /\ v.lo < v.hi /\ v.hi <= TASK_SIZE
      /\ \A v, w \in vmas : v = w \/ v.hi <= w.lo \/ w.hi <= v.lo
  BY DEF VmaInv
<1>5. \A v \in vmas' : /\ v.lo \in Nat /\ v.hi \in Nat
                       /\ 0 < v.lo /\ v.lo < v.hi /\ v.hi <= TASK_SIZE
  BY <1>1, <1>3, <1>4
<1>6. \A v, w \in vmas' : v = w \/ v.hi <= w.lo \/ w.hi <= v.lo
  BY <1>2, <1>3, <1>4
<1> QED
  BY <1>5, <1>6 DEF VmaInv

\* mmap returns a free range below TASK_SIZE.
LEMMA PlacesFree ==
    ASSUME NEW hint \in Nat, NEW len \in Nat \ {0}, NEW a \in Places(hint, len)
    PROVE  a \in Nat /\ a > 0 /\ a + len <= TASK_SIZE /\ Free(a, a + len)
<1> DEFINE h == RoundDown(hint, PAGE)
<1>1. h \in Int
  <2>1. hint \in Int /\ PAGE \in Nat \ {0}
    BY Sizes
  <2> QED
    BY <2>1, RoundDownBounds
<1>2. \/ a = h /\ h > 0 /\ h + len <= TASK_SIZE /\ Free(h, h + len)
      \/ \E k \in 1 .. TASK_SIZE \div PAGE :
            a = PAGE * k /\ a + len <= TASK_SIZE /\ Free(a, a + len)
  BY DEF Places
<1> HIDE DEF h
<1>3. ASSUME NEW k \in 1 .. TASK_SIZE \div PAGE
      PROVE  PAGE * k \in Nat /\ PAGE * k > 0
  <2>1. k \in Nat /\ k > 0 /\ 0 < k
    BY <1>3, Sizes
  <2>2. PAGE * 0 + PAGE <= PAGE * k
    BY <2>1, Sizes, TimesMono
  <2> QED
    BY <2>1, <2>2, Sizes
<1> QED
  BY <1>1, <1>2, <1>3

\* The target of a gap that is large enough: its upper end, as large as asked for.
LEMMA TargetOf ==
    ASSUME NEW g \in Gaps, g.lo % PAGE = 0, g.hi = CEIL \/ g.hi % PAGE = 0, Fits(g)
    PROVE  /\ Target(g).lo \in Nat /\ Target(g).hi = RoundDown(g.hi, ALIGN)
           /\ g.lo <= Target(g).lo /\ Target(g).hi <= g.hi /\ Target(g).hi \in Nat
           /\ Target(g).hi - Target(g).lo = MEM_SIZE
           /\ g.hi - MEM_SIZE < Target(g).lo + ALIGN
<1>1. g.lo \in Nat /\ g.hi \in Nat /\ g.hi - g.lo >= MEM_SIZE
  BY Sizes DEF Gaps, Fits
<1> DEFINE lo == IF g.hi - g.lo > MEM_SIZE THEN g.hi - MEM_SIZE ELSE g.lo
<1>2. lo = g.hi - MEM_SIZE /\ lo \in Nat
  BY <1>1, Sizes
<1>3. Target(g).lo = RoundDown(lo, ALIGN) /\ Target(g).hi = RoundDown(g.hi, ALIGN)
  BY DEF Target
<1> HIDE DEF lo
<1>4. g.lo % ALIGN = 0 /\ MEM_SIZE % ALIGN = 0 /\ (TASK_SIZE + PAGE) % ALIGN = 0
  <2>1. /\ PAGE \in Nat \ {0} /\ ALIGN \in Nat \ {0} /\ PAGE % ALIGN = 0
        /\ TASK_SIZE \in Int /\ g.lo \in Int /\ MEM_SIZE \in Int /\ PAGE \in Int
        /\ TASK_SIZE % PAGE = 0 /\ MEM_SIZE % PAGE = 0 /\ g.lo % PAGE = 0
    BY <1>1, Sizes
  <2>2. TASK_SIZE % ALIGN = 0
    BY <2>1, MultipleTrans
  <2>3. g.lo % ALIGN = 0 /\ MEM_SIZE % ALIGN = 0
    BY <2>1, MultipleTrans
  <2>4. (TASK_SIZE + PAGE) % ALIGN = 0
    BY <2>1, <2>2, MultipleSum
  <2> QED
    BY <2>3, <2>4
<1>a. CASE g.hi = CEIL
  <2> DEFINE top == (TASK_SIZE + PAGE) - ALIGN
             bot == top - MEM_SIZE
  <2>1. top \in Int /\ bot \in Int /\ ALIGN % ALIGN = 0
    <3>1. ALIGN = ALIGN * 1 /\ 1 \in Int
      BY Sizes
    <3> QED
      BY <3>1, Sizes, Multiple
  <2>2. top % ALIGN = 0
    <3> DEFINE both == TASK_SIZE + PAGE
    <3>1. both \in Int /\ both % ALIGN = 0 /\ ALIGN \in Int /\ ALIGN \in Nat \ {0}
      BY <1>4, Sizes
    <3> HIDE DEF both
    <3>2. (both - ALIGN) % ALIGN = 0
      BY <2>1, <3>1, MultipleSum
    <3> QED
      BY <3>2 DEF both
  <2>3. bot % ALIGN = 0
    <3> HIDE DEF top
    <3> QED
      BY <1>4, <2>1, <2>2, Sizes, MultipleSum
  <2>4. top <= g.hi /\ g.hi < top + ALIGN /\ bot <= lo /\ lo < bot + ALIGN
    BY <1>a, <1>2, Sizes
  <2>5. RoundDown(g.hi, ALIGN) = top /\ RoundDown(lo, ALIGN) = bot
    <3>1. ALIGN \in Nat \ {0} /\ g.hi \in Int /\ lo \in Int
      BY <1>1, <1>2, Sizes
    <3> HIDE DEF top, bot
    <3>2. RoundDown(g.hi, ALIGN) = top
      BY <3>1, <2>1, <2>2, <2>4, RoundDownIs
    <3>3. RoundDown(lo, ALIGN) = bot
      BY <3>1, <2>1, <2>3, <2>4, RoundDownIs
    <3> QED
      BY <3>2, <3>3
  <2>6. g.lo <= bot
    <3> SUFFICES ASSUME bot < g.lo PROVE FALSE
      BY <1>1, <2>1
    <3>0. ALIGN \in Nat \ {0} /\ g.lo \in Int
      BY <1>1, Sizes
    <3>1. PICK i \in Int : g.lo = ALIGN * i
      BY <1>4, <3>0, Multiple
    <3>2. PICK j \in Int : bot = ALIGN * j
      BY <2>1, <2>3, Sizes, Multiple
    <3>3. j < i
      <4> SUFFICES ASSUME i <= j PROVE FALSE
        OBVIOUS
      <4>1. i = j \/ i < j
        OBVIOUS
      <4>2. i < j => ALIGN * i + ALIGN <= ALIGN * j
        BY Sizes, TimesMono
      <4> QED
        BY <4>1, <4>2, <3>1, <3>2, <1>1, <2>1, Sizes
    <3>4. ALIGN * j + ALIGN <= ALIGN * i
      BY <3>3, Sizes, TimesMono
    <3>5. g.lo <= lo
      BY <1>1, <1>2, Sizes
    <3> QED
      BY <3>1, <3>2, <3>4, <3>5, <2>4, <1>1, <1>2, <2>1, Sizes
  <2> QED
    BY <1>1, <1>2, <1>3, <2>1, <2>4, <2>5, <2>6, Sizes
<1>b. CASE g.hi % PAGE = 0
  <2>1. g.hi % ALIGN = 0
    BY <1>1, <1>b, Sizes, MultipleTrans
  <2>2. lo % ALIGN = 0
    BY <1>1, <1>2, <1>4, <2>1, Sizes, MultipleSum
  <2>3. RoundDown(g.hi, ALIGN) = g.hi /\ RoundDown(lo, ALIGN) = lo
    BY <1>1, <1>2, <2>1, <2>2, Sizes, RoundDownIs
  <2> QED
    BY <1>1, <1>2, <1>3, <2>3, Sizes
<1> QED
  BY <1>a, <1>b

\* Sequences of gaps: a gap put in front.
LEMMA PutInFront ==
    ASSUME NEW g \in Gaps, list \in Seq(Gaps), list' = <<g>> \o list
    PROVE  /\ list' \in Seq(Gaps) /\ Len(list') = Len(list) + 1 /\ list'[1] = g
           /\ DOMAIN list' = 1 .. Len(list) + 1 /\ DOMAIN list = 1 .. Len(list)
           /\ \A i \in DOMAIN list : i + 1 \in DOMAIN list' /\ list'[i + 1] = list[i]
           /\ \A i \in DOMAIN list' \ {1} : i - 1 \in DOMAIN list /\ list'[i] = list[i - 1]
<1>1. list' \in Seq(Gaps) /\ Len(list') = Len(list) + 1 /\ Len(list) \in Nat
  OBVIOUS
<1>2. \A i \in 1 .. Len(list') : list'[i] = IF i = 1 THEN g ELSE list[i - 1]
  OBVIOUS
<1> QED
  BY <1>1, <1>2

-----------------------------------------------------------------------------
(***************************************************************************)
(* setup_memory, step by step.                                             *)
(***************************************************************************)

\* A process that has just been started.
LEMMA PlaceFirst == Init => ClobberInv
<1> SUFFICES ASSUME Init PROVE ClobberInv
  OBVIOUS
<1>1. /\ pc = "maps" /\ maps0 \in Maps /\ vmas = maps0 /\ list = <<>>
      /\ target.lo = 0 /\ jumped = FALSE
  BY DEF Init, PlaceInit
<1>2. VmaInv /\ PoolInv
  BY <1>1, MapsFacts DEF VmaInv, PoolInv
<1>3. sp0 \in Nat /\ \E s \in maps0 : s.use = "stack" /\ Inside(sp0, s)
  <2>1. PICK a \in Args, v \in vmas : v.use = "stack" /\ rsp = Execve(a, v).rsp
    BY DEF Init
  <2>2. AbiStack(Execve(a, v), v)
    BY <1>1, <2>1, StartupConstants
  <2>3. rsp \in v.lo .. v.hi - 1 /\ sp0 = rsp
    BY <2>1, <2>2 DEF AbiStack, Init
  <2>4. sp0 \in Nat /\ Inside(sp0, v)
    BY <1>1, <2>3, MapsFacts DEF Inside
  <2> QED
    BY <1>1, <2>1, <2>4
<1>4. ListInv
  BY <1>1 DEF ListInv
<1>5. PlaceInv
  BY <1>1, <1>2, <1>3, <1>4 DEF PlaceInv
<1>6. NothingClobbered /\ SetupMemory
  BY <1>1 DEF NothingClobbered, SetupMemory
<1> QED
  BY <1>5, <1>6 DEF ClobberInv

\* What holds of the mappings stays true when they, the target and jumped stay.
LEMMA VmasStay ==
    ASSUME UNCHANGED <<vmas, maps0, target, jumped>>
    PROVE  /\ VmaInv => VmaInv'
           /\ PoolInv => PoolInv'
           /\ TargetBest' = TargetBest /\ AllReserved' = AllReserved
           /\ TargetInv => TargetInv'
           /\ \A lo, hi : Free(lo, hi)' = Free(lo, hi)
BY DEF VmaInv, PoolInv, TargetBest, AllReserved, TargetInv, Free, Overlap

\* A gap stays one as long as the mappings stay.
LEMMA GapsStay ==
    ASSUME UNCHANGED <<vmas, maps0>>, NEW g
    PROVE  GapOK(g) => GapOK(g)'
BY DEF GapOK, Free, Overlap

\* fopen.
LEMMA OpenMapsStep ==
    ASSUME ClobberInv, OpenMaps, sp0' = sp0
    PROVE  ClobberInv'
<1> USE DEF ClobberInv, PlaceInv
<1>1. /\ pc = "maps" /\ pc' = "lines" /\ unread' = vmas \cup {Vsyscall} /\ prev_hi' = BASE
      /\ UNCHANGED <<vmas, maps0, list, target, jumped>>
  BY DEF OpenMaps
<1>2. vmas = maps0 /\ list = <<>> /\ ~jumped
  BY <1>1
<1>3. VmaInv' /\ PoolInv'
  BY <1>1, VmasStay
<1>4. ListInv'
  BY <1>1, <1>2 DEF ListInv
<1>5. LinesInv'
  BY <1>1, <1>2, Sizes DEF LinesInv
<1>6. NothingClobbered' /\ SetupMemory'
  BY <1>1, <1>2 DEF NothingClobbered, SetupMemory
<1> QED
  BY <1>1, <1>2, <1>3, <1>4, <1>5, <1>6 DEF Inside

\* Address x is mapped or listed after a gap has been put in front, if it was
\* before or is in the new gap.
LEMMA CoverFront ==
    ASSUME NEW g \in Gaps, list \in Seq(Gaps), list' = <<g>> \o list, vmas' = vmas, NEW x,
           Covered(x) \/ Inside(x, g)
    PROVE  Covered(x)'
<1>1. /\ list'[1] = g /\ 1 \in DOMAIN list'
      /\ \A i \in DOMAIN list : i + 1 \in DOMAIN list' /\ list'[i + 1] = list[i]
  BY PutInFront
<1>a. CASE Inside(x, g)
  BY <1>a, <1>1 DEF Covered, Inside
<1>b. CASE \E v \in vmas : Inside(x, v)
  BY <1>b DEF Covered, Inside
<1>c. CASE \E i \in DOMAIN list : Inside(x, list[i])
  BY <1>c, <1>1 DEF Covered, Inside
<1> QED
  BY <1>a, <1>b, <1>c DEF Covered

\* insert_ma of a gap that is above all gaps of the list.
LEMMA InsertGap ==
    ASSUME ListInv, NEW g \in Gaps, GapOK(g), \A i \in DOMAIN list : list[i].hi <= g.lo,
           list' = <<g>> \o list, UNCHANGED <<vmas, maps0>>
    PROVE  ListInv'
<1>1. /\ list \in Seq(Gaps) /\ list' \in Seq(Gaps) /\ list'[1] = g
      /\ DOMAIN list' = 1 .. Len(list) + 1 /\ Len(list) \in Nat
      /\ \A i \in DOMAIN list' \ {1} : i - 1 \in DOMAIN list /\ list'[i] = list[i - 1]
  BY PutInFront DEF ListInv
<1>2. \A i \in DOMAIN list' : GapOK(list'[i])
  BY <1>1 DEF ListInv
<1>3. ASSUME NEW i \in DOMAIN list'
      PROVE  GapOK(list[i])'
  <2>1. GapOK(list'[i])
    BY <1>2
  <2> QED
    BY <2>1 DEF GapOK, Free, Overlap
<1>4. ASSUME NEW i \in DOMAIN list', NEW j \in DOMAIN list', i < j
      PROVE  list'[j].hi <= list'[i].lo
  <2>1. j # 1
    BY <1>1, <1>4
  <2>a. CASE i = 1
    BY <2>1, <2>a, <1>1
  <2>b. CASE i # 1
    <3>1. i - 1 \in DOMAIN list /\ j - 1 \in DOMAIN list /\ i - 1 < j - 1
      BY <2>1, <2>b, <1>1, <1>4
    <3> QED
      BY <2>1, <2>b, <3>1, <1>1 DEF ListInv
  <2> QED
    BY <2>a, <2>b
<1> QED
  BY <1>1, <1>3, <1>4 DEF ListInv

\* One line of /proc/self/maps.
LEMMA ReadLineStep ==
    ASSUME ClobberInv, NEW v \in unread, ReadLine(v), sp0' = sp0
    PROVE  ClobberInv'
<1> USE DEF ClobberInv, PlaceInv
<1>1. /\ pc = "lines" /\ pc' = "lines" /\ unread' = unread \ {v}
      /\ \A w \in unread : v.lo <= w.lo
      /\ UNCHANGED <<vmas, maps0, target, jumped>>
  BY DEF ReadLine, NextLine
<1>2. vmas = maps0 /\ ~jumped /\ ListInv /\ LinesInv /\ maps0 \in Maps
  BY <1>1
<1>3. VmaInv' /\ PoolInv'
  BY <1>1, VmasStay
<1>4. NothingClobbered' /\ SetupMemory'
  BY <1>1, <1>2 DEF NothingClobbered, SetupMemory
<1>5. /\ unread \subseteq maps0 \cup {Vsyscall}
      /\ prev_hi \in Nat /\ BASE <= prev_hi /\ prev_hi <= TASK_SIZE /\ prev_hi % PAGE = 0
      /\ \A w \in maps0 \ unread : w.hi <= prev_hi
      /\ \A i \in DOMAIN list : list[i].hi <= prev_hi
      /\ \A x \in BASE .. prev_hi - 1 : Covered(x)
  BY <1>2, Sizes DEF LinesInv
<1>6. Vsyscall.lo \in Nat /\ Vsyscall.lo > CEIL /\ CEIL \in Nat
  BY Sizes, VmaFields DEF Vsyscall
<1>7. \A w \in maps0 : /\ w.lo \in Nat /\ w.hi \in Nat /\ w.lo < w.hi /\ w.hi <= TASK_SIZE
                       /\ w.lo <= CEIL /\ w.lo % PAGE = 0 /\ w.hi % PAGE = 0
  <2>1. \A w \in maps0 : /\ w.lo \in Nat /\ w.hi \in Nat /\ w.lo < w.hi /\ w.hi <= TASK_SIZE
                         /\ w.lo % PAGE = 0 /\ w.hi % PAGE = 0
    BY <1>2, MapsFacts
  <2>2. TASK_SIZE \in Nat /\ CEIL \in Nat /\ TASK_SIZE < CEIL
    BY Sizes
  <2> QED
    BY <2>1, <2>2
<1>8. ListInv' /\ LinesInv'
  <2>a. CASE ~(v.lo <= CEIL)
    <3>1. UNCHANGED <<list, prev_hi>> /\ v \notin maps0
      BY <2>a, <1>7 DEF ReadLine
    <3>2. ListInv'
      BY <3>1, <1>1, <1>2, GapsStay DEF ListInv
    <3>3. maps0 \ unread' = maps0 \ unread
      BY <3>1, <1>1
    <3>4. LinesInv'
      BY <3>1, <3>3, <1>1, <1>2 DEF LinesInv, Covered, Inside
    <3> QED
      BY <3>2, <3>4
  <2>b. CASE v.lo <= CEIL
    <3>1. v \in maps0
      BY <2>b, <1>5, <1>6
    <3>2. /\ v.lo \in Nat /\ v.hi \in Nat /\ v.lo < v.hi /\ v.hi <= TASK_SIZE
          /\ v.lo % PAGE = 0 /\ v.hi % PAGE = 0
      BY <3>1, <1>7
    <3>3. /\ prev_hi' = IF v.hi > prev_hi THEN v.hi ELSE prev_hi
          /\ IF v.lo > prev_hi THEN list' = <<[lo |-> prev_hi, hi |-> v.lo]>> \o list
                               ELSE list' = list
      BY <2>b DEF ReadLine, insert_ma
    <3>0. PICK h \in Nat : h = IF v.hi > prev_hi THEN v.hi ELSE prev_hi
      BY <3>2, <1>5
    <3>4. /\ h = prev_hi' /\ h \in BASE .. TASK_SIZE /\ h % PAGE = 0
          /\ prev_hi <= h /\ v.hi <= h
      BY <3>0, <3>2, <3>3, <1>5, Sizes
    <3>5. \A w \in maps0 \ unread' : w.hi <= h
      BY <3>1, <3>4, <1>1, <1>5, <1>7, Sizes
    <3>6. unread' \subseteq maps0 \cup {Vsyscall}
      BY <1>1, <1>5
    <3>c. CASE v.lo > prev_hi
      <4> DEFINE g == [lo |-> prev_hi, hi |-> v.lo]
      <4>1. g \in Gaps /\ g.lo = prev_hi /\ g.hi = v.lo
        <5>1. BASE \in Nat /\ CEIL \in Nat /\ TASK_SIZE \in Nat /\ TASK_SIZE < CEIL
          BY Sizes
        <5>2. prev_hi \in BASE .. CEIL /\ v.lo \in BASE .. CEIL
          BY <5>1, <3>2, <3>c, <1>5
        <5> QED
          BY <5>2 DEF Gaps
      <4>2. list' = <<g>> \o list
        BY <3>3, <3>c
      <4> HIDE DEF g
      <4>3. Free(g.lo, g.hi)
        <5> SUFFICES ASSUME NEW w \in maps0 PROVE ~Overlap(w, g.lo, g.hi)
          BY <1>2 DEF Free
        <5>1. w \notin unread => w.hi <= g.lo
          BY <4>1, <1>5
        <5>2. w \in unread => g.hi <= w.lo
          BY <4>1, <1>1
        <5> QED
          BY <5>1, <5>2, <4>1, <1>5, <1>7, <3>2 DEF Overlap
      <4>4. GapOK(g)
        BY <4>1, <4>3, <3>1, <3>2, <3>c, <1>5 DEF GapOK
      <4>5. ListInv'
        BY <4>1, <4>2, <4>4, <1>1, <1>2, <1>5, InsertGap
      <4>6. \A i \in DOMAIN list' : list'[i].hi <= h
        <5>1. /\ list'[1] = g
              /\ \A i \in DOMAIN list' \ {1} : i - 1 \in DOMAIN list /\ list'[i] = list[i - 1]
          BY <4>1, <4>2, <1>2, PutInFront DEF ListInv
        <5>2. g.hi <= h
          BY <4>1, <3>2, <3>4, Sizes
        <5>3. \A i \in DOMAIN list : list[i].hi <= h
          <6>1. \A i \in DOMAIN list : list[i] \in Gaps
            BY <1>2 DEF ListInv
          <6>2. \A i \in DOMAIN list : list[i].hi \in Nat
            BY <6>1, Sizes DEF Gaps
          <6> QED
            BY <6>2, <1>5, <3>4, Sizes
        <5> QED
          BY <5>1, <5>2, <5>3
      <4>7. ASSUME NEW x \in BASE .. h - 1
            PROVE  Covered(x)'
        <5>1. x \in Nat /\ BASE <= x /\ x < h
          <6>1. BASE \in Nat /\ TASK_SIZE \in Nat
            BY Sizes
          <6> QED
            BY <6>1
        <5>2. h = v.hi
          BY <3>0, <3>2, <3>c, <1>5
        <5>3. Covered(x) \/ Inside(x, g)
          <6>a. CASE x < prev_hi
            BY <6>a, <5>1, <1>5, Sizes
          <6>b. CASE prev_hi <= x /\ x < v.lo
            BY <6>b, <4>1 DEF Inside
          <6>c. CASE v.lo <= x
            BY <6>c, <5>1, <5>2, <3>1, <1>2 DEF Covered, Inside
          <6> QED
            BY <5>1, <6>a, <6>b, <6>c, <1>5, <3>2
        <5> QED
          BY <4>1, <4>2, <5>3, <1>1, <1>2, CoverFront DEF ListInv
      <4> QED
        BY <4>5, <4>6, <4>7, <3>4, <3>5, <3>6, <1>1 DEF LinesInv
    <3>d. CASE ~(v.lo > prev_hi)
      <4>1. list' = list
        BY <3>3, <3>d
      <4>2. ListInv'
        BY <4>1, <1>1, <1>2, GapsStay DEF ListInv
      <4>3. \A i \in DOMAIN list : list[i].hi <= h
        <5>1. \A i \in DOMAIN list : list[i] \in Gaps
          BY <1>2 DEF ListInv
        <5>2. \A i \in DOMAIN list : list[i].hi \in Nat
          BY <5>1, Sizes DEF Gaps
        <5> QED
          BY <5>2, <1>5, <3>4, Sizes
      <4>4. ASSUME NEW x \in BASE .. h - 1
            PROVE  Covered(x)'
        <5>1. x \in Nat /\ BASE <= x /\ x < h
          <6>1. BASE \in Nat /\ TASK_SIZE \in Nat
            BY Sizes
          <6> QED
            BY <6>1
        <5>2. Covered(x)
          <6>a. CASE x < prev_hi
            BY <6>a, <5>1, <1>5, Sizes
          <6>b. CASE prev_hi <= x
            <7>1. v.lo <= x /\ x < v.hi
              BY <6>b, <5>1, <3>0, <3>2, <3>d, <1>5
            <7> QED
              BY <7>1, <3>1, <1>2 DEF Covered, Inside
          <6> QED
            BY <5>1, <6>a, <6>b, <1>5
        <5> QED
          BY <4>1, <5>2, <1>1 DEF Covered, Inside
      <4> QED
        BY <4>1, <4>2, <4>3, <4>4, <3>4, <3>5, <3>6, <1>1 DEF LinesInv
    <3> QED
      BY <3>c, <3>d
  <2> QED
    BY <2>a, <2>b
<1> QED
  BY <1>1, <1>2, <1>3, <1>4, <1>8 DEF Inside

\* The gap under CEIL.
LEMMA LastGapStep ==
    ASSUME ClobberInv, LastGap, sp0' = sp0
    PROVE  ClobberInv'
<1> USE DEF ClobberInv, PlaceInv
<1>1. /\ pc = "lines" /\ pc' = "choose" /\ unread = {}
      /\ UNCHANGED <<vmas, maps0, target, jumped>>
  BY DEF LastGap
<1>2. vmas = maps0 /\ ~jumped /\ ListInv /\ LinesInv /\ maps0 \in Maps
  BY <1>1
<1>3. VmaInv' /\ PoolInv'
  BY <1>1, VmasStay
<1>4. NothingClobbered' /\ SetupMemory'
  BY <1>1, <1>2 DEF NothingClobbered, SetupMemory
<1>5. /\ prev_hi \in Nat /\ BASE <= prev_hi /\ prev_hi <= TASK_SIZE /\ prev_hi % PAGE = 0
      /\ \A w \in maps0 : w.hi <= prev_hi
      /\ \A i \in DOMAIN list : list[i].hi <= prev_hi
      /\ \A x \in BASE .. prev_hi - 1 : Covered(x)
  BY <1>1, <1>2, Sizes DEF LinesInv
<1>6. BASE \in Nat /\ CEIL \in Nat /\ TASK_SIZE \in Nat /\ TASK_SIZE < CEIL
  BY Sizes
<1> DEFINE g == [lo |-> prev_hi, hi |-> CEIL]
<1>7. list' = <<g>> \o list
  BY <1>5, <1>6 DEF LastGap, insert_ma
<1>8. g \in Gaps /\ g.lo = prev_hi /\ g.hi = CEIL
  BY <1>5, <1>6 DEF Gaps
<1> HIDE DEF g
<1>9. Free(g.lo, g.hi)
  <2>1. \A w \in maps0 : w.lo \in Nat /\ w.hi \in Nat
    BY <1>2, MapsFacts
  <2> QED
    BY <2>1, <1>2, <1>5, <1>8 DEF Free, Overlap
<1>10. GapOK(g)
  BY <1>5, <1>6, <1>8, <1>9 DEF GapOK
<1>11. ListInv'
  BY <1>1, <1>2, <1>5, <1>7, <1>8, <1>10, InsertGap
<1>12. list' # <<>> /\ list'[1].hi = CEIL
  <2>1. list \in Seq(Gaps)
    BY <1>2 DEF ListInv
  <2>2. list' \in Seq(Gaps) /\ Len(list') = Len(list) + 1 /\ list'[1] = g /\ Len(list) \in Nat
    BY <2>1, <1>7, <1>8, PutInFront
  <2> QED
    BY <2>2, <1>8
<1>13. ASSUME NEW x \in BASE .. CEIL - 1
       PROVE  Covered(x)'
  <2>1. x \in Nat /\ BASE <= x /\ x < CEIL
    BY <1>6
  <2>2. Covered(x) \/ Inside(x, g)
    <3>a. CASE x < prev_hi
      BY <3>a, <2>1, <1>5, <1>6
    <3>b. CASE prev_hi <= x
      BY <3>b, <2>1, <1>8 DEF Inside
    <3> QED
      BY <2>1, <3>a, <3>b, <1>5
  <2> QED
    BY <2>2, <1>1, <1>2, <1>7, <1>8, CoverFront DEF ListInv
<1>14. ChooseInv'
  BY <1>12, <1>13 DEF ChooseInv
<1> QED
  BY <1>1, <1>2, <1>3, <1>4, <1>11, <1>14 DEF Inside

\* malloc fails, or fopen: whatever is returned, nothing has been mapped.
LEMMA GiveUpStep ==
    ASSUME ClobberInv, JumpOver \/ NoMaps, sp0' = sp0
    PROVE  ClobberInv'
<1> USE DEF ClobberInv, PlaceInv
<1>1. /\ pc \in {"maps", "lines"} /\ pc' \in {"exit", "pool"} /\ UNCHANGED <<vmas, maps0>>
      /\ pc' = "pool" => jumped'
  BY DEF JumpOver, NoMaps, NextLine, Exit
<1>2. vmas = maps0 /\ maps0 \in Maps
  BY <1>1
<1>3. target'.lo \in Nat
  BY Sizes DEF JumpOver, NoMaps
<1>4. VmaInv'
  BY <1>1 DEF VmaInv
<1>5. PoolInv'
  BY <1>1, <1>2, MapsFacts DEF PoolInv
<1>6. NothingClobbered'
  BY <1>1, <1>2 DEF NothingClobbered
<1>7. SetupMemory'
  BY <1>1 DEF SetupMemory
<1> QED
  BY <1>1, <1>2, <1>3, <1>4, <1>5, <1>6, <1>7 DEF Inside

\* The range of a gap with a free place: a place begins and ends in one gap.
LEMMA PlaceInGap ==
    ASSUME ListInv, ChooseInv, VmaInv, vmas = maps0, NEW x \in BASE .. CEIL - MEM_SIZE,
           \A v \in maps0 : ~Overlap(v, x, x + MEM_SIZE)
    PROVE  \E j \in DOMAIN list : list[j].lo <= x /\ x + MEM_SIZE <= list[j].hi
<1>1. /\ BASE \in Nat /\ CEIL \in Nat /\ MEM_SIZE \in Nat /\ MEM_SIZE > 0
  BY Sizes
<1>2. x \in Nat /\ BASE <= x /\ x + MEM_SIZE <= CEIL /\ x < CEIL
  BY <1>1
<1>3. Covered(x)
  BY <1>1, <1>2 DEF ChooseInv
<1>4. \A v \in vmas : ~Inside(x, v)
  BY <1>1, <1>2 DEF Overlap, Inside, VmaInv
<1>5. PICK j \in DOMAIN list : Inside(x, list[j])
  BY <1>3, <1>4 DEF Covered
<1>6. GapOK(list[j]) /\ list[j] \in Gaps
  BY DEF ListInv, GapOK
<1>7. list[j].lo \in Nat /\ list[j].hi \in Nat /\ list[j].lo <= x /\ x < list[j].hi
  BY <1>1, <1>5, <1>6 DEF Gaps, Inside
<1>8. x + MEM_SIZE <= list[j].hi
  <2>a. CASE list[j].hi = CEIL
    BY <2>a, <1>2
  <2>b. CASE \E v \in maps0 : v.lo = list[j].hi
    <3>1. PICK v \in maps0 : v.lo = list[j].hi
      BY <2>b
    <3>2. v.lo \in Nat /\ v.hi \in Nat /\ v.lo < v.hi
      BY DEF VmaInv
    <3> QED
      BY <3>1, <3>2, <1>1, <1>2, <1>7 DEF Overlap
  <2> QED
    BY <2>a, <2>b, <1>6 DEF GapOK
<1> QED
  BY <1>7, <1>8

\* The choice of the target.
LEMMA ChooseTargetStep ==
    ASSUME ClobberInv, ChooseTarget, sp0' = sp0
    PROVE  ClobberInv'
<1> USE DEF ClobberInv, PlaceInv
<1>1. /\ pc = "choose" /\ pc' \in {"reserve", "exit"}
      /\ UNCHANGED <<vmas, maps0, list, jumped>>
  BY DEF ChooseTarget, Exit
<1>2. vmas = maps0 /\ ~jumped /\ ListInv /\ ChooseInv /\ maps0 \in Maps
  BY <1>1
<1>3. VmaInv'
  BY <1>1 DEF VmaInv
<1>4. PoolInv'
  BY <1>1, <1>2, MapsFacts DEF PoolInv
<1>5. NothingClobbered'
  BY <1>1, <1>2 DEF NothingClobbered
<1>6. ListInv'
  BY <1>1, <1>2, GapsStay DEF ListInv
<1>a. CASE pc' = "exit"
  <2>1. target' = target
    BY <1>a DEF ChooseTarget
  <2>2. SetupMemory'
    BY <1>a DEF SetupMemory
  <2> QED
    BY <1>a, <2>1, <2>2, <1>1, <1>3, <1>4, <1>5 DEF Inside
<1>b. CASE pc' = "reserve"
  <2>1. PICK i \in DOMAIN list : /\ Fits(list[i]) /\ \A j \in 1 .. i - 1 : ~Fits(list[j])
                                 /\ target' = Target(list[i])
    BY <1>b DEF ChooseTarget, Exit
  <2>0. PICK g \in Gaps : g = list[i]
    BY <1>2 DEF ListInv, GapOK
  <2>2. GapOK(g) /\ g \in Gaps /\ list \in Seq(Gaps)
    BY <1>2, <2>0 DEF ListInv, GapOK
  <2>3. /\ g.lo % PAGE = 0 /\ (g.hi = CEIL \/ g.hi % PAGE = 0)
        /\ Free(g.lo, g.hi)
    BY <2>2 DEF GapOK
  <2>4. PICK tlo \in Nat, thi \in Nat : tlo = target'.lo /\ thi = target'.hi
    BY <2>0, <2>1, <2>2, <2>3, TargetOf
  <2>5. /\ thi = RoundDown(g.hi, ALIGN) /\ g.lo <= tlo /\ thi <= g.hi
        /\ thi - tlo = MEM_SIZE /\ g.hi - MEM_SIZE < tlo + ALIGN
    BY <2>0, <2>1, <2>2, <2>3, <2>4, TargetOf
  <2>a. /\ tlo \in Nat /\ thi \in Nat /\ g.lo <= tlo /\ thi <= g.hi
        /\ thi - tlo = MEM_SIZE /\ g.hi - MEM_SIZE < tlo + ALIGN
    BY <2>4, <2>5
  <2>6. /\ BASE \in Nat /\ CEIL \in Nat /\ TASK_SIZE \in Nat /\ MEM_SIZE \in Nat /\ ALIGN \in Nat
        /\ MEM_SIZE > 0 /\ TASK_SIZE < CEIL /\ ALIGN > 0
    BY Sizes
  <2>7. g.lo \in Nat /\ g.hi \in Nat /\ BASE <= g.lo /\ g.hi <= CEIL
    BY <2>2, <2>6 DEF Gaps
  <2>8. tlo \in BASE .. CEIL /\ thi \in BASE .. CEIL
    <3> HIDE DEF ClobberInv, PlaceInv
    <3>1. BASE <= tlo
      BY <2>a, <2>6, <2>7
    <3>2. tlo <= thi /\ thi <= CEIL
      BY <2>a, <2>6, <2>7
    <3> QED
      BY <2>a, <2>6, <3>1, <3>2
  <2>9. ASSUME NEW x \in BASE .. CEIL - MEM_SIZE,
               \A v \in maps0 : ~Overlap(v, x, x + MEM_SIZE)
        PROVE  x < tlo + ALIGN
    <3>1. PICK j \in DOMAIN list : list[j].lo <= x /\ x + MEM_SIZE <= list[j].hi
      BY <2>9, <1>2, PlaceInGap
    <3>2. list[j] \in Gaps /\ j \in Nat /\ i \in Nat /\ i \in DOMAIN list
      BY <2>2, <2>1
    <3>3. list[j].lo \in Nat /\ list[j].hi \in Nat /\ x \in Nat
      BY <3>2, <2>6, <2>9 DEF Gaps
    <3>4. Fits(list[j])
      BY <3>1, <3>3, <2>6 DEF Fits
    <3>5. ~(j < i)
      BY <3>2, <3>4, <2>1, <2>2
    <3>a. CASE j = i
      BY <3>a, <3>1, <3>3, <2>0, <2>a, <2>6, <2>7
    <3>b. CASE j > i
      <4>1. list[j].hi <= g.lo
        BY <3>b, <3>2, <1>2, <2>0 DEF ListInv
      <4> HIDE DEF ClobberInv, PlaceInv
      <4>2. x + MEM_SIZE <= g.lo
        BY <4>1, <3>1, <3>3, <2>6, <2>7
      <4>3. x + MEM_SIZE <= tlo
        BY <4>2, <3>3, <2>a, <2>6, <2>7
      <4> QED
        BY <4>3, <3>3, <2>a, <2>6
    <3> QED
      BY <3>2, <3>5, <3>a, <3>b
  <2>10. TargetInv'
    BY <2>4, <2>5, <2>8, <2>9, <1>1 DEF TargetInv, Overlap
  <2>11. TargetGap(g)'
    <3>1. ASSUME NEW j \in DOMAIN list
          PROVE  list[j] = g \/ list[j].hi <= g.lo \/ g.hi <= list[j].lo
      <4>1. i \in Nat /\ j \in Nat
        BY <2>2
      <4> QED
        BY <4>1, <1>2, <2>0, <3>1 DEF ListInv
    <3>2. \A x \in BASE .. TASK_SIZE - 1 : Covered(x)
      BY <1>2, <2>6 DEF ChooseInv
    <3>3. 1 \in DOMAIN list /\ list[1].hi = CEIL
      BY <1>2, <2>2 DEF ChooseInv
    <3>4. \A x \in BASE .. TASK_SIZE - 1 : Covered(x)'
      BY <3>2, <1>1 DEF Covered, Inside
    <3>5. Free(g.lo, g.hi)'
      BY <2>3, <1>1 DEF Free, Overlap
    <3> QED
      BY <3>1, <3>3, <3>4, <3>5, <2>3, <2>4, <2>5, <1>1 DEF TargetGap
  <2>12. Free(target.lo, target.hi)'
    <3>1. \A v \in maps0 : v.lo \in Nat /\ v.hi \in Nat
      BY <1>2, MapsFacts
    <3>2. \A v \in maps0 : ~Overlap(v, g.lo, g.hi)
      BY <1>2, <2>3 DEF Free
    <3>3. ASSUME NEW v \in maps0, Overlap(v, tlo, thi)
          PROVE  FALSE
      <4>1. v.lo \in Nat /\ v.hi \in Nat /\ v.lo < thi /\ tlo < v.hi
        BY <3>1, <3>3 DEF Overlap
      <4>2. v.lo < g.hi
        BY <4>1, <2>a, <2>7
      <4>3. g.lo < v.hi
        BY <4>1, <2>a, <2>7
      <4> QED
        BY <4>2, <4>3, <3>2 DEF Overlap
    <3> QED
      BY <3>3, <2>4, <1>1, <1>2 DEF Free, Overlap
  <2>13. TargetBest'
    <3>1. BASE <= tlo /\ thi <= CEIL
      BY <2>6, <2>8
    <3> QED
      BY <3>1, <2>4, <2>5, <2>9, <2>12, <1>1 DEF TargetBest, Overlap
  <2>14. SetupMemory'
    BY <1>b, <2>13 DEF SetupMemory
  <2>15. target'.lo \in Nat
    BY <2>4
  <2>16. \E e \in Gaps : TargetGap(e)'
    BY <2>2, <2>11
  <2> QED
    BY <1>b, <1>1, <1>2, <1>3, <1>4, <1>5, <1>6, <2>10, <2>14, <2>15, <2>16 DEF Inside
<1> QED
  BY <1>1, <1>a, <1>b

\* The gaps that are left when the first has been looked at.
LEMMA TakeFirst ==
    ASSUME list \in Seq(Gaps), list # <<>>, list' = Tail(list)
    PROVE  /\ list' \in Seq(Gaps) /\ 1 \in DOMAIN list /\ Head(list) = list[1]
           /\ \A i \in DOMAIN list' : i + 1 \in DOMAIN list /\ list'[i] = list[i + 1]
           /\ \A i \in DOMAIN list \ {1} : i - 1 \in DOMAIN list' /\ list'[i - 1] = list[i]
           /\ DOMAIN list \subseteq Nat /\ DOMAIN list' \subseteq Nat
<1>1. /\ Len(list) \in Nat /\ Len(list) > 0 /\ list' \in Seq(Gaps)
      /\ Len(list') = Len(list) - 1
      /\ \A i \in 1 .. Len(list) - 1 : list'[i] = list[i + 1]
  OBVIOUS
<1>2. Head(list) = list[1]
  OBVIOUS
<1>3. DOMAIN list = 1 .. Len(list) /\ DOMAIN list' = 1 .. Len(list) - 1
  BY <1>1
<1> QED
  BY <1>1, <1>2, <1>3

\* MAP_FIXED over a free range replaces nothing.
LEMMA WithoutFree ==
    ASSUME NEW V, NEW lo, NEW hi, \A v \in V : ~Overlap(v, lo, hi)
    PROVE  Without(V, lo, hi) = V
BY DEF Without

\* The gap of the target is the only one reserve_all leaves alone.
LEMMA SparedGap ==
    ASSUME TargetInv, NEW g \in Gaps, TargetGap(g), NEW h \in Gaps,
           h = g \/ h.hi <= g.lo \/ g.hi <= h.lo
    PROVE  Spared(h) <=> h = g
<1>1. BASE \in Nat /\ CEIL \in Nat /\ MEM_SIZE \in Nat /\ MEM_SIZE > 0
  BY Sizes
<1>2. g.lo \in Nat /\ g.hi \in Nat /\ h.lo \in Nat /\ h.hi \in Nat
  BY <1>1 DEF Gaps
<1>3. target.lo \in Nat /\ target.hi \in Nat /\ target.hi - target.lo = MEM_SIZE
  BY <1>1 DEF TargetInv
<1>4. target.lo < target.hi
  BY <1>1, <1>3
<1>5. g.lo <= target.lo /\ target.hi <= g.hi
  BY DEF TargetGap
<1>a. CASE h = g
  BY <1>a, <1>2, <1>3, <1>4, <1>5 DEF Spared
<1>b. CASE h.hi <= g.lo
  BY <1>b, <1>2, <1>3, <1>4, <1>5 DEF Spared
<1>c. CASE g.hi <= h.lo
  BY <1>c, <1>2, <1>3, <1>4, <1>5 DEF Spared
<1> QED
  BY <1>a, <1>b, <1>c

\* reserve_all, one gap.
LEMMA ReserveStep ==
    ASSUME ClobberInv, Reserve, sp0' = sp0
    PROVE  ClobberInv'
<1> USE DEF ClobberInv, PlaceInv
<1>1. /\ pc = "reserve" /\ list # <<>> /\ list' = Tail(list)
      /\ UNCHANGED <<maps0, target, jumped>>
  BY DEF Reserve
<1>2. /\ ~jumped /\ ListInv /\ TargetInv /\ maps0 \in Maps /\ list \in Seq(Gaps)
      /\ VmaInv /\ PoolInv /\ target.lo \in Nat
  BY <1>1 DEF ListInv
<1>3. PICK g \in Gaps : TargetGap(g)
  BY <1>1
<1>4. /\ list' \in Seq(Gaps) /\ 1 \in DOMAIN list /\ Head(list) = list[1]
      /\ \A i \in DOMAIN list' : i + 1 \in DOMAIN list /\ list'[i] = list[i + 1]
      /\ \A i \in DOMAIN list \ {1} : i - 1 \in DOMAIN list' /\ list'[i - 1] = list[i]
      /\ DOMAIN list \subseteq Nat /\ DOMAIN list' \subseteq Nat
  BY <1>1, <1>2, TakeFirst
<1>5. PICK h \in Gaps : h = list[1]
  BY <1>2, <1>4 DEF ListInv, GapOK
<1>6. /\ GapOK(h) /\ h = Head(list)
      /\ h = g \/ h.hi <= g.lo \/ g.hi <= h.lo
  BY <1>2, <1>3, <1>4, <1>5 DEF ListInv, TargetGap
<1>7. Spared(h) <=> h = g
  BY <1>2, <1>3, <1>6, SparedGap
<1>8. TargetBest /\ maps0 \subseteq vmas
  BY <1>1, <1>2 DEF SetupMemory, NothingClobbered
<1>9. \A i, j \in DOMAIN list' : i < j => list'[j].hi <= list'[i].lo
  <2>1. ASSUME NEW i \in DOMAIN list', NEW j \in DOMAIN list', i < j
        PROVE  list'[j].hi <= list'[i].lo
    <3>1. /\ i + 1 \in DOMAIN list /\ list'[i] = list[i + 1] /\ i \in Nat
          /\ j + 1 \in DOMAIN list /\ list'[j] = list[j + 1] /\ j \in Nat
      BY <1>4
    <3>2. i + 1 < j + 1
      BY <2>1, <3>1
    <3> QED
      BY <3>1, <3>2, <1>2 DEF ListInv
  <2> QED
    BY <2>1
<1>10. \A i \in DOMAIN list' : GapOK(list'[i]) /\ list'[i].hi <= h.lo
  <2>1. ASSUME NEW i \in DOMAIN list'
        PROVE  GapOK(list'[i]) /\ list'[i].hi <= h.lo
    <3>0. i \in Nat /\ i > 0
      <4> HIDE DEF ClobberInv, PlaceInv
      <4> QED
        BY <1>4
    <3>1. i + 1 \in DOMAIN list /\ list'[i] = list[i + 1] /\ i \in Nat /\ i + 1 > 1
      BY <3>0, <1>4
    <3> QED
      BY <3>1, <1>2, <1>4, <1>5 DEF ListInv
  <2> QED
    BY <2>1
<1>11. \A i \in DOMAIN list' : list'[i] = g \/ list'[i].hi <= g.lo \/ g.hi <= list'[i].lo
  BY <1>3, <1>4 DEF TargetGap
<1>12. g.hi = CEIL \/ h.hi = CEIL \/ \E i \in DOMAIN list' : list'[i].hi = CEIL
  <2>1. g.hi = CEIL \/ \E i \in DOMAIN list : list[i].hi = CEIL
    BY <1>3 DEF TargetGap
  <2> QED
    BY <2>1, <1>4, <1>5
<1>13. \A x \in BASE .. TASK_SIZE - 1 :
            \/ \E v \in vmas : Inside(x, v)
            \/ Inside(x, h) \/ Inside(x, g)
            \/ \E i \in DOMAIN list' : Inside(x, list'[i])
  <2>1. ASSUME NEW x \in BASE .. TASK_SIZE - 1
        PROVE  \/ \E v \in vmas : Inside(x, v)
               \/ Inside(x, h) \/ Inside(x, g)
               \/ \E i \in DOMAIN list' : Inside(x, list'[i])
    <3>1. Covered(x) \/ Inside(x, g)
      BY <1>3 DEF TargetGap
    <3>2. (\E i \in DOMAIN list : Inside(x, list[i])) =>
            Inside(x, h) \/ \E i \in DOMAIN list' : Inside(x, list'[i])
      BY <1>4, <1>5
    <3> QED
      BY <3>1, <3>2 DEF Covered
  <2> QED
    BY <2>1
<1>14. /\ g.lo % PAGE = 0 /\ g.lo <= target.lo /\ target.hi <= g.hi
       /\ target.hi = RoundDown(g.hi, ALIGN) /\ Free(g.lo, g.hi)
  BY <1>3 DEF TargetGap
<1>a. CASE Spared(h) /\ UNCHANGED <<pc, vmas>>
  <2>1. h = g
    BY <1>7, <1>a
  <2>2. VmaInv' /\ PoolInv' /\ TargetInv' /\ TargetBest'
    BY <1>1, <1>2, <1>8, <1>a, VmasStay
  <2>3. ASSUME NEW i \in DOMAIN list'
        PROVE  GapOK(list[i])'
    <3>1. GapOK(list'[i])
      BY <1>10
    <3> QED
      BY <3>1, <1>1, <1>a DEF GapOK, Free, Overlap
  <2>4. ListInv'
    BY <2>3, <1>4, <1>9 DEF ListInv
  <2>5. TargetGap(g)'
    <3>1. Free(g.lo, g.hi)'
      BY <1>14, <1>a DEF Free, Overlap
    <3>2. \A x \in BASE .. TASK_SIZE - 1 : (Covered(x) \/ Inside(x, g))'
      BY <2>1, <1>13, <1>a DEF Covered, Inside
    <3> QED
      BY <2>1, <3>1, <3>2, <1>1, <1>11, <1>12, <1>14 DEF TargetGap
  <2>6. NothingClobbered' /\ SetupMemory'
    BY <2>2, <1>1, <1>8, <1>a DEF NothingClobbered, SetupMemory
  <2> QED
    BY <2>2, <2>4, <2>5, <2>6, <1>1, <1>2, <1>a DEF Inside
<1>b. CASE /\ ~Spared(h) /\ RoundUp(h.hi, PAGE) <= TASK_SIZE /\ pc' = pc
           /\ vmas' = Without(vmas, h.lo, RoundUp(h.hi, PAGE))
                      \cup {Vma(h.lo, RoundUp(h.hi, PAGE), "reserved")}
  <2>1. /\ PAGE \in Nat \ {0} /\ BASE \in Nat /\ BASE > 0 /\ CEIL \in Nat /\ TASK_SIZE \in Nat
        /\ TASK_SIZE < CEIL
    BY Sizes
  <2>2. /\ h.lo \in Nat /\ h.hi \in Nat /\ BASE <= h.lo /\ h.lo < h.hi
        /\ g.lo \in Nat /\ g.hi \in Nat
    BY <2>1, <1>6 DEF Gaps, GapOK
  <2>3. /\ RoundUp(h.hi, PAGE) \in Int /\ RoundUp(h.hi, PAGE) >= h.hi
        /\ h.hi % PAGE = 0 => RoundUp(h.hi, PAGE) = h.hi
    <3>1. h.hi \in Int /\ PAGE \in Nat \ {0}
      BY <2>1, <2>2
    <3> QED
      BY <3>1, RoundUpIs
  <2>4. h.hi # CEIL
    BY <2>1, <2>2, <2>3, <1>b
  <2>5. RoundUp(h.hi, PAGE) = h.hi /\ h.hi <= TASK_SIZE
    BY <2>3, <2>4, <1>6, <1>b DEF GapOK
  <2>6. Free(h.lo, h.hi)
    BY <1>6 DEF GapOK
  <2> DEFINE n == Vma(h.lo, h.hi, "reserved")
  <2>7. vmas' = vmas \cup {n}
    BY <2>5, <2>6, <1>b, WithoutFree DEF Free
  <2>8. n.lo = h.lo /\ n.hi = h.hi /\ n.use # "pool"
    BY VmaFields
  <2>9. VmaInv'
    <3>1. 0 < h.lo /\ h.lo < h.hi /\ h.hi <= TASK_SIZE
      BY <2>1, <2>2, <2>5
    <3> QED
      BY <3>1, <2>2, <2>6, <2>7, <1>2, AddVma
  <2> HIDE DEF n
  <2>10. PoolInv'
    BY <2>7, <2>8, <1>1, <1>2 DEF PoolInv
  <2>11. h # g
    BY <1>7, <1>b
  <2>12. ASSUME NEW lo \in Nat, NEW hi \in Nat, Free(lo, hi), hi <= h.lo \/ h.hi <= lo
         PROVE  \A v \in vmas' : ~Overlap(v, lo, hi)
    <3>1. ~Overlap(n, lo, hi)
      BY <2>2, <2>8, <2>12 DEF Overlap
    <3> QED
      BY <3>1, <2>7, <2>12 DEF Free
  <2>13. Free(g.lo, g.hi)'
    <3>1. \A v \in vmas' : ~Overlap(v, g.lo, g.hi)
      BY <2>2, <2>11, <2>12, <1>6, <1>14
    <3> QED
      BY <3>1 DEF Free, Overlap
  <2>14. ASSUME NEW i \in DOMAIN list'
         PROVE  GapOK(list[i])'
    <3>1. PICK e \in Gaps : e = list'[i]
      BY <1>4, <2>14
    <3>2. GapOK(e) /\ e.hi <= h.lo /\ e.lo \in Nat /\ e.hi \in Nat
      BY <3>1, <1>10, <2>1 DEF Gaps
    <3>3. \A v \in vmas' : ~Overlap(v, e.lo, e.hi)
      BY <3>2, <2>12 DEF GapOK
    <3> QED
      BY <3>1, <3>2, <3>3, <1>1 DEF GapOK, Free, Overlap
  <2>15. ListInv'
    BY <2>14, <1>4, <1>9 DEF ListInv
  <2>16. \A x \in BASE .. TASK_SIZE - 1 : (Covered(x) \/ Inside(x, g))'
    <3>1. \A x : Inside(x, h) => Inside(x, n)
      BY <2>8 DEF Inside
    <3>2. n \in vmas' /\ vmas \subseteq vmas'
      BY <2>7
    <3> QED
      BY <3>1, <3>2, <1>13 DEF Covered, Inside
  <2>17. TargetGap(g)'
    BY <2>4, <2>13, <2>16, <1>1, <1>11, <1>12, <1>14 DEF TargetGap
  <2>18. TargetInv'
    BY <1>1, <1>2 DEF TargetInv, Overlap
  <2>19. Free(target.lo, target.hi)'
    <3>1. target.lo \in Nat /\ target.hi \in Nat
      BY <1>2, <2>1 DEF TargetInv
    <3>2. target.hi <= h.lo \/ h.hi <= target.lo
      BY <1>b, <3>1, <2>2 DEF Spared
    <3>3. Free(target.lo, target.hi)
      BY <1>8 DEF TargetBest
    <3>4. \A v \in vmas' : ~Overlap(v, target.lo, target.hi)
      BY <2>12, <3>1, <3>2, <3>3
    <3> QED
      BY <3>4, <1>1 DEF Free, Overlap
  <2>20. TargetBest'
    BY <2>19, <1>1, <1>8 DEF TargetBest, Overlap
  <2>21. NothingClobbered' /\ SetupMemory'
    BY <2>7, <2>20, <1>1, <1>8, <1>b DEF NothingClobbered, SetupMemory
  <2> QED
    BY <2>9, <2>10, <2>15, <2>17, <2>18, <2>21, <1>1, <1>2, <1>b DEF Inside
<1>c. CASE pc' = "exit" /\ vmas' = vmas
  <2>1. VmaInv' /\ PoolInv'
    BY <1>1, <1>2, <1>c, VmasStay
  <2>2. NothingClobbered' /\ SetupMemory'
    BY <1>1, <1>8, <1>c DEF NothingClobbered, SetupMemory
  <2> QED
    BY <2>1, <2>2, <1>1, <1>c DEF Inside
<1> QED
  BY <1>6, <1>a, <1>b, <1>c DEF Reserve, Exit

\* The least number of a set is what Min finds.
LEMMA MinIs ==
    ASSUME NEW S, S \subseteq Int, NEW x \in S, \A y \in S : x <= y
    PROVE  Min(S) = x
<1>1. Min(S) \in S /\ \A y \in S : Min(S) <= y
  BY DEF Min
<1>2. PICK m \in S : m = Min(S)
  BY <1>1
<1>3. m \in Int /\ x \in Int /\ m <= x /\ x <= m
  BY <1>1, <1>2
<1> QED
  BY <1>2, <1>3

\* The greatest number of a set is what Max finds.
LEMMA MaxIs ==
    ASSUME NEW S, S \subseteq Int, NEW x \in S, \A y \in S : x >= y
    PROVE  Max(S) = x
<1>1. Max(S) \in S /\ \A y \in S : Max(S) >= y
  BY DEF Max
<1>2. PICK m \in S : m = Max(S)
  BY <1>1
<1>3. m \in Int /\ x \in Int /\ m >= x /\ x >= m
  BY <1>1, <1>2
<1> QED
  BY <1>2, <1>3

\* The lesser of two numbers.
LEMMA MinOf ==
    ASSUME NEW x \in Int, NEW y \in Int
    PROVE  (x <= y => Min({x, y}) = x) /\ (y <= x => Min({x, y}) = y)
<1>1. {x, y} \subseteq Int /\ x \in {x, y} /\ y \in {x, y} /\ x <= x /\ y <= y
  OBVIOUS
<1>2. ASSUME x <= y PROVE Min({x, y}) = x
  <2>1. \A z \in {x, y} : x <= z
    BY <1>2, <1>1
  <2> QED
    BY <2>1, <1>1, MinIs
<1>3. ASSUME y <= x PROVE Min({x, y}) = y
  <2>1. \A z \in {x, y} : y <= z
    BY <1>3, <1>1
  <2> QED
    BY <2>1, <1>1, MinIs
<1> QED
  BY <1>2, <1>3

\* The greater of two numbers.
LEMMA MaxOf ==
    ASSUME NEW x \in Int, NEW y \in Int
    PROVE  (x >= y => Max({x, y}) = x) /\ (y >= x => Max({x, y}) = y)
<1>1. {x, y} \subseteq Int /\ x \in {x, y} /\ y \in {x, y} /\ x >= x /\ y >= y
  OBVIOUS
<1>2. ASSUME x >= y PROVE Max({x, y}) = x
  <2>1. \A z \in {x, y} : x >= z
    BY <1>2, <1>1
  <2> QED
    BY <2>1, <1>1, MaxIs
<1>3. ASSUME y >= x PROVE Max({x, y}) = y
  <2>1. \A z \in {x, y} : y >= z
    BY <1>3, <1>1
  <2> QED
    BY <2>1, <1>1, MaxIs
<1> QED
  BY <1>2, <1>3

\* The end of reserve_all.
LEMMA ReservedStep ==
    ASSUME ClobberInv, Reserved, sp0' = sp0
    PROVE  ClobberInv'
<1> USE DEF ClobberInv, PlaceInv
<1>1. /\ pc = "reserve" /\ pc' = "pool" /\ list = <<>>
      /\ UNCHANGED <<vmas, maps0, target, jumped>>
  BY DEF Reserved
<1>2. /\ ~jumped /\ TargetInv /\ VmaInv /\ PoolInv /\ TargetBest /\ maps0 \subseteq vmas
  BY <1>1 DEF SetupMemory, NothingClobbered
<1>3. PICK g \in Gaps : TargetGap(g)
  BY <1>1
<1>4. /\ g.lo <= target.lo /\ target.hi <= g.hi /\ target.hi = RoundDown(g.hi, ALIGN)
      /\ Free(g.lo, g.hi) /\ g.hi = CEIL
      /\ \A x \in BASE .. TASK_SIZE - 1 : (\E v \in vmas : Inside(x, v)) \/ Inside(x, g)
  BY <1>1, <1>3 DEF TargetGap, Covered
<1>5. /\ BASE \in Nat /\ CEIL \in Nat /\ TASK_SIZE \in Nat /\ MEM_SIZE \in Nat /\ MEM_SIZE > 0
      /\ g.lo \in Nat /\ g.hi \in Nat
  BY Sizes DEF Gaps
<1>6. /\ target.lo \in Nat /\ target.hi \in Nat /\ target.hi - target.lo = MEM_SIZE
  BY <1>2, <1>5 DEF TargetInv
<1>7. target.lo < target.hi /\ target.hi = target.lo + MEM_SIZE
  BY <1>5, <1>6
<1>8. target.hi > TASK_SIZE
  <2>1. CEIL < RoundDown(CEIL, ALIGN) + ALIGN
    <3>1. CEIL \in Int /\ ALIGN \in Nat \ {0}
      BY Sizes
    <3> QED
      BY <3>1, RoundDownBounds
  <2>2. CEIL < target.hi + ALIGN
    BY <2>1, <1>4
  <2>3. /\ ALIGN \in Nat /\ PAGE \in Nat /\ ALIGN < PAGE /\ CEIL = TASK_SIZE + PAGE - 1
    BY Sizes
  <2> QED
    BY <2>2, <2>3, <1>5, <1>6
<1>b. PoolHint
  <2> DEFINE m == TASK_SIZE - MEM_SIZE
  <2>1. /\ PAGE \in Nat \ {0} /\ TASK_SIZE \in Int /\ MEM_SIZE \in Int
        /\ TASK_SIZE % PAGE = 0 /\ MEM_SIZE % PAGE = 0 /\ CEIL = TASK_SIZE + PAGE - 1
        /\ BASE > 0 /\ m \in Int /\ m = TASK_SIZE - MEM_SIZE /\ g.lo \in Int
        /\ BASE <= g.lo
    BY <1>5, Sizes DEF Gaps
  <2>2. m % PAGE = 0
    BY <2>1, MultipleSum
  <2> HIDE DEF m, ClobberInv, PlaceInv
  <2>3. m <= target.lo /\ target.lo < m + PAGE
    BY <2>1, <1>4, <1>5, <1>6, <1>7, <1>8
  <2>4. RoundDown(target.lo, PAGE) = m
    BY <2>1, <2>2, <2>3, <1>6, RoundDownIs
  <2>5. g.lo <= m
    <3>1. PICK i \in Int : g.lo = PAGE * i
      BY <2>1, <1>3, Multiple DEF TargetGap
    <3>2. PICK j \in Int : m = PAGE * j
      BY <2>1, <2>2, Multiple
    <3>3. ~(j < i)
      <4> SUFFICES ASSUME j < i PROVE FALSE
        OBVIOUS
      <4>1. PAGE * j + PAGE <= PAGE * i
        BY <2>1, TimesMono
      <4>2. m + PAGE <= g.lo
        BY <4>1, <3>1, <3>2
      <4> QED
        BY <4>2, <2>1, <2>3, <1>4, <1>6
    <3>4. j = i \/ PAGE * i + PAGE <= PAGE * j
      <4>1. j = i \/ i < j
        BY <3>3
      <4> QED
        BY <4>1, <2>1, TimesMono
    <3>5. m = g.lo \/ g.lo + PAGE <= m
      BY <3>1, <3>2, <3>4
    <3> QED
      BY <3>5, <2>1
  <2>6. MEM_SIZE < TASK_SIZE
    BY <2>1, <2>5, <1>5
  <2>7. Free(m, TASK_SIZE)
    <3> SUFFICES ASSUME NEW v \in vmas, v.lo < TASK_SIZE, m < v.hi PROVE FALSE
      BY DEF Free, Overlap
    <3>1. v.lo \in Nat /\ v.hi \in Nat /\ ~Overlap(v, g.lo, g.hi)
      BY <1>2, <1>4 DEF VmaInv, Free
    <3>2. v.lo < g.hi
      BY <3>1, <2>1, <1>4, <1>5
    <3>3. g.lo < v.hi
      BY <3>1, <2>1, <2>5
    <3> QED
      BY <3>1, <3>2, <3>3 DEF Overlap
  <2> QED
    BY <2>4, <2>6, <2>7, <1>8 DEF PoolHint, m
<1>c. PoolHint'
  BY <1>b, <1>1 DEF PoolHint, Free, Overlap
<1>9. AllReserved
  <2> SUFFICES ASSUME NEW x \in BASE .. TASK_SIZE - 1, Free(x, x + 1)
               PROVE  Free(Min({x, target.lo}), Max({x, target.lo}) + 1)
    BY DEF AllReserved
  <2>1. x \in Nat
    BY <1>5
  <2>0. x \in Int /\ target.lo \in Int
    BY <2>1, <1>6
  <2>2. \A v \in vmas : v.lo \in Nat /\ v.hi \in Nat
    BY <1>2 DEF VmaInv
  <2>3. \A v \in vmas : ~Inside(x, v)
    BY <2>1, <2>2 DEF Free, Overlap, Inside
  <2>4. g.lo <= x /\ x < g.hi
    BY <2>3, <1>4 DEF Inside
  <2>5. PICK a \in {x, target.lo} : a = Min({x, target.lo})
    <3>1. x <= target.lo => Min({x, target.lo}) = x
      BY <2>0, MinOf
    <3>2. target.lo <= x => Min({x, target.lo}) = target.lo
      BY <2>0, MinOf
    <3> QED
      BY <3>1, <3>2, <2>1, <1>6
  <2>6. PICK b \in {x, target.lo} : b = Max({x, target.lo})
    <3>1. x >= target.lo => Max({x, target.lo}) = x
      BY <2>0, MaxOf
    <3>2. target.lo >= x => Max({x, target.lo}) = target.lo
      BY <2>0, MaxOf
    <3> QED
      BY <3>1, <3>2, <2>1, <1>6
  <2>7. a \in Nat /\ b \in Nat /\ g.lo <= a /\ b + 1 <= g.hi
    <3>1. /\ x \in Nat /\ target.lo \in Nat /\ target.hi \in Nat /\ g.hi \in Nat
          /\ g.lo <= x /\ g.lo <= target.lo /\ x < g.hi /\ target.lo < target.hi
          /\ target.hi <= g.hi
      BY <2>1, <2>4, <1>4, <1>5, <1>6, <1>7
    <3>2. target.lo < g.hi
      BY <3>1
    <3>3. target.lo + 1 <= g.hi /\ x + 1 <= g.hi
      BY <3>1, <3>2
    <3> QED
      BY <3>1, <3>3
  <2>8. \A v \in vmas : ~Overlap(v, a, b + 1)
    <3> SUFFICES ASSUME NEW v \in vmas, v.lo < b + 1, a < v.hi PROVE FALSE
      BY DEF Overlap
    <3>1. v.lo \in Nat /\ v.hi \in Nat /\ ~Overlap(v, g.lo, g.hi)
      BY <2>2, <1>4 DEF Free
    <3>2. v.lo < g.hi /\ g.lo < v.hi
      <4>1. /\ v.lo \in Nat /\ v.hi \in Nat /\ a \in Nat /\ b \in Nat /\ g.lo \in Nat
            /\ g.hi \in Nat /\ g.lo <= a /\ b + 1 <= g.hi
        BY <3>1, <2>7, <1>5
      <4> HIDE DEF ClobberInv, PlaceInv
      <4>2. v.lo < g.hi
        BY <4>1
      <4>3. g.lo < v.hi
        BY <4>1
      <4> QED
        BY <4>2, <4>3
    <3> QED
      BY <3>1, <3>2 DEF Overlap
  <2> QED
    BY <2>5, <2>6, <2>8 DEF Free
<1>10. VmaInv' /\ PoolInv' /\ TargetBest' /\ AllReserved'
  BY <1>1, <1>2, <1>9, VmasStay
<1>11. NothingClobbered' /\ SetupMemory'
  BY <1>1, <1>2, <1>10 DEF NothingClobbered, SetupMemory
<1> QED
  BY <1>1, <1>2, <1>7, <1>c, <1>10, <1>11 DEF Inside

\* mmap of a range that was free, by MemPoolInit or by the stub.
LEMMA MapStep ==
    ASSUME ClobberInv, UNCHANGED <<maps0, target, jumped, sp0>>,
           NEW a \in Nat, NEW len \in Nat \ {0}, NEW use,
           a > 0, a + len <= TASK_SIZE, Free(a, a + len),
           vmas' = vmas \cup {Vma(a, a + len, use)},
           pc # "start", pc' \in {"entry", "relocate"},
           use = "pool" /\ ~jumped => a + len = TASK_SIZE
    PROVE  ClobberInv'
<1> USE DEF ClobberInv, PlaceInv
<1>1. VmaInv'
  <2>1. a + len \in Nat /\ 0 < a /\ a < a + len
    OBVIOUS
  <2> HIDE DEF ClobberInv, PlaceInv
  <2>2. VmaInv
    BY DEF ClobberInv, PlaceInv
  <2> DEFINE b == a + len
  <2>3. b \in Nat /\ a < b /\ b <= TASK_SIZE /\ Free(a, b) /\ vmas' = vmas \cup {Vma(a, b, use)}
    BY <2>1
  <2> HIDE DEF b
  <2> QED
    BY <2>1, <2>2, <2>3, AddVma
<1>2. PoolInv'
  <2> DEFINE n == Vma(a, a + len, use)
  <2>1. n.lo = a /\ n.hi = a + len /\ n.use = use
    BY VmaFields
  <2>2. vmas' = vmas \cup {n}
    OBVIOUS
  <2> HIDE DEF n
  <2> QED
    BY <2>1, <2>2 DEF PoolInv
<1>3. NothingClobbered'
  BY DEF NothingClobbered
<1>4. SetupMemory'
  BY DEF SetupMemory
<1> QED
  BY <1>1, <1>2, <1>3, <1>4 DEF Inside

\* A step that leaves the mappings, at the end of MemPoolInit or later.
LEMMA QuietStep ==
    ASSUME ClobberInv, UNCHANGED <<vmas, maps0, target, jumped, sp0>>, pc # "start",
           pc' \in {"exit", "wild", "open", "pivot"}
    PROVE  ClobberInv'
<1> USE DEF ClobberInv, PlaceInv
<1>1. VmaInv' /\ PoolInv'
  BY VmasStay
<1>2. NothingClobbered' /\ SetupMemory'
  BY DEF NothingClobbered, SetupMemory
<1> QED
  BY <1>1, <1>2 DEF Inside

\* MemPoolInit.
LEMMA MemPoolInitStep ==
    ASSUME ClobberInv, MemPoolInit, sp0' = sp0
    PROVE  ClobberInv'
<1>1. pc = "pool" /\ UNCHANGED <<maps0, target, jumped>>
  BY DEF MemPoolInit
<1>2. target.lo \in Nat /\ (~jumped => PoolHint)
  BY <1>1 DEF ClobberInv, PlaceInv
<1>a. CASE pc' = "entry"
  <2>1. PICK a \in Places(target.lo, MEM_SIZE) : vmas' = vmas \cup {Vma(a, a + MEM_SIZE, "pool")}
    BY <1>a DEF MemPoolInit, Exit
  <2>2. MEM_SIZE \in Nat \ {0}
    BY Sizes
  <2>3. a \in Nat /\ a > 0 /\ a + MEM_SIZE <= TASK_SIZE /\ Free(a, a + MEM_SIZE)
    BY <1>2, <2>2, PlacesFree
  <2>4. ~jumped => a + MEM_SIZE = TASK_SIZE
    <3> SUFFICES ASSUME ~jumped PROVE a + MEM_SIZE = TASK_SIZE
      OBVIOUS
    <3> DEFINE h == RoundDown(target.lo, PAGE)
    <3>1. TASK_SIZE \in Nat /\ MEM_SIZE \in Nat
      BY Sizes
    <3>2. h = TASK_SIZE - MEM_SIZE /\ MEM_SIZE < TASK_SIZE /\ Free(TASK_SIZE - MEM_SIZE, TASK_SIZE)
      BY <1>2 DEF PoolHint
    <3>3. a = h \/ ~(h > 0 /\ h + MEM_SIZE <= TASK_SIZE /\ Free(h, h + MEM_SIZE))
      BY <2>1 DEF Places
    <3> HIDE DEF h
    <3>4. h > 0 /\ h + MEM_SIZE = TASK_SIZE /\ h + MEM_SIZE <= TASK_SIZE
      BY <3>1, <3>2
    <3>5. Free(h, h + MEM_SIZE)
      BY <3>2, <3>4
    <3> QED
      BY <3>3, <3>4, <3>5
  <2> QED
    BY <1>a, <1>1, <1>2, <2>1, <2>2, <2>3, <2>4, MapStep
<1>b. CASE pc' = "exit"
  BY <1>b, <1>1, QuietStep DEF MemPoolInit
<1> QED
  BY <1>a, <1>b DEF MemPoolInit, Exit

-----------------------------------------------------------------------------
(***************************************************************************)
(* The stub and sa_pivot leave alone what is not theirs.                   *)
(***************************************************************************)

\* find_vma finds the mapping an address is in.
LEMMA FindVma ==
    ASSUME VmaInv, NEW s \in vmas, NEW x \in Int, Inside(x, s)
    PROVE  find_vma(vmas, x) = s /\ s # NoVma /\ Holds(s, x)
<1> DEFINE above == {v \in vmas : v.hi > x}
<1>1. \A v \in vmas : v.lo \in Nat /\ v.hi \in Nat /\ 0 < v.lo /\ v.lo < v.hi
  BY DEF VmaInv
<1>2. s.lo <= x /\ x < s.hi
  BY DEF Inside
<1>3. s \in above
  BY <1>1, <1>2
<1>4. ASSUME NEW w \in above
      PROVE  s.hi <= w.hi /\ (w = s \/ s.hi < w.hi)
  <2>1. w \in vmas /\ w.hi > x /\ w.lo \in Nat /\ w.hi \in Nat /\ w.lo < w.hi
    BY <1>1
  <2>2. s.lo \in Nat /\ s.hi \in Nat
    BY <1>1
  <2>3. w = s \/ s.hi <= w.lo \/ w.hi <= s.lo
    BY <2>1 DEF VmaInv
  <2>a. CASE w = s
    BY <2>a, <2>2
  <2>b. CASE s.hi <= w.lo
    BY <2>b, <2>1, <2>2
  <2>c. CASE w.hi <= s.lo
    BY <2>c, <2>1, <2>2, <1>2
  <2> QED
    BY <2>3, <2>a, <2>b, <2>c
<1> DEFINE c == CHOOSE v \in above : \A w \in above : v.hi <= w.hi
<1>5. c \in above /\ \A w \in above : c.hi <= w.hi
  BY <1>3, <1>4
<1>6. find_vma(vmas, x) = c
  BY <1>3 DEF find_vma
<1>7. c = s
  <2>1. c.hi <= s.hi /\ c.hi \in Nat /\ s.hi \in Nat
    BY <1>1, <1>3, <1>5
  <2> HIDE DEF c
  <2> QED
    BY <2>1, <1>4, <1>5
<1>8. s # NoVma
  BY <1>1, VmaFields DEF NoVma
<1> QED
  BY <1>2, <1>6, <1>7, <1>8 DEF Holds

\* munmap of a whole mapping takes that one away and nothing else.
LEMMA WithoutOne ==
    ASSUME VmaInv, NEW s \in vmas
    PROVE  Without(vmas, s.lo, s.hi) = vmas \ {s}
<1>1. \A v \in vmas : v.lo \in Nat /\ v.hi \in Nat /\ v.lo < v.hi
  BY DEF VmaInv
<1>2. \A v \in vmas : v # s => ~Overlap(v, s.lo, s.hi)
  BY <1>1 DEF VmaInv, Overlap
<1>3. Overlap(s, s.lo, s.hi)
  BY <1>1 DEF Overlap
<1>4. {v \in vmas : ~Overlap(v, s.lo, s.hi)} = vmas \ {s}
  BY <1>2, <1>3
<1>5. \A u \in vmas : Overlap(u, s.lo, s.hi) => u = s
  BY <1>2
<1>6. ~(s.lo < s.lo) /\ ~(s.hi > s.hi)
  BY <1>1
<1>7. /\ {u \in vmas : Overlap(u, s.lo, s.hi) /\ u.lo < s.lo} = {}
      /\ {u \in vmas : Overlap(u, s.lo, s.hi) /\ u.hi > s.hi} = {}
  BY <1>5, <1>6
<1> QED
  BY <1>4, <1>7 DEF Without

\* The old stack, which is mapped until sa_pivot takes it.
LEMMA OldStack ==
    ASSUME ClobberInv, pc # "start"
    PROVE  \E s \in maps0 : /\ s \in vmas /\ Inside(sp0, s) /\ sp0 \in Nat
                           /\ {v \in maps0 : v.use = "stack"} = {s}
<1>1. maps0 \subseteq vmas /\ maps0 \in Maps
  BY DEF ClobberInv, PlaceInv, NothingClobbered
<1>2. PICK s \in maps0 : s.use = "stack" /\ Inside(sp0, s) /\ sp0 \in Nat
  BY DEF ClobberInv, PlaceInv
<1>3. \E t \in maps0 : {v \in maps0 : v.use = "stack"} = {t}
  BY <1>1, MapsFacts
<1>4. {v \in maps0 : v.use = "stack"} = {s}
  BY <1>2, <1>3
<1> QED
  BY <1>1, <1>2, <1>4

\* sa_pivot unmaps the old stack, whole and alone.
LEMMA SaPivotStep ==
    ASSUME ClobberInv, SaPivot
    PROVE  ClobberInv'
<1>1. pc = "pivot" /\ UNCHANGED <<maps0, target, jumped, sp0>>
  BY DEF SaPivot
<1>2. PICK s \in maps0 : /\ s \in vmas /\ Inside(sp0, s) /\ sp0 \in Nat
                         /\ {v \in maps0 : v.use = "stack"} = {s}
  BY <1>1, OldStack
<1>3. VmaInv
  BY DEF ClobberInv, PlaceInv
<1>4. find_vma(vmas, sp0) = s /\ s # NoVma
  BY <1>2, <1>3, FindVma
<1>5. vmas' = vmas \ {s} /\ pc' = "start"
  BY <1>2, <1>3, <1>4, WithoutOne DEF SaPivot, Unmapped
<1>6. VmaInv' /\ PoolInv'
  BY <1>1, <1>3, <1>5 DEF ClobberInv, PlaceInv, VmaInv, PoolInv
<1>7. maps0 \ vmas' = {s}
  BY <1>1, <1>2, <1>5 DEF ClobberInv, NothingClobbered
<1>8. NothingClobbered' /\ SetupMemory'
  BY <1>1, <1>2, <1>5, <1>7 DEF NothingClobbered, SetupMemory
<1> QED
  BY <1>1, <1>5, <1>6, <1>8 DEF ClobberInv, PlaceInv, Inside

\* The stub.
LEMMA StubStep ==
    ASSUME ClobberInv, Mmap \/ Relocate \/ OpenDevice
    PROVE  ClobberInv'
<1>1. UNCHANGED <<maps0, target, jumped, sp0>> /\ pc \in {"entry", "relocate", "open"}
  BY DEF Mmap, Relocate, OpenDevice, stubVars
<1>a. CASE Mmap /\ pc' = "relocate"
  <2>1. PICK a \in Places(ADR_HINT, STACK_SIZE) :
            vmas' = vmas \cup {Vma(a, a + STACK_SIZE, "new_stack")}
    BY <1>a DEF Mmap
  <2>2. STACK_SIZE \in Nat \ {0} /\ ADR_HINT \in Nat
    BY StartupConstants
  <2>3. a \in Nat /\ a > 0 /\ a + STACK_SIZE <= TASK_SIZE /\ Free(a, a + STACK_SIZE)
    BY <2>2, PlacesFree
  <2> QED
    BY <1>a, <1>1, <2>1, <2>2, <2>3, MapStep
<1>b. CASE UNCHANGED vmas /\ pc' \in {"exit", "wild", "open", "pivot"}
  BY <1>b, <1>1, QuietStep
<1> QED
  BY <1>a, <1>b DEF Mmap, Relocate, OpenDevice, Exit

\* Every step of the start of a process.
LEMMA ClobberStep == ClobberInv /\ [Next]_vars => ClobberInv'
<1> SUFFICES ASSUME ClobberInv, [Next]_vars PROVE ClobberInv'
  OBVIOUS
<1>a. CASE PlaceNext /\ UNCHANGED stubVars
  <2>0. sp0' = sp0
    BY <1>a DEF stubVars
  <2>1. CASE OpenMaps
    BY <2>0, <2>1, OpenMapsStep
  <2>2. CASE NoMaps \/ JumpOver
    BY <2>0, <2>2, GiveUpStep
  <2>3. CASE \E v \in unread : ReadLine(v)
    BY <2>0, <2>3, ReadLineStep
  <2>4. CASE LastGap
    BY <2>0, <2>4, LastGapStep
  <2>5. CASE ChooseTarget
    BY <2>0, <2>5, ChooseTargetStep
  <2>6. CASE Reserve
    BY <2>0, <2>6, ReserveStep
  <2>7. CASE Reserved
    BY <2>0, <2>7, ReservedStep
  <2>8. CASE MemPoolInit
    BY <2>0, <2>8, MemPoolInitStep
  <2> QED
    BY <1>a, <2>1, <2>2, <2>3, <2>4, <2>5, <2>6, <2>7, <2>8 DEF PlaceNext
<1>b. CASE Mmap \/ Relocate \/ OpenDevice
  BY <1>b, StubStep
<1>c. CASE SaPivot
  BY <1>c, SaPivotStep
<1>d. CASE UNCHANGED vars
  <2>1. UNCHANGED <<pc, vmas, maps0, unread, prev_hi, list, target, jumped, sp0>>
    BY <1>d DEF vars, placeVars, scanVars
  <2>2. VmaInv' /\ PoolInv' /\ NothingClobbered' /\ SetupMemory'
    BY <2>1, VmasStay DEF ClobberInv, PlaceInv, NothingClobbered, SetupMemory
  <2>3. ListInv => ListInv'
    BY <2>1, GapsStay DEF ListInv
  <2>4. (LinesInv => LinesInv') /\ (ChooseInv => ChooseInv')
    BY <2>1 DEF LinesInv, ChooseInv, Covered, Inside
  <2>5. (TargetInv => TargetInv') /\ \A g \in Gaps : TargetGap(g) => TargetGap(g)'
    BY <2>1 DEF TargetInv, TargetGap, Covered, Inside, Free, Overlap
  <2>6. (\E g \in Gaps : TargetGap(g)) => (\E g \in Gaps : TargetGap(g)')
    BY <2>5
  <2>7. PoolHint => PoolHint'
    BY <2>1 DEF PoolHint, Free, Overlap
  <2> QED
    BY <2>1, <2>2, <2>3, <2>4, <2>5, <2>6, <2>7 DEF ClobberInv, PlaceInv, Inside
<1> QED
  BY <1>a, <1>b, <1>c, <1>d DEF Next

\* The invariant holds throughout.
THEOREM ClobberAlways == Spec => []ClobberInv
BY PlaceFirst, ClobberStep, PTL DEF Spec

\* NothingClobbered for every memory layout, arguments and sizes: the MAP_FIXED
\* reservations of reserve_all and the munmap of sa_pivot take no mapping of the
\* process but the old stack, and that one at the pivot.
THEOREM StartupNothingClobbered == Spec => []NothingClobbered
<1>1. ClobberInv => NothingClobbered
  BY DEF ClobberInv
<1> QED
  BY <1>1, ClobberAlways, PTL

\* SetupMemory for every memory layout: setup_memory chooses the highest free
\* place for the pool, and returns 0 only when every other gap is reserved.
THEOREM StartupSetupMemory == Spec => []SetupMemory
<1>1. ClobberInv => SetupMemory
  BY DEF ClobberInv
<1> QED
  BY <1>1, ClobberAlways, PTL

\* TopGapOnly for every memory layout and sizes: setup_memory returns 0 only with
\* the gap under CEIL, and MemPoolInit's pool then ends at TASK_SIZE.
THEOREM StartupTopGapOnly == Spec => []TopGapOnly
<1>1. ClobberInv => TopGapOnly
  BY DEF ClobberInv, PlaceInv, PoolInv, PoolHint, TopGapOnly
<1> QED
  BY <1>1, ClobberAlways, PTL

-----------------------------------------------------------------------------
(***************************************************************************)
(* The scans of the stub.                                                  *)
(***************************************************************************)

\* The words at sp are argc and three tables, ending at p, q and r.
Tabled(m, sp, p, q, r) ==
    /\ DOMAIN m \subseteq Int /\ sp \in Int /\ p \in Int /\ q \in Int /\ r \in Int
    /\ FirstZero(m, sp + 1, p) /\ FirstZero(m, p + 1, q) /\ AuxEnd(m, q + 1, r)

\* A scan ends at the first zero, whatever there is beyond it.
LEMMA ZeroFromIs ==
    ASSUME NEW m, DOMAIN m \subseteq Int, NEW x \in Int, NEW z \in Int, FirstZero(m, x, z)
    PROVE  ZeroFrom(m, x) = z
<1> DEFINE S == {y \in DOMAIN m : y >= x /\ m[y] = 0}
<1>1. S \subseteq Int /\ z \in S
  BY DEF FirstZero
<1>2. ASSUME NEW y \in S
      PROVE  z <= y
  <2>1. y \in Int /\ x <= y /\ m[y] = 0
    OBVIOUS
  <2>2. y \notin x .. z - 1
    BY <2>1 DEF FirstZero
  <2> QED
    BY <2>1, <2>2
<1> HIDE DEF S
<1>3. Min(S) = z
  BY <1>1, <1>2, MinIs
<1> QED
  BY <1>3 DEF ZeroFrom, S

\* The same of the scan of auxv.
LEMMA AuxSlotsIs ==
    ASSUME NEW m, DOMAIN m \subseteq Int, NEW x \in Int, NEW z \in Int, AuxEnd(m, x, z)
    PROVE  AuxSlots(m, x) = {y \in x .. z - 1 : (y - x) % 2 = 0}
<1> DEFINE S == {y \in DOMAIN m : y >= x /\ (y - x) % 2 = 0 /\ m[y] = AT_NULL}
<1>1. S \subseteq Int /\ z \in S
  BY DEF AuxEnd
<1>2. ASSUME NEW y \in S
      PROVE  z <= y
  <2>1. y \in Int /\ x <= y /\ (y - x) % 2 = 0 /\ m[y] = AT_NULL
    OBVIOUS
  <2>2. y \notin x .. z - 1
    BY <2>1 DEF AuxEnd
  <2> QED
    BY <2>1, <2>2
<1> HIDE DEF S
<1>3. Min(S) = z
  BY <1>1, <1>2, MinIs
<1> QED
  BY <1>3 DEF AuxSlots, S

\* What the stub finds in the tables.
LEMMA TablesAre ==
    ASSUME NEW m, NEW sp, NEW p, NEW q, NEW r, Tabled(m, sp, p, q, r)
    PROVE  /\ ArgvEnd(m, sp) = p /\ EnvpEnd(m, sp) = q
           /\ AuxKeys(m, sp) = {y \in q + 1 .. r - 1 : (y - (q + 1)) % 2 = 0}
<1>1. DOMAIN m \subseteq Int /\ sp \in Int /\ p \in Int /\ q \in Int /\ r \in Int
  BY DEF Tabled
<1>2. sp + 1 \in Int /\ p + 1 \in Int /\ q + 1 \in Int
  BY <1>1
<1>3. ArgvEnd(m, sp) = p
  BY <1>1, <1>2, ZeroFromIs DEF Tabled, ArgvEnd
<1>4. EnvpEnd(m, sp) = q
  BY <1>1, <1>2, <1>3, ZeroFromIs DEF Tabled, EnvpEnd
<1>5. AuxSlots(m, q + 1) = {y \in q + 1 .. r - 1 : (y - (q + 1)) % 2 = 0}
  BY <1>1, <1>2, AuxSlotsIs DEF Tabled
<1> QED
  BY <1>3, <1>4, <1>5 DEF AuxKeys

\* y is a key word of auxv.
KeyWord(q, r, y) == y \in q + 1 .. r - 1 /\ (y - (q + 1)) % 2 = 0

\* The values of some keys, and the pointers.
LEMMA PointersAre ==
    ASSUME NEW m, NEW sp, NEW p, NEW q, NEW r, Tabled(m, sp, p, q, r), NEW K
    PROVE  /\ AuxValues(m, sp, K) \subseteq q + 2 .. r
           /\ \A y \in Int :
                y \in AuxValues(m, sp, K) <=> KeyWord(q, r, y - 1) /\ m[y - 1] \in K
           /\ Pointers(m, sp, K) =
                (sp + 1 .. p - 1) \cup (p + 1 .. q - 1) \cup AuxValues(m, sp, K)
           /\ Pointers(m, sp, K) \subseteq sp + 1 .. r
<1>1. sp \in Int /\ p \in Int /\ q \in Int /\ r \in Int
  BY DEF Tabled
<1>2. sp + 1 <= p /\ p + 1 <= q /\ q + 1 <= r
  BY DEF Tabled, FirstZero, AuxEnd
<1>3. AuxKeys(m, sp) = {y \in q + 1 .. r - 1 : (y - (q + 1)) % 2 = 0}
  BY TablesAre
<1>4. \A z : z \in AuxKeys(m, sp) <=> KeyWord(q, r, z)
  BY <1>3 DEF KeyWord
<1>5. \A z \in AuxKeys(m, sp) : z \in Int /\ q + 1 <= z /\ z <= r - 1
  BY <1>1, <1>3
<1>6. AuxValues(m, sp, K) \subseteq q + 2 .. r
  <2> SUFFICES ASSUME NEW y \in AuxValues(m, sp, K) PROVE y \in q + 2 .. r
    OBVIOUS
  <2>1. PICK z \in AuxKeys(m, sp) : y = z + 1
    BY DEF AuxValues
  <2> QED
    BY <2>1, <1>1, <1>5
<1>7. ASSUME NEW y \in Int
      PROVE  y \in AuxValues(m, sp, K) <=> KeyWord(q, r, y - 1) /\ m[y - 1] \in K
  <2>1. ASSUME y \in AuxValues(m, sp, K)
        PROVE  KeyWord(q, r, y - 1) /\ m[y - 1] \in K
    <3>1. PICK z \in AuxKeys(m, sp) : y = z + 1 /\ m[z] \in K
      BY <2>1 DEF AuxValues
    <3>2. z = y - 1
      BY <3>1, <1>5
    <3> QED
      BY <3>1, <3>2, <1>4
  <2>2. ASSUME KeyWord(q, r, y - 1), m[y - 1] \in K
        PROVE  y \in AuxValues(m, sp, K)
    <3>1. y - 1 \in AuxKeys(m, sp) /\ y = (y - 1) + 1
      BY <2>2, <1>4
    <3> QED
      BY <3>1, <2>2 DEF AuxValues
  <2> QED
    BY <2>1, <2>2
<1>8. Pointers(m, sp, K) = (sp + 1 .. p - 1) \cup (p + 1 .. q - 1) \cup AuxValues(m, sp, K)
  BY TablesAre DEF Pointers
<1>9. Pointers(m, sp, K) \subseteq sp + 1 .. r
  BY <1>1, <1>2, <1>6, <1>8
<1> QED
  BY <1>6, <1>7, <1>8, <1>9

\* A set of numbers has a least one.
LEMMA LeastOf ==
    ASSUME NEW S, S \subseteq Nat, S # {}
    PROVE  Min(S) \in S /\ \A y \in S : Min(S) <= y
<1> DEFINE R == {ss \in Nat \X Nat : ss[1] < ss[2]}
<1>1. IsWellFoundedOn(R, Nat)
  BY NatLessThanWellFounded DEF OpToRel
<1>2. PICK x \in S : \A y \in S : ~(<<y, x>> \in R)
  <2> HIDE DEF R
  <2> QED
    BY <1>1, WFMin
<1>3. ASSUME NEW y \in S
      PROVE  x <= y
  <2>1. x \in Nat /\ y \in Nat
    OBVIOUS
  <2>2. y < x => <<y, x>> \in R
    BY <2>1
  <2>3. ~(y < x)
    BY <2>2, <1>2
  <2> HIDE DEF R
  <2> QED
    BY <2>1, <2>3
<1>4. Min(S) = x
  <2>1. S \subseteq Int
    OBVIOUS
  <2> HIDE DEF R
  <2> QED
    BY <2>1, <1>3, MinIs
<1> QED
  BY <1>3, <1>4

\* A bounded set of numbers has a greatest one.
LEMMA GreatestOf ==
    ASSUME NEW b \in Nat, NEW S, S \subseteq 0 .. b, S # {}
    PROVE  Max(S) \in S /\ \A y \in S : Max(S) >= y
<1> DEFINE T == {b - y : y \in S}
<1>1. T \subseteq Nat /\ T # {}
  <2>1. \A y \in S : y \in Int /\ 0 <= y /\ y <= b
    OBVIOUS
  <2>2. \A y \in S : b - y \in Nat
    BY <2>1
  <2> QED
    BY <2>2
<1>2. PICK t \in T : t = Min(T) /\ \A u \in T : t <= u
  <2> HIDE DEF T
  <2> QED
    BY <1>1, LeastOf
<1>3. PICK x \in S : t = b - x
  OBVIOUS
<1>4. ASSUME NEW y \in S
      PROVE  x >= y
  <2>1. b - y \in T
    OBVIOUS
  <2>2. t <= b - y
    BY <2>1, <1>2
  <2>3. x \in Int /\ y \in Int
    OBVIOUS
  <2> HIDE DEF T
  <2> QED
    BY <2>2, <2>3, <1>3
<1>5. S \subseteq Int
  OBVIOUS
<1>6. Max(S) = x
  <2> HIDE DEF T
  <2> QED
    BY <1>4, <1>5, MaxIs
<1> QED
  BY <1>4, <1>6

\* A string or table that is moved by d still ends at its first zero.
LEMMA ShiftZero ==
    ASSUME NEW m, NEW n, NEW d \in Int, NEW x \in Int, NEW z \in Int, FirstZero(m, x, z),
           \A y \in x .. z : y + d \in DOMAIN n /\ (n[y + d] = 0 <=> m[y] = 0)
    PROVE  FirstZero(n, x + d, z + d)
<1>1. x <= z /\ m[z] = 0 /\ \A y \in x .. z - 1 : m[y] # 0
  BY DEF FirstZero
<1>2. x + d <= z + d
  BY <1>1
<1>3. ASSUME NEW w \in x + d .. z + d
      PROVE  w \in DOMAIN n /\ (n[w] = 0 <=> m[w - d] = 0)
  <2>1. w - d \in x .. z /\ (w - d) + d = w
    OBVIOUS
  <2> QED
    BY <2>1
<1>4. n[z + d] = 0
  <2>1. z \in x .. z
    BY <1>1
  <2> QED
    BY <2>1, <1>1
<1>5. ASSUME NEW w \in x + d .. (z + d) - 1
      PROVE  n[w] # 0
  <2>1. w \in x + d .. z + d /\ w - d \in x .. z - 1
    OBVIOUS
  <2> QED
    BY <2>1, <1>1, <1>3
<1> QED
  BY <1>2, <1>3, <1>4, <1>5 DEF FirstZero

\* The words x .. y of m are found d higher in n.
Shifted(n, m, d, x, y) ==
    /\ DOMAIN n \subseteq Int
    /\ \A w \in x .. y : w + d \in DOMAIN n /\ n[w + d] = m[w]

\* Tables that are copied by d are the tables of the copy.
LEMMA ShiftTables ==
    ASSUME NEW m, NEW sp, NEW p, NEW q, NEW r, Tabled(m, sp, p, q, r),
           NEW n, NEW d \in Int, Shifted(n, m, d, sp, r + 1)
    PROVE  Tabled(n, sp + d, p + d, q + d, r + d)
<1>0. /\ DOMAIN n \subseteq Int
      /\ \A x \in sp .. r + 1 : x + d \in DOMAIN n /\ n[x + d] = m[x]
  BY DEF Shifted
<1>1. sp \in Int /\ p \in Int /\ q \in Int /\ r \in Int
  BY DEF Tabled
<1>2. sp + 1 <= p /\ p + 1 <= q /\ q + 1 <= r
  BY DEF Tabled, FirstZero, AuxEnd
<1>3. FirstZero(n, (sp + 1) + d, p + d)
  <2>1. sp + 1 .. p \subseteq sp .. r + 1
    BY <1>1, <1>2
  <2>2. \A y \in sp + 1 .. p : y + d \in DOMAIN n /\ (n[y + d] = 0 <=> m[y] = 0)
    BY <1>0, <2>1
  <2>3. sp + 1 \in Int
    BY <1>1
  <2> QED
    BY <2>2, <2>3, <1>1, ShiftZero DEF Tabled
<1>4. FirstZero(n, (p + 1) + d, q + d)
  <2>1. p + 1 .. q \subseteq sp .. r + 1
    BY <1>1, <1>2
  <2>2. \A y \in p + 1 .. q : y + d \in DOMAIN n /\ (n[y + d] = 0 <=> m[y] = 0)
    BY <1>0, <2>1
  <2>3. p + 1 \in Int
    BY <1>1
  <2> QED
    BY <2>2, <2>3, <1>1, ShiftZero DEF Tabled
<1>5. AuxEnd(n, (q + 1) + d, r + d)
  <2> DEFINE x == q + 1
  <2>1. /\ x \in Int /\ x <= r /\ (r - x) % 2 = 0 /\ m[r] = AT_NULL
        /\ \A y \in x .. r - 1 : (y - x) % 2 = 0 => m[y] # AT_NULL
    BY <1>1, <1>2 DEF Tabled, AuxEnd
  <2>2. x .. r + 1 \subseteq sp .. r + 1
    BY <1>1, <1>2
  <2> HIDE DEF x
  <2>3. \A y \in x .. r + 1 : y + d \in DOMAIN n /\ n[y + d] = m[y]
    BY <1>0, <2>2
  <2>4. ASSUME NEW w \in x + d .. (r + d) + 1
        PROVE  w \in DOMAIN n /\ n[w] = m[w - d]
    <3>1. w - d \in x .. r + 1 /\ (w - d) + d = w
      BY <1>1, <2>1
    <3> QED
      BY <3>1, <2>3
  <2>5. ASSUME NEW w \in x + d .. (r + d) - 1, (w - (x + d)) % 2 = 0
        PROVE  n[w] # AT_NULL
    <3>1. /\ w \in Int /\ w \in x + d .. (r + d) + 1 /\ w - d \in x .. r - 1
          /\ w - (x + d) = (w - d) - x
      BY <1>1, <2>1
    <3> QED
      BY <3>1, <2>1, <2>4, <2>5
  <2>6. /\ x + d <= r + d /\ (r + d) - (x + d) = r - x
        /\ r + d \in x + d .. (r + d) + 1 /\ (r + d) - d = r
    BY <1>1, <2>1
  <2>7. AuxEnd(n, x + d, r + d)
    <3>1. n[r + d] = AT_NULL
      BY <2>1, <2>4, <2>6
    <3>2. ((r + d) - (x + d)) % 2 = 0
      BY <2>1, <2>6
    <3>3. x + d .. (r + d) + 1 \subseteq DOMAIN n
      BY <2>4
    <3> QED
      BY <3>1, <3>2, <3>3, <2>5, <2>6 DEF AuxEnd
  <2> QED
    BY <2>7 DEF x
<1>6. (sp + 1) + d = (sp + d) + 1 /\ (p + 1) + d = (p + d) + 1 /\ (q + 1) + d = (q + d) + 1
  BY <1>1
<1>7. sp + d \in Int /\ p + d \in Int /\ q + d \in Int /\ r + d \in Int
  BY <1>1
<1> QED
  BY <1>0, <1>3, <1>4, <1>5, <1>6, <1>7 DEF Tabled

\* The pointers of such a copy are the moved pointers.
LEMMA ShiftPointers ==
    ASSUME NEW m, NEW sp, NEW p, NEW q, NEW r, Tabled(m, sp, p, q, r),
           NEW n, NEW d \in Int, Shifted(n, m, d, sp, r + 1), NEW K, NEW y \in Int
    PROVE  /\ y + d \in AuxValues(n, sp + d, K) <=> y \in AuxValues(m, sp, K)
           /\ y + d \in Pointers(n, sp + d, K) <=> y \in Pointers(m, sp, K)
<1>1. sp \in Int /\ p \in Int /\ q \in Int /\ r \in Int
  BY DEF Tabled
<1>2. sp + 1 <= p /\ p + 1 <= q /\ q + 1 <= r
  BY DEF Tabled, FirstZero, AuxEnd
<1>3. Tabled(n, sp + d, p + d, q + d, r + d)
  BY ShiftTables
<1>4. y + d \in Int /\ (y + d) - 1 = (y - 1) + d
  OBVIOUS
<1>5. KeyWord(q + d, r + d, (y - 1) + d) <=> KeyWord(q, r, y - 1)
  <2>1. ((y - 1) + d) - ((q + d) + 1) = (y - 1) - (q + 1)
    BY <1>1
  <2>2. (y - 1) + d \in (q + d) + 1 .. (r + d) - 1 <=> y - 1 \in q + 1 .. r - 1
    BY <1>1
  <2> QED
    BY <2>1, <2>2 DEF KeyWord
<1>6. KeyWord(q, r, y - 1) => n[(y - 1) + d] = m[y - 1]
  <2>1. KeyWord(q, r, y - 1) => y - 1 \in sp .. r + 1
    BY <1>1, <1>2 DEF KeyWord
  <2> QED
    BY <2>1 DEF Shifted
<1>7. y + d \in AuxValues(n, sp + d, K) <=> y \in AuxValues(m, sp, K)
  <2>1. y \in AuxValues(m, sp, K) <=> KeyWord(q, r, y - 1) /\ m[y - 1] \in K
    BY PointersAre
  <2>2. y + d \in AuxValues(n, sp + d, K)
            <=> KeyWord(q + d, r + d, (y + d) - 1) /\ n[(y + d) - 1] \in K
    BY <1>3, <1>4, PointersAre
  <2> QED
    BY <2>1, <2>2, <1>4, <1>5, <1>6
<1>8. y + d \in (sp + d) + 1 .. (p + d) - 1 <=> y \in sp + 1 .. p - 1
  BY <1>1
<1>9. y + d \in (p + d) + 1 .. (q + d) - 1 <=> y \in p + 1 .. q - 1
  BY <1>1
<1>10. Pointers(m, sp, K) = (sp + 1 .. p - 1) \cup (p + 1 .. q - 1) \cup AuxValues(m, sp, K)
  BY PointersAre
<1>11. Pointers(n, sp + d, K) =
            ((sp + d) + 1 .. (p + d) - 1) \cup ((p + d) + 1 .. (q + d) - 1)
            \cup AuxValues(n, sp + d, K)
  BY <1>3, PointersAre
<1> QED
  BY <1>7, <1>8, <1>9, <1>10, <1>11

-----------------------------------------------------------------------------
(***************************************************************************)
(* The objects above the tables, and the end of the copy.                  *)
(***************************************************************************)

\* The objects of a stack that ends at hi, with tables that end at r + 1.
Objects(m, sp, r, hi) ==
    /\ Pointers(m, sp, PivotKeys) # {}
    /\ \A y \in Pointers(m, sp, PivotKeys) :
            m[y] > r + 1 /\ \E z \in m[y] .. hi - 2 : ObjectEnd(m, sp, y, z)
    /\ \A y, z \in Pointers(m, sp, PivotKeys) :
            \/ y = z
            \/ \E e \in DOMAIN m : ObjectEnd(m, sp, y, e) /\ e < m[z]
            \/ \E e \in DOMAIN m : ObjectEnd(m, sp, z, e) /\ e < m[y]
    /\ \A y \in Pointers(m, sp, StubKeys) :
            \E z \in Pointers(m, sp, PivotKeys) : m[y] <= m[z]

\* The contents m of a stack lo .. hi-1 whose tables start at sp.
Image(m, sp, lo, hi, p, q, r) ==
    /\ lo \in Nat /\ hi \in Nat /\ DOMAIN m = lo .. hi - 1
    /\ \A x \in lo .. hi - 1 : m[x] \in Nat
    /\ sp \in lo .. hi - 1 /\ p \in lo .. hi - 1 /\ q \in lo .. hi - 1 /\ r \in lo .. hi - 1
    /\ r + 1 \in lo .. hi - 1
    /\ Tabled(m, sp, p, q, r) /\ Objects(m, sp, r, hi)

\* The order of the parts.
LEMMA ImageOrder ==
    ASSUME NEW m, NEW sp, NEW lo, NEW hi, NEW p, NEW q, NEW r, Image(m, sp, lo, hi, p, q, r)
    PROVE  /\ lo \in Nat /\ hi \in Nat /\ sp \in Nat /\ p \in Nat /\ q \in Nat /\ r \in Nat
           /\ lo <= sp /\ sp + 1 <= p /\ p + 1 <= q /\ q + 1 <= r /\ r + 1 <= hi - 1
           /\ DOMAIN m \subseteq Int /\ DOMAIN m = lo .. hi - 1
           /\ \A x \in DOMAIN m : m[x] \in Nat
<1>1. sp + 1 <= p /\ p + 1 <= q /\ q + 1 <= r
  BY DEF Image, Tabled, FirstZero, AuxEnd
<1>2. /\ lo \in Nat /\ hi \in Nat /\ DOMAIN m = lo .. hi - 1
      /\ \A x \in lo .. hi - 1 : m[x] \in Nat
      /\ sp \in lo .. hi - 1 /\ p \in lo .. hi - 1 /\ q \in lo .. hi - 1 /\ r \in lo .. hi - 1
      /\ r + 1 \in lo .. hi - 1
  BY DEF Image
<1>3. /\ sp \in Nat /\ p \in Nat /\ q \in Nat /\ r \in Nat /\ lo <= sp /\ r + 1 <= hi - 1
  BY <1>2
<1>4. DOMAIN m \subseteq Int
  BY <1>2
<1> QED
  BY <1>1, <1>2, <1>3, <1>4

\* Pointers to objects are pointers of the stub, and words of the tables.
LEMMA ImagePointers ==
    ASSUME NEW m, NEW sp, NEW lo, NEW hi, NEW p, NEW q, NEW r, Image(m, sp, lo, hi, p, q, r)
    PROVE  /\ Pointers(m, sp, StubKeys) \subseteq sp + 1 .. r
           /\ Pointers(m, sp, PivotKeys) \subseteq Pointers(m, sp, StubKeys)
           /\ AuxValues(m, sp, {AT_RANDOM}) \subseteq Pointers(m, sp, PivotKeys)
           /\ Pointers(m, sp, StubKeys) \subseteq
                Pointers(m, sp, PivotKeys) \cup AuxValues(m, sp, {AT_BASE})
<1>1. Tabled(m, sp, p, q, r)
  BY DEF Image
<1>2. Pointers(m, sp, StubKeys) \subseteq sp + 1 .. r
  BY <1>1, PointersAre
<1>3. \A K : Pointers(m, sp, K) =
            (sp + 1 .. p - 1) \cup (p + 1 .. q - 1) \cup AuxValues(m, sp, K)
  BY <1>1, PointersAre
<1>4. AuxValues(m, sp, PivotKeys) \subseteq AuxValues(m, sp, StubKeys)
  BY DEF AuxValues, PivotKeys, StubKeys
<1>5. AuxValues(m, sp, {AT_RANDOM}) \subseteq AuxValues(m, sp, PivotKeys)
  BY DEF AuxValues, PivotKeys
<1>6. AuxValues(m, sp, StubKeys) \subseteq
            AuxValues(m, sp, PivotKeys) \cup AuxValues(m, sp, {AT_BASE})
  BY DEF AuxValues, PivotKeys, StubKeys
<1> QED
  BY <1>2, <1>3, <1>4, <1>5, <1>6

\* An object has one end, not below its start.
LEMMA ObjectEndIs ==
    ASSUME NEW m, NEW sp, NEW y, DOMAIN m \subseteq Int, m[y] \in Nat,
           NEW z \in Int, ObjectEnd(m, sp, y, z)
    PROVE  /\ m[y] <= z
           /\ \A e \in Int : ObjectEnd(m, sp, y, e) => e = z
<1>1. RANDOM_LEN \in Nat /\ RANDOM_LEN >= 1
  BY StartupConstants
<1>a. CASE y \in AuxValues(m, sp, {AT_RANDOM})
  BY <1>a, <1>1 DEF ObjectEnd
<1>b. CASE y \notin AuxValues(m, sp, {AT_RANDOM})
  <2>1. FirstZero(m, m[y], z)
    BY <1>b DEF ObjectEnd
  <2>2. m[y] \in Int /\ ZeroFrom(m, m[y]) = z
    BY <2>1, ZeroFromIs
  <2>3. \A e \in Int : FirstZero(m, m[y], e) => e = z
    BY <2>2, ZeroFromIs
  <2> QED
    BY <2>1, <2>3, <1>b DEF ObjectEnd, FirstZero
<1> QED
  BY <1>a, <1>b

\* t points to the highest object, which ends at z.
Topmost(m, sp, hi, t, z) ==
    /\ t \in Pointers(m, sp, PivotKeys) /\ z \in m[t] .. hi - 2 /\ ObjectEnd(m, sp, t, z)
    /\ \A y \in Pointers(m, sp, StubKeys) : m[y] <= m[t]

\* There is a highest object.
LEMMA TopObject ==
    ASSUME NEW m, NEW sp, NEW lo, NEW hi, NEW p, NEW q, NEW r, Image(m, sp, lo, hi, p, q, r)
    PROVE  \E t, z : Topmost(m, sp, hi, t, z)
<1> DEFINE P == Pointers(m, sp, PivotKeys)
           S == {m[y] : y \in P}
<1>1. /\ hi \in Nat /\ sp \in Nat /\ r \in Nat /\ lo <= sp /\ r + 1 <= hi - 1
      /\ lo \in Nat /\ DOMAIN m = lo .. hi - 1 /\ \A x \in DOMAIN m : m[x] \in Nat
  BY ImageOrder
<1>2. P \subseteq sp + 1 .. r
  BY ImagePointers
<1>3. P # {} /\ \A y \in P : m[y] > r + 1 /\ \E z \in m[y] .. hi - 2 : ObjectEnd(m, sp, y, z)
  BY DEF Image, Objects
<1>4. sp + 1 .. r \subseteq DOMAIN m
  BY <1>1
<1>5. \A y \in Pointers(m, sp, StubKeys) : y \in DOMAIN m /\ \E z \in P : m[y] <= m[z]
  BY <1>4, ImagePointers DEF Image, Objects
<1> HIDE DEF P
<1>6. ASSUME NEW y \in P
      PROVE  m[y] \in Nat /\ m[y] <= hi
  <2>1. m[y] \in Nat
    BY <1>1, <1>2, <1>4
  <2>2. PICK z \in m[y] .. hi - 2 : ObjectEnd(m, sp, y, z)
    BY <1>3
  <2> QED
    BY <2>1, <2>2, <1>1
<1>7. S \subseteq 0 .. hi /\ S # {}
  BY <1>1, <1>3, <1>6
<1>8. Max(S) \in S /\ \A u \in S : Max(S) >= u
  <2> HIDE DEF S
  <2> QED
    BY <1>1, <1>7, GreatestOf
<1>9. PICK t \in P : m[t] = Max(S)
  BY <1>8
<1>10. \A y \in P : m[y] <= m[t]
  BY <1>6, <1>8, <1>9
<1>11. PICK z \in m[t] .. hi - 2 : ObjectEnd(m, sp, t, z)
  BY <1>3
<1>12. ASSUME NEW y \in Pointers(m, sp, StubKeys)
       PROVE  m[y] <= m[t]
  <2>1. PICK w \in P : m[y] <= m[w]
    BY <1>5
  <2>2. m[y] \in Nat /\ m[w] \in Nat /\ m[t] \in Nat /\ m[w] <= m[t]
    BY <1>1, <1>5, <1>6, <1>10
  <2> HIDE DEF S
  <2> QED
    BY <2>1, <2>2
<1> QED
  BY <1>11, <1>12 DEF Topmost, P

\* Memory n holds the stack m where it was.
Extends(n, m) == DOMAIN n \subseteq Int /\ \A x \in DOMAIN m : x \in DOMAIN n /\ n[x] = m[x]

\* The pointers found are those of the stack, whatever else is mapped.
LEMMA SamePointers ==
    ASSUME NEW m, NEW sp, NEW lo, NEW hi, NEW p, NEW q, NEW r, Image(m, sp, lo, hi, p, q, r),
           NEW n, Extends(n, m), NEW K
    PROVE  /\ AuxValues(n, sp, K) = AuxValues(m, sp, K)
           /\ Pointers(n, sp, K) = Pointers(m, sp, K)
           /\ Tabled(n, sp, p, q, r)
<1>1. /\ lo \in Nat /\ hi \in Nat /\ sp \in Nat /\ p \in Nat /\ q \in Nat /\ r \in Nat
      /\ lo <= sp /\ r + 1 <= hi - 1 /\ DOMAIN m = lo .. hi - 1
  BY ImageOrder
<1>2. Tabled(m, sp, p, q, r) /\ DOMAIN n \subseteq Int
  BY DEF Image, Extends
<1>3. sp .. r + 1 \subseteq DOMAIN m
  BY <1>1
<1>4. \A x \in sp .. r + 1 : x + 0 \in DOMAIN n /\ n[x + 0] = m[x]
  <2> SUFFICES ASSUME NEW x \in sp .. r + 1 PROVE x + 0 \in DOMAIN n /\ n[x + 0] = m[x]
    OBVIOUS
  <2>1. x + 0 = x
    BY <1>1
  <2> QED
    BY <2>1, <1>3 DEF Extends
<1>5. sp + 0 = sp /\ p + 0 = p /\ q + 0 = q /\ r + 0 = r /\ 0 \in Int
  BY <1>1
<1>6. Tabled(n, sp, p, q, r)
  <2>0. Shifted(n, m, 0, sp, r + 1)
    BY <1>2, <1>4 DEF Shifted
  <2>1. Tabled(n, sp + 0, p + 0, q + 0, r + 0)
    BY <2>0, <1>2, <1>5, ShiftTables
  <2> QED
    BY <2>1, <1>5
<1>7. ASSUME NEW y \in Int
      PROVE  /\ y \in AuxValues(n, sp, K) <=> y \in AuxValues(m, sp, K)
             /\ y \in Pointers(n, sp, K) <=> y \in Pointers(m, sp, K)
  <2>0. PICK d \in Int : d = 0
    OBVIOUS
  <2>3. Shifted(n, m, d, sp, r + 1)
    BY <2>0, <1>2, <1>4 DEF Shifted
  <2>1. /\ y + d \in AuxValues(n, sp + d, K) <=> y \in AuxValues(m, sp, K)
        /\ y + d \in Pointers(n, sp + d, K) <=> y \in Pointers(m, sp, K)
    BY <2>3, <1>2, ShiftPointers
  <2>2. y + d = y /\ sp + d = sp
    BY <2>0, <1>1
  <2> QED
    BY <2>1, <2>2
<1>8. /\ AuxValues(n, sp, K) \subseteq Int /\ Pointers(n, sp, K) \subseteq Int
      /\ AuxValues(m, sp, K) \subseteq Int /\ Pointers(m, sp, K) \subseteq Int
  <2>1. sp + 1 .. r \subseteq Int /\ q + 2 .. r \subseteq Int
    BY <1>1
  <2> QED
    BY <2>1, <1>2, <1>6, PointersAre
<1> QED
  BY <1>6, <1>7, <1>8

\* End is one above the highest object.
LEMMA EndIs ==
    ASSUME NEW m, NEW sp, NEW lo, NEW hi, NEW p, NEW q, NEW r, Image(m, sp, lo, hi, p, q, r),
           NEW t, NEW z, Topmost(m, sp, hi, t, z), NEW n, Extends(n, m)
    PROVE  End(n, sp) = z + 1
<1> DEFINE P == Pointers(m, sp, StubKeys)
           R == AuxValues(m, sp, {AT_RANDOM})
           S == {n[y] : y \in P}
<1>1. /\ hi \in Nat /\ sp \in Nat /\ r \in Nat /\ lo <= sp /\ r + 1 <= hi - 1
      /\ lo \in Nat /\ DOMAIN m = lo .. hi - 1 /\ \A x \in DOMAIN m : m[x] \in Nat
  BY ImageOrder
<1>2. Pointers(n, sp, StubKeys) = P /\ AuxValues(n, sp, {AT_RANDOM}) = R
  BY SamePointers
<1>3. P \subseteq DOMAIN m /\ R \subseteq P /\ t \in P
  <2>1. sp + 1 .. r \subseteq DOMAIN m
    BY <1>1
  <2> QED
    BY <2>1, ImagePointers DEF Topmost
<1>4. \A y \in P : n[y] = m[y] /\ m[y] \in Nat
  BY <1>1, <1>3 DEF Extends
<1>5. \A y \in P : m[y] <= m[t]
  BY DEF Topmost
<1>6. Max(S) = m[t]
  <2>1. m[t] \in S /\ S \subseteq Int
    BY <1>3, <1>4
  <2>2. \A u \in S : m[t] >= u
    BY <1>3, <1>4, <1>5
  <2> HIDE DEF S
  <2> QED
    BY <2>1, <2>2, MaxIs
<1>7. End(n, sp) = IF \E y \in R : n[y] = m[t] THEN m[t] + RANDOM_LEN
                                              ELSE ZeroFrom(n, m[t]) + 1
  BY <1>2, <1>6 DEF End
<1>8. z \in Int /\ m[t] <= z /\ z <= hi - 2 /\ m[t] \in Nat
  BY <1>1, <1>3, <1>4 DEF Topmost
<1>9. ObjectEnd(m, sp, t, z)
  BY DEF Topmost
<1>a. CASE t \in R
  <2>1. z = m[t] + RANDOM_LEN - 1 /\ RANDOM_LEN \in Nat
    BY <1>9, <1>a, StartupConstants DEF ObjectEnd
  <2>2. End(n, sp) = m[t] + RANDOM_LEN
    BY <1>a, <1>3, <1>4, <1>7
  <2> QED
    BY <2>1, <2>2, <1>8
<1>b. CASE t \notin R
  <2>1. ASSUME NEW y \in R, n[y] = m[t]
        PROVE  FALSE
    <3>1. m[y] = m[t] /\ y # t /\ y \in Pointers(m, sp, PivotKeys)
      BY <2>1, <1>b, <1>3, <1>4, ImagePointers
    <3>2. t \in Pointers(m, sp, PivotKeys)
      BY DEF Topmost
    <3>3. \/ \E e \in DOMAIN m : ObjectEnd(m, sp, y, e) /\ e < m[t]
          \/ \E e \in DOMAIN m : ObjectEnd(m, sp, t, e) /\ e < m[y]
      BY <3>1, <3>2 DEF Image, Objects
    <3>4. DOMAIN m \subseteq Int /\ m[y] \in Nat
      BY <1>1, <1>8, <3>1
    <3>5. \A e \in DOMAIN m : ObjectEnd(m, sp, y, e) => m[y] <= e
      BY <3>4, ObjectEndIs
    <3>6. \A e \in DOMAIN m : ObjectEnd(m, sp, t, e) => m[t] <= e
      BY <3>4, <1>8, ObjectEndIs
    <3> QED
      BY <3>1, <3>3, <3>4, <3>5, <3>6
  <2>2. FirstZero(m, m[t], z)
    BY <1>9, <1>b DEF ObjectEnd
  <2>3. FirstZero(n, m[t], z)
    <3>1. m[t] .. z \subseteq DOMAIN m
      BY <2>2 DEF FirstZero
    <3>2. \A x \in m[t] .. z : x \in DOMAIN n /\ n[x] = m[x]
      BY <3>1 DEF Extends
    <3>3. z \in m[t] .. z /\ m[t] .. z - 1 \subseteq m[t] .. z
      BY <1>8
    <3> QED
      BY <2>2, <3>2, <3>3 DEF FirstZero
  <2>4. ZeroFrom(n, m[t]) = z
    <3>1. m[t] \in Int /\ DOMAIN n \subseteq Int
      BY <1>8 DEF Extends
    <3> QED
      BY <2>3, <3>1, <1>8, ZeroFromIs
  <2> QED
    BY <2>1, <2>4, <1>7
<1> QED
  BY <1>a, <1>b

\* No object ends above the highest one.
LEMMA ObjectsBelow ==
    ASSUME NEW m, NEW sp, NEW lo, NEW hi, NEW p, NEW q, NEW r, Image(m, sp, lo, hi, p, q, r),
           NEW t, NEW z, Topmost(m, sp, hi, t, z), NEW y \in Pointers(m, sp, PivotKeys)
    PROVE  \E e \in Int : ObjectEnd(m, sp, y, e) /\ e <= z
<1>1. /\ hi \in Nat /\ sp \in Nat /\ r \in Nat /\ lo <= sp /\ r + 1 <= hi - 1
      /\ lo \in Nat /\ DOMAIN m = lo .. hi - 1 /\ \A x \in DOMAIN m : m[x] \in Nat
  BY ImageOrder
<1>2. t \in Pointers(m, sp, PivotKeys) /\ ObjectEnd(m, sp, t, z)
  BY DEF Topmost
<1>3. m[t] \in Nat /\ m[y] \in Nat /\ m[y] <= m[t]
  <2>1. sp + 1 .. r \subseteq DOMAIN m
    BY <1>1
  <2> QED
    BY <2>1, <1>1, <1>2, ImagePointers DEF Topmost
<1>4. z \in Int /\ m[t] <= z
  BY <1>1, <1>3 DEF Topmost
<1>a. CASE y = t
  BY <1>a, <1>2, <1>4
<1>b. CASE \E e \in DOMAIN m : ObjectEnd(m, sp, y, e) /\ e < m[t]
  <2>1. PICK e \in DOMAIN m : ObjectEnd(m, sp, y, e) /\ e < m[t]
    BY <1>b
  <2>2. e \in Int /\ e <= z
    BY <2>1, <1>1, <1>3, <1>4
  <2> QED
    BY <2>1, <2>2
<1>c. CASE \E e \in DOMAIN m : ObjectEnd(m, sp, t, e) /\ e < m[y]
  <2>1. PICK e \in DOMAIN m : ObjectEnd(m, sp, t, e) /\ e < m[y]
    BY <1>c
  <2>2. e \in Int /\ DOMAIN m \subseteq Int
    BY <1>1
  <2>3. m[t] <= e
    BY <2>1, <2>2, <1>3, ObjectEndIs
  <2> QED
    BY <2>1, <2>2, <2>3, <1>3
<1> QED
  BY <1>2, <1>a, <1>b, <1>c DEF Image, Objects

-----------------------------------------------------------------------------
(***************************************************************************)
(* The invariant of the copy.                                              *)
(***************************************************************************)

\* The fields k of mm describe the stack m.
Agrees(k, m, sp, p, q, r) ==
    /\ DOMAIN k.saved_auxv = 1 .. r + 1 - q
    /\ \A i \in 1 .. r + 1 - q : k.saved_auxv[i] = m[q + i]
    /\ p > sp + 1 => k.arg_start = m[sp + 1]
    /\ q > p + 1 => k.env_start = m[p + 1]
    /\ r + 1 < k.arg_start
    /\ k.arg_start \in Nat /\ k.arg_end \in k.arg_start .. k.env_end
    /\ \E y \in Pointers(m, sp, PivotKeys) : k.env_end = m[y]

\* The fields k after a pivot by d to an area at lo.
Pivoted(k, lo, d) ==
    [start_stack |-> lo,
     arg_start |-> k.arg_start + d, arg_end |-> k.arg_end + d,
     env_start |-> k.env_start + d, env_end |-> k.env_end + d,
     saved_auxv |-> [i \in DOMAIN k.saved_auxv |->
                        IF i % 2 = 0 /\ k.saved_auxv[i - 1] \in PivotKeys
                        THEN k.saved_auxv[i] + d ELSE k.saved_auxv[i]]]

\* n holds the words sp .. e of m, d higher, with the pointers of the stub moved.
CopyOf(n, m, sp, d, e) ==
    \A x \in sp .. e :
        /\ x + d \in DOMAIN n
        /\ n[x + d] = IF x \in Pointers(m, sp, StubKeys) THEN m[x] + d ELSE m[x]

\* The process was started by execve, and mm is as execve or sa_pivot left it.
EntryInv ==
    \E a \in Args, s \in maps0 :
        /\ s.use = "stack"
        /\ sp0 = Execve(a, s).rsp /\ mem0 = Execve(a, s).mem
        /\ mm = IF pc = "start" THEN Pivoted(Execve(a, s).mm, area, rsp - sp0)
                                ELSE Execve(a, s).mm

NewVma == Vma(area, area + STACK_SIZE, "new_stack")

\* The old stack as it was until it is copied, then the copy in the new one.
MemInv ==
    /\ area \in Nat /\ DOMAIN mem \subseteq Int
    /\ pc \in {"maps", "lines", "choose", "reserve", "pool", "entry"} =>
            mem = mem0 /\ rsp = sp0 /\ area = 0
    /\ pc \in {"relocate", "open", "pivot", "start"} => area > 0 /\ NewVma \in vmas
    /\ pc = "relocate" => rsp = sp0 /\ Extends(mem, mem0) /\ NewStack \subseteq DOMAIN mem
    /\ pc \in {"open", "pivot", "start"} =>
            /\ rsp \in Nat /\ area <= rsp
            /\ End(mem0, sp0) + (rsp - sp0) < area + STACK_SIZE
            /\ CopyOf(mem, mem0, sp0, rsp - sp0, End(mem0, sp0))
    /\ pc = "wild" => area = 0 \/ Length(mem0, sp0) + ALIGN + 2 > STACK_SIZE

CopyInv == EntryInv /\ MemInv

\* What execve is assumed to leave.
LEMMA AbiImage ==
    ASSUME NEW s, NEW v, v.lo \in Nat, v.hi \in Nat, AbiStack(s, v)
    PROVE  \E p, q, r : /\ Image(s.mem, s.rsp, v.lo, v.hi, p, q, r)
                        /\ Agrees(s.mm, s.mem, s.rsp, p, q, r)
<1>1. PICK m, sp, k : m = s.mem /\ sp = s.rsp /\ k = s.mm
  OBVIOUS
<1>2. /\ DOMAIN m = v.lo .. v.hi - 1 /\ \A x \in v.lo .. v.hi - 1 : m[x] \in Nat
      /\ sp \in v.lo .. v.hi - 1
      /\ k.arg_start \in Nat /\ k.arg_end \in k.arg_start .. k.env_end
      /\ \E y \in Pointers(m, sp, PivotKeys) : k.env_end = m[y]
  BY <1>1 DEF AbiStack
<1>3. /\ \A y, z \in Pointers(m, sp, PivotKeys) :
            \/ y = z
            \/ \E e \in DOMAIN m : ObjectEnd(m, sp, y, e) /\ e < m[z]
            \/ \E e \in DOMAIN m : ObjectEnd(m, sp, z, e) /\ e < m[y]
      /\ \A y \in Pointers(m, sp, StubKeys) :
            \E z \in Pointers(m, sp, PivotKeys) : m[y] <= m[z]
  BY <1>1 DEF AbiStack
<1>4. PICK p \in v.lo .. v.hi - 1, q \in v.lo .. v.hi - 1, r \in v.lo .. v.hi - 1 :
        /\ FirstZero(m, sp + 1, p) /\ FirstZero(m, p + 1, q) /\ AuxEnd(m, q + 1, r)
        /\ \A y \in Pointers(m, sp, PivotKeys) :
                m[y] > r + 1 /\ \E z \in m[y] .. v.hi - 2 : ObjectEnd(m, sp, y, z)
        /\ DOMAIN k.saved_auxv = 1 .. r + 1 - q
        /\ \A i \in 1 .. r + 1 - q : k.saved_auxv[i] = m[q + i]
        /\ p > sp + 1 => k.arg_start = m[sp + 1]
        /\ q > p + 1 => k.env_start = m[p + 1]
        /\ r + 1 < k.arg_start
  BY <1>1 DEF AbiStack
<1>5. sp \in Int /\ p \in Int /\ q \in Int /\ r \in Int /\ DOMAIN m \subseteq Int
  BY <1>2, <1>4
<1>6. Tabled(m, sp, p, q, r)
  BY <1>4, <1>5 DEF Tabled
<1>7. Objects(m, sp, r, v.hi)
  BY <1>2, <1>3, <1>4 DEF Objects
<1>8. r + 1 \in v.lo .. v.hi - 1
  <2>1. q + 1 .. r + 1 \subseteq DOMAIN m /\ q + 1 <= r
    BY <1>4 DEF AuxEnd
  <2>2. r + 1 \in q + 1 .. r + 1
    BY <2>1, <1>5
  <2> QED
    BY <2>1, <2>2, <1>2
<1>9. Image(m, sp, v.lo, v.hi, p, q, r)
  BY <1>2, <1>4, <1>6, <1>7, <1>8 DEF Image
<1>10. Agrees(k, m, sp, p, q, r)
  BY <1>2, <1>4 DEF Agrees
<1> QED
  BY <1>1, <1>9, <1>10

\* The stack a process was started with, and its highest object.
Entered(s, k, p, q, r, t, z) ==
    /\ Image(mem0, sp0, s.lo, s.hi, p, q, r) /\ Agrees(k, mem0, sp0, p, q, r)
    /\ Topmost(mem0, sp0, s.hi, t, z)
    /\ mm = IF pc = "start" THEN Pivoted(k, area, rsp - sp0) ELSE k

\* Such a stack can be named.
LEMMA EntryFacts ==
    ASSUME ClobberInv, EntryInv
    PROVE  \E s \in maps0 : s.use = "stack" /\ \E k, p, q, r, t, z : Entered(s, k, p, q, r, t, z)
<1>1. PICK a \in Args, s \in maps0 :
        /\ s.use = "stack"
        /\ sp0 = Execve(a, s).rsp /\ mem0 = Execve(a, s).mem
        /\ mm = IF pc = "start" THEN Pivoted(Execve(a, s).mm, area, rsp - sp0)
                                ELSE Execve(a, s).mm
  BY DEF EntryInv
<1>2. PICK e : e = Execve(a, s)
  OBVIOUS
<1>3. maps0 \in Maps
  BY DEF ClobberInv, PlaceInv
<1>4. AbiStack(e, s)
  BY <1>1, <1>2, <1>3, StartupConstants
<1>5. s.lo \in Nat /\ s.hi \in Nat
  BY <1>3, MapsFacts
<1>6. PICK p, q, r : /\ Image(e.mem, e.rsp, s.lo, s.hi, p, q, r)
                     /\ Agrees(e.mm, e.mem, e.rsp, p, q, r)
  BY <1>4, <1>5, AbiImage
<1>7. Image(mem0, sp0, s.lo, s.hi, p, q, r) /\ Agrees(e.mm, mem0, sp0, p, q, r)
  BY <1>1, <1>2, <1>6
<1>8. PICK t, z : Topmost(mem0, sp0, s.hi, t, z)
  BY <1>7, TopObject
<1>9. Entered(s, e.mm, p, q, r, t, z)
  BY <1>1, <1>2, <1>7, <1>8 DEF Entered
<1> QED
  BY <1>1, <1>9

\* The highest object lies between the tables and the end of the stack.
LEMMA EndBounds ==
    ASSUME NEW m, NEW sp, NEW lo, NEW hi, NEW p, NEW q, NEW r, Image(m, sp, lo, hi, p, q, r),
           NEW t, NEW z, Topmost(m, sp, hi, t, z)
    PROVE  /\ z \in Int /\ m[t] \in Nat /\ r + 1 < m[t] /\ m[t] <= z /\ z + 1 <= hi - 1
           /\ r + 1 < z + 1 /\ sp < z + 1 /\ sp .. z + 1 \subseteq DOMAIN m
<1>1. /\ lo \in Nat /\ hi \in Nat /\ sp \in Nat /\ p \in Nat /\ q \in Nat /\ r \in Nat
      /\ lo <= sp /\ sp + 1 <= p /\ p + 1 <= q /\ q + 1 <= r /\ r + 1 <= hi - 1
      /\ DOMAIN m = lo .. hi - 1 /\ \A x \in DOMAIN m : m[x] \in Nat
  BY ImageOrder
<1>2. t \in sp + 1 .. r /\ t \in Pointers(m, sp, PivotKeys)
  BY ImagePointers DEF Topmost
<1>3. m[t] \in Nat /\ r + 1 < m[t]
  <2>1. t \in DOMAIN m
    BY <1>1, <1>2
  <2>2. m[t] > r + 1
    BY <1>2 DEF Image, Objects
  <2> QED
    BY <2>1, <2>2, <1>1
<1>4. z \in Int /\ m[t] <= z /\ z <= hi - 2
  BY <1>1, <1>3 DEF Topmost
<1>5. z + 1 <= hi - 1 /\ r + 1 < z + 1 /\ sp < z + 1
  BY <1>1, <1>3, <1>4
<1>6. sp .. z + 1 \subseteq DOMAIN m
  BY <1>1, <1>4, <1>5
<1> QED
  BY <1>3, <1>4, <1>5, <1>6

\* rep movsb to dst followed by the patches makes a copy.
LEMMA CopyPatched ==
    ASSUME NEW m, NEW sp, NEW lo, NEW hi, NEW p, NEW q, NEW r, Image(m, sp, lo, hi, p, q, r),
           NEW t, NEW z, Topmost(m, sp, hi, t, z), NEW n, Extends(n, m), NEW dst \in Int,
           NEW e \in Int, e = z + 1, dst .. dst + (e - sp) \subseteq DOMAIN n,
           NEW w, w = [x \in DOMAIN n |->
                        IF x \in dst .. dst + (e - sp) THEN n[(x - dst) + sp] ELSE n[x]]
    PROVE  CopyOf(Patch(w, dst, dst - sp), m, sp, dst - sp, e)
<1> DEFINE d == dst - sp
<1>1. sp \in Int /\ r \in Int /\ r + 1 < e /\ sp < e /\ sp .. e \subseteq DOMAIN m
  BY ImageOrder, EndBounds
<1>2. d \in Int /\ sp + d = dst
  BY <1>1
<1>3. ASSUME NEW y \in sp .. e
      PROVE  y + d \in DOMAIN w /\ w[y + d] = m[y]
  <2>1. y + d \in dst .. dst + (e - sp) /\ ((y + d) - dst) + sp = y
    BY <1>1
  <2>2. y + d \in DOMAIN n
    BY <2>1
  <2>3. w[y + d] = n[y]
    BY <2>1, <2>2
  <2>4. n[y] = m[y]
    BY <1>1 DEF Extends
  <2> QED
    BY <2>2, <2>3, <2>4
<1> HIDE DEF d
<1>4. Shifted(w, m, d, sp, r + 1)
  <2>1. DOMAIN w \subseteq Int
    BY DEF Extends
  <2>2. sp .. r + 1 \subseteq sp .. e
    BY <1>1
  <2> QED
    BY <2>1, <2>2, <1>3 DEF Shifted
<1>5. Tabled(m, sp, p, q, r)
  BY DEF Image
<1>6. ASSUME NEW y \in Int
      PROVE  y + d \in Pointers(w, dst, StubKeys) <=> y \in Pointers(m, sp, StubKeys)
  <2>1. y + d \in Pointers(w, sp + d, StubKeys) <=> y \in Pointers(m, sp, StubKeys)
    BY <1>2, <1>4, <1>5, ShiftPointers
  <2> QED
    BY <2>1, <1>2
<1>7. ASSUME NEW y \in sp .. e
      PROVE  /\ y + d \in DOMAIN Patch(w, dst, d)
             /\ Patch(w, dst, d)[y + d] =
                    IF y \in Pointers(m, sp, StubKeys) THEN m[y] + d ELSE m[y]
  <2>1. y \in Int /\ y + d \in DOMAIN w /\ w[y + d] = m[y]
    BY <1>1, <1>3
  <2>2. /\ y + d \in DOMAIN Patch(w, dst, d)
        /\ Patch(w, dst, d)[y + d] =
            IF y + d \in Pointers(w, dst, StubKeys) THEN w[y + d] + d ELSE w[y + d]
    BY <2>1 DEF Patch
  <2>3. y + d \in Pointers(w, dst, StubKeys) <=> y \in Pointers(m, sp, StubKeys)
    BY <2>1, <1>6
  <2> QED
    BY <2>1, <2>2, <2>3
<1>8. CopyOf(Patch(w, dst, d), m, sp, d, e)
  BY <1>7 DEF CopyOf
<1> QED
  BY <1>8 DEF d

\* EntryInv stays as long as the start conditions and mm do.
LEMMA EntryStays ==
    ASSUME EntryInv, UNCHANGED <<maps0, sp0, mem0, mm>>, pc # "start", pc' # "start"
    PROVE  EntryInv'
<1>1. PICK a \in Args, s \in maps0 :
        /\ s.use = "stack"
        /\ sp0 = Execve(a, s).rsp /\ mem0 = Execve(a, s).mem /\ mm = Execve(a, s).mm
  BY DEF EntryInv
<1>2. /\ a \in Args /\ s \in maps0' /\ s.use = "stack"
      /\ sp0' = Execve(a, s).rsp /\ mem0' = Execve(a, s).mem
      /\ mm' = IF pc' = "start" THEN Pivoted(Execve(a, s).mm, area', rsp' - sp0')
                                ELSE Execve(a, s).mm
  BY <1>1
<1> QED
  BY <1>2 DEF EntryInv

\* The stack execve leaves.
LEMMA CopyFirst == Init => CopyInv
<1> SUFFICES ASSUME Init PROVE CopyInv
  OBVIOUS
<1>1. pc = "maps" /\ maps0 \in Maps /\ vmas = maps0 /\ sp0 = rsp /\ mem0 = mem /\ area = 0
  BY DEF Init, PlaceInit
<1>2. PICK a \in Args, s \in maps0 :
        s.use = "stack" /\ rsp = Execve(a, s).rsp /\ mem = Execve(a, s).mem /\ mm = Execve(a, s).mm
  BY <1>1 DEF Init
<1>3. EntryInv
  BY <1>1, <1>2 DEF EntryInv
<1>4. DOMAIN mem \subseteq Int
  <2>1. AbiStack(Execve(a, s), s)
    BY <1>1, <1>2, StartupConstants
  <2>2. DOMAIN mem = s.lo .. s.hi - 1
    BY <2>1, <1>2 DEF AbiStack
  <2>3. s.lo \in Nat /\ s.hi \in Nat
    BY <1>1, MapsFacts
  <2> QED
    BY <2>2, <2>3
<1>5. MemInv
  BY <1>1, <1>4 DEF MemInv
<1> QED
  BY <1>3, <1>5 DEF CopyInv

\* The constructor leaves the stack alone.
LEMMA CopyPlace ==
    ASSUME CopyInv, PlaceNext, UNCHANGED stubVars
    PROVE  CopyInv'
<1>1. /\ pc \in {"maps", "lines", "choose", "reserve", "pool"}
      /\ pc' \in {"lines", "choose", "reserve", "pool", "entry", "exit"}
      /\ maps0' = maps0
  BY DEF PlaceNext, OpenMaps, NoMaps, ReadLine, NextLine, LastGap, JumpOver, ChooseTarget,
         Reserve, Reserved, MemPoolInit, Exit
<1>2. UNCHANGED <<mem, rsp, sp0, mem0, area, mm>>
  BY DEF stubVars
<1>3. EntryInv'
  BY <1>1, <1>2, EntryStays DEF CopyInv
<1>4. MemInv'
  BY <1>1, <1>2 DEF CopyInv, MemInv
<1> QED
  BY <1>3, <1>4 DEF CopyInv

\* mmap of the new stack.
LEMMA CopyMmap ==
    ASSUME ClobberInv, CopyInv, Mmap
    PROVE  CopyInv'
<1>1. pc = "entry" /\ pc' \in {"relocate", "wild"} /\ UNCHANGED <<maps0, rsp, sp0, mem0, mm>>
  BY DEF Mmap
<1>2. mem = mem0 /\ rsp = sp0 /\ area = 0 /\ DOMAIN mem \subseteq Int
  BY <1>1 DEF CopyInv, MemInv
<1>3. EntryInv'
  BY <1>1, EntryStays DEF CopyInv
<1>a. CASE pc' = "wild"
  <2>1. UNCHANGED <<area, mem>>
    BY <1>a DEF Mmap
  <2>2. MemInv'
    BY <2>1, <1>a, <1>2 DEF MemInv
  <2> QED
    BY <2>2, <1>3 DEF CopyInv
<1>b. CASE pc' = "relocate"
  <2>1. PICK a \in Places(ADR_HINT, STACK_SIZE) :
            /\ area' = a /\ vmas' = vmas \cup {Vma(a, a + STACK_SIZE, "new_stack")}
            /\ mem' = [x \in DOMAIN mem \cup (a .. a + STACK_SIZE - 1) |->
                            IF x \in DOMAIN mem THEN mem[x] ELSE 0]
    BY <1>b DEF Mmap
  <2>2. STACK_SIZE \in Nat \ {0} /\ ADR_HINT \in Nat
    BY StartupConstants
  <2>3. a \in Nat /\ a > 0
    BY <2>2, PlacesFree
  <2>4. DOMAIN mem' = DOMAIN mem \cup (a .. a + STACK_SIZE - 1)
    BY <2>1
  <2>5. DOMAIN mem' \subseteq Int
    BY <2>2, <2>3, <2>4, <1>2
  <2>6. \A x \in DOMAIN mem0 : x \in DOMAIN mem' /\ mem'[x] = mem0[x]
    BY <2>1, <1>2
  <2>7. Extends(mem, mem0)'
    BY <2>5, <2>6, <1>1 DEF Extends
  <2>8. NewVma' \in vmas' /\ NewStack' \subseteq DOMAIN mem'
    BY <2>1, <2>4 DEF NewVma, NewStack
  <2>9. rsp' = sp0'
    BY <1>1, <1>2
  <2>10. area' \in Nat /\ area' > 0
    BY <2>1, <2>3
  <2>11. MemInv'
    BY <2>5, <2>7, <2>8, <2>9, <2>10, <1>b DEF MemInv
  <2> QED
    BY <2>11, <1>3 DEF CopyInv
<1> QED
  BY <1>1, <1>a, <1>b

\* The copy is made inside the new stack, or the arguments do not fit.
LEMMA CopyRelocate ==
    ASSUME ClobberInv, CopyInv, Relocate
    PROVE  CopyInv'
<1>1. /\ pc = "relocate" /\ pc' \in {"open", "wild"}
      /\ UNCHANGED <<vmas, maps0, sp0, mem0, area, mm>>
  BY DEF Relocate
<1>2. /\ area \in Nat /\ DOMAIN mem \subseteq Int /\ area > 0 /\ NewVma \in vmas
      /\ rsp = sp0 /\ Extends(mem, mem0) /\ NewStack \subseteq DOMAIN mem
  BY <1>1 DEF CopyInv, MemInv
<1>3. EntryInv'
  BY <1>1, EntryStays DEF CopyInv
<1>4. PICK s \in maps0 : \E k, p, q, r, t, z : Entered(s, k, p, q, r, t, z)
  BY EntryFacts DEF CopyInv
<1>5. PICK p, q, r, t, z : /\ Image(mem0, sp0, s.lo, s.hi, p, q, r)
                           /\ Topmost(mem0, sp0, s.hi, t, z)
  BY <1>4 DEF Entered
<1>6. PICK e \in Int : e = z + 1
  BY <1>5, EndBounds
<1>7. End(mem, sp0) = e /\ End(mem0, sp0) = e
  <2>1. Extends(mem0, mem0)
    BY <1>5, ImageOrder DEF Extends
  <2> QED
    BY <2>1, <1>2, <1>5, <1>6, EndIs
<1>8. sp0 \in Nat /\ sp0 < e
  <2>1. sp0 \in Nat
    BY <1>5, ImageOrder
  <2> QED
    BY <2>1, <1>5, <1>6, EndBounds
<1> DEFINE len == (e - sp0) + 1
           x0  == (area + STACK_SIZE) - len
           dst == RoundDown(x0, ALIGN)
           w   == [x \in DOMAIN mem |->
                    IF x \in dst .. dst + (e - sp0) THEN mem[(x - dst) + sp0] ELSE mem[x]]
<1>9. /\ STACK_SIZE \in Nat \ {0} /\ ALIGN \in Nat \ {0}
  BY StartupConstants, Sizes
<1>10. len \in Int /\ x0 \in Int
  BY <1>2, <1>8, <1>9
<1>11. dst \in Int /\ dst <= x0 /\ x0 < dst + ALIGN
  <2> HIDE DEF x0
  <2> QED
    BY <1>9, <1>10, RoundDownBounds
<1>12. Length(mem, rsp) = len /\ Length(mem0, sp0) = len
  BY <1>2, <1>7 DEF Length
<1>13. \/ /\ dst - 3 >= area /\ rsp' = dst /\ pc' = "open"
          /\ mem' = Patch(w, dst, dst - sp0)
       \/ ~(dst - 3 >= area) /\ pc' = "wild" /\ UNCHANGED <<mem, rsp>>
  <2>1. RoundDown(area + STACK_SIZE - Length(mem, rsp), ALIGN) = dst
    <3>1. area + STACK_SIZE - Length(mem, rsp) = x0
      BY <1>2, <1>9, <1>10, <1>12
    <3> HIDE DEF x0
    <3> QED
      BY <3>1
  <2>2. dst + Length(mem, rsp) - 1 = dst + (e - sp0)
    <3> HIDE DEF dst
    <3> QED
      BY <1>8, <1>10, <1>11, <1>12
  <2> HIDE DEF dst
  <2>3. w = [x \in DOMAIN mem |-> IF x \in dst .. dst + Length(mem, rsp) - 1
                                  THEN mem[(x - dst) + rsp] ELSE mem[x]]
    BY <2>2, <1>2
  <2> HIDE DEF w
  <2> QED
    BY <2>1, <2>3, <1>2 DEF Relocate
<1>a. CASE dst - 3 >= area /\ rsp' = dst /\ pc' = "open" /\ mem' = Patch(w, dst, dst - sp0)
  <2> HIDE DEF dst
  <2>1. area <= dst /\ dst + (e - sp0) < area + STACK_SIZE
    BY <1>a, <1>2, <1>8, <1>9, <1>11
  <2>2. dst .. dst + (e - sp0) \subseteq DOMAIN mem
    <3>1. dst .. dst + (e - sp0) \subseteq NewStack
      BY <2>1, <1>2, <1>8, <1>9, <1>11 DEF NewStack
    <3> QED
      BY <3>1, <1>2
  <2>3. CopyOf(Patch(w, dst, dst - sp0), mem0, sp0, dst - sp0, e)
    <3>1. PICK f : f = w
      OBVIOUS
    <3>2. f = [x \in DOMAIN mem |->
                IF x \in dst .. dst + (e - sp0) THEN mem[(x - dst) + sp0] ELSE mem[x]]
      BY <3>1
    <3> HIDE DEF w
    <3>3. CopyOf(Patch(f, dst, dst - sp0), mem0, sp0, dst - sp0, e)
      BY <3>2, <2>2, <1>2, <1>5, <1>6, <1>11, CopyPatched
    <3> QED
      BY <3>1, <3>3
  <2>4. DOMAIN mem' \subseteq Int
    BY <1>a, <1>2 DEF Patch
  <2> HIDE DEF w
  <2>5. End(mem0', sp0') = e
    BY <1>1, <1>7
  <2>6. CopyOf(mem', mem0', sp0', rsp' - sp0', End(mem0', sp0'))
    BY <2>3, <2>5, <1>a, <1>1
  <2>7. rsp' \in Nat /\ area' <= rsp'
    BY <2>1, <1>a, <1>1, <1>2, <1>11
  <2>8. End(mem0', sp0') + (rsp' - sp0') < area' + STACK_SIZE
    <3>1. e + (dst - sp0) < area + STACK_SIZE
      BY <2>1, <1>2, <1>8, <1>9, <1>11
    <3> QED
      BY <3>1, <2>5, <1>a, <1>1
  <2>9. NewVma' \in vmas' /\ area' \in Nat /\ area' > 0
    BY <1>1, <1>2 DEF NewVma
  <2>10. MemInv'
    BY <2>4, <2>6, <2>7, <2>8, <2>9, <1>a DEF MemInv
  <2> QED
    BY <2>10, <1>3 DEF CopyInv
<1>b. CASE ~(dst - 3 >= area) /\ pc' = "wild" /\ UNCHANGED <<mem, rsp>>
  <2> HIDE DEF dst
  <2>1. len + ALIGN + 2 > STACK_SIZE
    BY <1>b, <1>2, <1>8, <1>9, <1>11
  <2> HIDE DEF len
  <2>2. Length(mem0', sp0') + ALIGN + 2 > STACK_SIZE
    BY <2>1, <1>1, <1>12
  <2>3. MemInv'
    BY <2>2, <1>b, <1>1, <1>2 DEF MemInv
  <2> QED
    BY <2>3, <1>3 DEF CopyInv
<1> QED
  BY <1>13, <1>a, <1>b

\* open() of the device.
LEMMA CopyOpen ==
    ASSUME CopyInv, OpenDevice
    PROVE  CopyInv'
<1>1. /\ pc = "open" /\ pc' \in {"pivot", "exit"}
      /\ UNCHANGED <<vmas, maps0, mem, rsp, sp0, mem0, area, mm>>
  BY DEF OpenDevice, Exit, stubVars
<1>2. EntryInv'
  BY <1>1, EntryStays DEF CopyInv
<1>3. MemInv'
  BY <1>1 DEF CopyInv, MemInv, NewVma
<1> QED
  BY <1>2, <1>3 DEF CopyInv

\* sa_pivot moves the fields of mm along and keeps the new stack.
LEMMA CopyPivot ==
    ASSUME ClobberInv, CopyInv, SaPivot
    PROVE  CopyInv'
<1>1. pc = "pivot" /\ UNCHANGED <<maps0, rsp, sp0, mem0, area>>
  BY DEF SaPivot
<1>2. /\ area \in Nat /\ DOMAIN mem \subseteq Int /\ area > 0 /\ NewVma \in vmas
      /\ rsp \in Nat /\ area <= rsp
      /\ End(mem0, sp0) + (rsp - sp0) < area + STACK_SIZE
      /\ CopyOf(mem, mem0, sp0, rsp - sp0, End(mem0, sp0))
  BY <1>1 DEF CopyInv, MemInv
<1>3. PICK s \in maps0 : /\ s \in vmas /\ Inside(sp0, s) /\ sp0 \in Nat
                         /\ {v \in maps0 : v.use = "stack"} = {s}
  BY <1>1, OldStack
<1>4. VmaInv
  BY DEF ClobberInv, PlaceInv
<1>5. find_vma(vmas, sp0) = s /\ Holds(s, sp0) /\ s # NoVma
  BY <1>3, <1>4, FindVma
<1>6. NewVma.lo = area /\ NewVma.hi = area + STACK_SIZE /\ NewVma.use = "new_stack"
  BY VmaFields DEF NewVma
<1>7. PICK e : e = End(mem0, sp0)
  OBVIOUS
<1>8. e \in Int /\ sp0 < e
  <2>1. PICK o \in maps0 : \E k, p, q, r, t, z : Entered(o, k, p, q, r, t, z)
    BY EntryFacts DEF CopyInv
  <2>2. PICK p, q, r, t, z : /\ Image(mem0, sp0, o.lo, o.hi, p, q, r)
                             /\ Topmost(mem0, sp0, o.hi, t, z)
    BY <2>1 DEF Entered
  <2>3. Extends(mem0, mem0)
    BY <2>2, ImageOrder DEF Extends
  <2>4. e = z + 1
    BY <2>2, <2>3, <1>7, EndIs
  <2>5. z \in Int /\ sp0 < z + 1
    BY <2>2, EndBounds
  <2> QED
    BY <2>4, <2>5
<1>9. STACK_SIZE \in Nat \ {0}
  BY StartupConstants
<1>10. rsp < area + STACK_SIZE
  BY <1>2, <1>3, <1>7, <1>8, <1>9
<1>11. find_vma(vmas, rsp) = NewVma /\ Holds(NewVma, rsp)
  <2>1. Inside(rsp, NewVma) /\ rsp \in Int
    BY <1>2, <1>6, <1>10 DEF Inside
  <2> QED
    BY <2>1, <1>2, <1>4, FindVma
<1>12. vmas' = vmas \ {s} /\ pc' = "start"
  BY <1>3, <1>4, <1>5, WithoutOne DEF SaPivot, Unmapped
<1>13. mm' = Pivoted(mm, area, rsp - sp0)
  BY <1>5, <1>6, <1>11 DEF SaPivot, Moved, Pivoted
<1>14. mem' = [x \in DOMAIN mem \ (s.lo .. s.hi - 1) |-> mem[x]]
  BY <1>5 DEF SaPivot, Unmapped
<1>15. s.use = "stack" /\ s # NewVma
  <2>1. s.use = "stack"
    BY <1>3
  <2> QED
    BY <2>1, <1>6
<1>16. EntryInv'
  <2>1. PICK a \in Args, o \in maps0 :
            /\ o.use = "stack"
            /\ sp0 = Execve(a, o).rsp /\ mem0 = Execve(a, o).mem /\ mm = Execve(a, o).mm
    BY <1>1 DEF CopyInv, EntryInv
  <2>2. /\ a \in Args /\ o \in maps0' /\ o.use = "stack"
        /\ sp0' = Execve(a, o).rsp /\ mem0' = Execve(a, o).mem
        /\ mm' = IF pc' = "start" THEN Pivoted(Execve(a, o).mm, area', rsp' - sp0')
                                  ELSE Execve(a, o).mm
    BY <2>1, <1>1, <1>12, <1>13
  <2> QED
    BY <2>2 DEF EntryInv
<1>17. CopyOf(mem', mem0, sp0, rsp - sp0, e)
  <2> SUFFICES ASSUME NEW x \in sp0 .. e
               PROVE  /\ x + (rsp - sp0) \in DOMAIN mem'
                      /\ mem'[x + (rsp - sp0)] = mem[x + (rsp - sp0)]
    BY <1>2, <1>7 DEF CopyOf
  <2>1. PICK y \in Int : y = x + (rsp - sp0)
    BY <1>2, <1>3, <1>8
  <2>2. area <= y /\ y < area + STACK_SIZE
    <3>1. /\ x \in Int /\ sp0 <= x /\ x <= e /\ e \in Int /\ sp0 \in Int /\ rsp \in Int
          /\ area \in Int /\ STACK_SIZE \in Int /\ area <= rsp
          /\ e + (rsp - sp0) < area + STACK_SIZE
      BY <1>2, <1>3, <1>7, <1>8, <1>9
    <3> QED
      BY <3>1, <2>1
  <2>3. y \in DOMAIN mem
    BY <2>1, <1>2, <1>7 DEF CopyOf
  <2>4. y \notin s.lo .. s.hi - 1
    <3>1. s.hi <= area \/ area + STACK_SIZE <= s.lo
      BY <1>2, <1>3, <1>4, <1>6, <1>15 DEF VmaInv
    <3>2. s.lo \in Nat /\ s.hi \in Nat
      BY <1>3, <1>4 DEF VmaInv
    <3> QED
      BY <3>1, <3>2, <2>2, <1>2, <1>9
  <2>5. y \in DOMAIN mem' /\ mem'[y] = mem[y]
    BY <2>3, <2>4, <1>14
  <2> QED
    BY <2>1, <2>5
<1>18. DOMAIN mem' \subseteq Int
  BY <1>2, <1>14
<1>19. CopyOf(mem', mem0', sp0', rsp' - sp0', End(mem0', sp0'))
  BY <1>1, <1>7, <1>17
<1>20. NewVma' \in vmas'
  <2>1. NewVma' = NewVma
    BY <1>1 DEF NewVma
  <2> QED
    BY <2>1, <1>2, <1>12, <1>15
<1>21. MemInv'
  BY <1>1, <1>2, <1>12, <1>18, <1>19, <1>20 DEF MemInv
<1> QED
  BY <1>16, <1>21 DEF CopyInv

\* Every step keeps the invariant of the copy.
LEMMA CopyStep == ClobberInv /\ CopyInv /\ [Next]_vars => CopyInv'
<1> SUFFICES ASSUME ClobberInv, CopyInv, [Next]_vars PROVE CopyInv'
  OBVIOUS
<1>a. CASE PlaceNext /\ UNCHANGED stubVars
  BY <1>a, CopyPlace
<1>b. CASE Mmap
  BY <1>b, CopyMmap
<1>c. CASE Relocate
  BY <1>c, CopyRelocate
<1>d. CASE OpenDevice
  BY <1>d, CopyOpen
<1>e. CASE SaPivot
  BY <1>e, CopyPivot
<1>f. CASE UNCHANGED vars
  <2>1. UNCHANGED <<pc, vmas, maps0, mem, rsp, sp0, mem0, area, mm>>
    BY <1>f DEF vars, placeVars
  <2>2. EntryInv'
    <3>1. PICK a \in Args, s \in maps0 :
            /\ s.use = "stack"
            /\ sp0 = Execve(a, s).rsp /\ mem0 = Execve(a, s).mem
            /\ mm = IF pc = "start" THEN Pivoted(Execve(a, s).mm, area, rsp - sp0)
                                    ELSE Execve(a, s).mm
      BY DEF CopyInv, EntryInv
    <3> QED
      BY <2>1, <3>1 DEF EntryInv
  <2>3. MemInv'
    BY <2>1 DEF CopyInv, MemInv, NewVma, NewStack, Extends
  <2> QED
    BY <2>2, <2>3 DEF CopyInv
<1> QED
  BY <1>a, <1>b, <1>c, <1>d, <1>e, <1>f DEF Next

\* Both invariants hold throughout.
THEOREM CopyAlways == Spec => [](ClobberInv /\ CopyInv)
<1>1. Spec => [](ClobberInv) /\ CopyInv
  BY ClobberAlways, CopyFirst DEF Spec
<1> QED
  BY <1>1, CopyStep, PTL DEF Spec

-----------------------------------------------------------------------------
(***************************************************************************)
(* What the copy shows.                                                    *)
(***************************************************************************)

\* The facts about the old stack the properties need, with e the end of the copy.
LEMMA Named ==
    ASSUME ClobberInv, CopyInv
    PROVE  \E s \in maps0 : \E k, p, q, r, t, z :
            /\ Entered(s, k, p, q, r, t, z)
            /\ z \in Int /\ End(mem0, sp0) = z + 1
            /\ pc = "relocate" => End(mem, sp0) = z + 1
<1>1. PICK s \in maps0 : \E k, p, q, r, t, z : Entered(s, k, p, q, r, t, z)
  BY EntryFacts DEF CopyInv
<1>2. PICK k, p, q, r, t, z : Entered(s, k, p, q, r, t, z)
  BY <1>1
<1>3. Image(mem0, sp0, s.lo, s.hi, p, q, r) /\ Topmost(mem0, sp0, s.hi, t, z)
  BY <1>2 DEF Entered
<1>4. Extends(mem0, mem0)
  BY <1>3, ImageOrder DEF Extends
<1>5. z \in Int /\ End(mem0, sp0) = z + 1
  BY <1>3, <1>4, EndBounds, EndIs
<1>6. pc = "relocate" => End(mem, sp0) = z + 1
  BY <1>3, EndIs DEF CopyInv, MemInv
<1> QED
  BY <1>2, <1>5, <1>6

\* CopyInside for every stack execve may leave and every size of the new one: the
\* scans and the copy of relocate_stack read nothing beyond the old stack, and
\* the copy leaves the new stack only after a failed mmap or when it cannot fit.
THEOREM StartupCopyInside == Spec => []CopyInside
<1>1. ClobberInv /\ CopyInv => CopyInside
  <2> SUFFICES ASSUME ClobberInv, CopyInv PROVE CopyInside
    OBVIOUS
  <2>1. PICK s \in maps0 : \E k, p, q, r, t, z :
            /\ Entered(s, k, p, q, r, t, z)
            /\ z \in Int /\ End(mem0, sp0) = z + 1
            /\ pc = "relocate" => End(mem, sp0) = z + 1
    BY Named
  <2>2. PICK k, p, q, r, t, z :
            /\ Entered(s, k, p, q, r, t, z)
            /\ z \in Int /\ End(mem0, sp0) = z + 1
            /\ pc = "relocate" => End(mem, sp0) = z + 1
    BY <2>1
  <2>3. Image(mem0, sp0, s.lo, s.hi, p, q, r) /\ Topmost(mem0, sp0, s.hi, t, z)
    BY <2>2 DEF Entered
  <2>4. sp0 \in Nat /\ sp0 < z + 1 /\ sp0 .. z + 1 \subseteq DOMAIN mem0
    BY <2>3, ImageOrder, EndBounds
  <2>5. z + 1 \in DOMAIN mem0
    BY <2>2, <2>4
  <2>6. pc = "relocate" => sp0 + Length(mem, sp0) - 1 = z + 1
    BY <2>2, <2>4 DEF Length
  <2>7. pc = "wild" => area = 0 \/ Length(mem0, sp0) + ALIGN + 2 > STACK_SIZE
    BY DEF CopyInv, MemInv
  <2> QED
    BY <2>5, <2>6, <2>7 DEF CopyInside
<1> QED
  BY <1>1, CopyAlways, PTL

\* The copy, word by word.
LEMMA CopyFacts ==
    ASSUME ClobberInv, CopyInv, pc \in {"open", "pivot", "start"},
           NEW s, NEW k, NEW p, NEW q, NEW r, NEW t, NEW z, Entered(s, k, p, q, r, t, z),
           z \in Int, End(mem0, sp0) = z + 1,
           NEW x \in sp0 .. z + 1
    PROVE  /\ x + (rsp - sp0) \in DOMAIN mem /\ x + (rsp - sp0) \in NewStack
           /\ x \in Pointers(mem0, sp0, StubKeys) =>
                    mem[x + (rsp - sp0)] = mem0[x] + (rsp - sp0)
           /\ x \notin Pointers(mem0, sp0, StubKeys) => mem[x + (rsp - sp0)] = mem0[x]
           /\ x > r => x \notin Pointers(mem0, sp0, StubKeys)
<1>1. Image(mem0, sp0, s.lo, s.hi, p, q, r)
  BY DEF Entered
<1>2. sp0 \in Nat /\ r \in Nat
  BY <1>1, ImageOrder
<1>3. /\ rsp \in Nat /\ area \in Nat /\ area <= rsp
      /\ (z + 1) + (rsp - sp0) < area + STACK_SIZE
      /\ CopyOf(mem, mem0, sp0, rsp - sp0, z + 1)
  BY DEF CopyInv, MemInv
<1>4. x + (rsp - sp0) \in NewStack
  <2>1. STACK_SIZE \in Nat
    BY StartupConstants
  <2>2. x \in Int /\ sp0 <= x /\ x <= z + 1
    BY <1>2
  <2>3. PICK y \in Int : y = x + (rsp - sp0)
    BY <2>2, <1>2, <1>3
  <2>4. area <= y /\ y < area + STACK_SIZE
    BY <2>1, <2>2, <2>3, <1>2, <1>3
  <2> QED
    BY <2>1, <2>3, <2>4, <1>3 DEF NewStack
<1>5. x > r => x \notin Pointers(mem0, sp0, StubKeys)
  <2>1. Pointers(mem0, sp0, StubKeys) \subseteq sp0 + 1 .. r
    BY <1>1, ImagePointers
  <2> QED
    BY <2>1, <1>2
<1> QED
  BY <1>3, <1>4, <1>5 DEF CopyOf

\* An object of the old stack, cell by cell.
LEMMA ObjectCells ==
    ASSUME NEW s, NEW k, NEW p, NEW q, NEW r, NEW t, NEW z, Entered(s, k, p, q, r, t, z),
           NEW y \in Pointers(mem0, sp0, PivotKeys), NEW len,
           len = IF y \in AuxValues(mem0, sp0, {AT_RANDOM}) THEN RANDOM_LEN
                 ELSE ZeroFrom(mem0, mem0[y]) - mem0[y] + 1,
           NEW i \in 0 .. len - 1
    PROVE  /\ i \in Int /\ mem0[y] \in Nat /\ mem0[y] + i \in sp0 .. z + 1 /\ mem0[y] + i > r
           /\ y \in sp0 .. z + 1 /\ y \in Pointers(mem0, sp0, StubKeys)
<1>1. Image(mem0, sp0, s.lo, s.hi, p, q, r) /\ Topmost(mem0, sp0, s.hi, t, z)
  BY DEF Entered
<1>2. /\ sp0 \in Nat /\ p \in Nat /\ q \in Nat /\ r \in Nat
      /\ sp0 + 1 <= p /\ p + 1 <= q /\ q + 1 <= r
      /\ DOMAIN mem0 \subseteq Int /\ \A x \in DOMAIN mem0 : mem0[x] \in Nat
  BY <1>1, ImageOrder
<1>3. z \in Int /\ r + 1 < z + 1 /\ sp0 .. z + 1 \subseteq DOMAIN mem0
  BY <1>1, EndBounds
<1>4. y \in sp0 + 1 .. r /\ y \in Pointers(mem0, sp0, StubKeys)
  BY <1>1, ImagePointers
<1>5. y \in sp0 .. z + 1
  BY <1>2, <1>3, <1>4
<1>6. mem0[y] \in Nat
  BY <1>2, <1>3, <1>5
<1>7. mem0[y] > r + 1
  BY <1>1 DEF Image, Objects
<1>8. PICK e \in Int : ObjectEnd(mem0, sp0, y, e) /\ e <= z
  BY <1>1, ObjectsBelow
<1>9. len \in Int /\ mem0[y] + (len - 1) = e
  <2>a. CASE y \in AuxValues(mem0, sp0, {AT_RANDOM})
    BY <2>a, <1>6, <1>8, StartupConstants DEF ObjectEnd
  <2>b. CASE y \notin AuxValues(mem0, sp0, {AT_RANDOM})
    <3>1. FirstZero(mem0, mem0[y], e) /\ mem0[y] \in Int
      BY <2>b, <1>6, <1>8 DEF ObjectEnd
    <3>2. ZeroFrom(mem0, mem0[y]) = e
      BY <3>1, <1>2, ZeroFromIs
    <3>3. len = e - mem0[y] + 1
      BY <2>b, <3>2
    <3> QED
      BY <3>3, <1>6, <1>8
  <2> QED
    BY <2>a, <2>b
<1>10. i \in Int /\ 0 <= i /\ i <= len - 1
  BY <1>9
<1>11. mem0[y] + i >= mem0[y] /\ mem0[y] + i <= e
  BY <1>6, <1>8, <1>9, <1>10
<1>12. mem0[y] + i > r /\ mem0[y] + i >= sp0 /\ mem0[y] + i <= z + 1
  BY <1>2, <1>3, <1>6, <1>7, <1>8, <1>10, <1>11
<1> QED
  BY <1>2, <1>3, <1>4, <1>5, <1>6, <1>10, <1>12

\* Relocated for every stack execve may leave: the program finds its arguments,
\* environment and auxiliary vector in the new stack as they were in the old one.
THEOREM StartupRelocated == Spec => []Relocated
<1>1. ClobberInv /\ CopyInv => Relocated
  <2> SUFFICES ASSUME ClobberInv, CopyInv, pc \in {"open", "pivot", "start"} PROVE Relocated
    BY DEF Relocated
  <2>1. PICK s \in maps0 : \E k, p, q, r, t, z :
            /\ Entered(s, k, p, q, r, t, z)
            /\ z \in Int /\ End(mem0, sp0) = z + 1
    BY Named
  <2>2. PICK k, p, q, r, t, z :
            /\ Entered(s, k, p, q, r, t, z)
            /\ z \in Int /\ End(mem0, sp0) = z + 1
    BY <2>1
  <2>3. Image(mem0, sp0, s.lo, s.hi, p, q, r) /\ Topmost(mem0, sp0, s.hi, t, z)
    BY <2>2 DEF Entered
  <2>4. sp0 \in Nat /\ rsp \in Nat
    BY <2>3, ImageOrder DEF CopyInv, MemInv
  <2> DEFINE d == rsp - sp0
             ptrs == Pointers(mem0, sp0, PivotKeys)
             S == {mem0[y] : y \in ptrs}
             base == AuxValues(mem0, sp0, {AT_BASE})
             random == AuxValues(mem0, sp0, {AT_RANDOM})
             len(y) == IF y \in random THEN RANDOM_LEN
                       ELSE ZeroFrom(mem0, mem0[y]) - mem0[y] + 1
  <2>5. ASSUME NEW y \in ptrs, NEW i \in 0 .. len(y) - 1
        PROVE  /\ mem[y + d] + i \in NewStack
               /\ mem[mem[y + d] + i] = mem0[mem0[y] + i]
    <3>1. PICK l : l = len(y)
      OBVIOUS
    <3>2. /\ i \in Int /\ mem0[y] \in Nat /\ mem0[y] + i \in sp0 .. z + 1 /\ mem0[y] + i > r
          /\ y \in sp0 .. z + 1 /\ y \in Pointers(mem0, sp0, StubKeys)
      BY <3>1, <2>2, <2>5, ObjectCells
    <3>3. mem[y + d] = mem0[y] + d
      BY <3>2, <2>2, CopyFacts
    <3>4. /\ (mem0[y] + i) + d \in NewStack
          /\ mem[(mem0[y] + i) + d] = mem0[mem0[y] + i]
      BY <3>2, <2>2, CopyFacts
    <3>5. (mem0[y] + d) + i = (mem0[y] + i) + d
      BY <3>2, <2>4
    <3> QED
      BY <3>3, <3>4, <3>5
  <2>6. ASSUME NEW y \in (sp0 .. Min(S) - 1) \ (ptrs \cup base)
        PROVE  mem[y + d] = mem0[y]
    <3>1. t \in ptrs /\ z \in Int /\ mem0[t] \in Nat /\ mem0[t] <= z
      BY <2>3, EndBounds DEF Topmost
    <3>2. S \subseteq Nat /\ mem0[t] \in S
      <4>1. ptrs \subseteq DOMAIN mem0 /\ \A x \in DOMAIN mem0 : mem0[x] \in Nat
        <5>1. ptrs \subseteq sp0 + 1 .. r
          BY <2>3, ImagePointers
        <5>2. sp0 + 1 .. r \subseteq sp0 .. z + 1
          <6>1. r \in Nat /\ z \in Int /\ r + 1 < z + 1
            BY <2>3, ImageOrder, EndBounds
          <6> QED
            BY <6>1, <2>4
        <5>3. sp0 .. z + 1 \subseteq DOMAIN mem0
          BY <2>3, EndBounds
        <5> QED
          BY <5>1, <5>2, <5>3, <2>3, ImageOrder
      <4> QED
        BY <3>1, <4>1
    <3>3. Min(S) \in S /\ \A u \in S : Min(S) <= u
      <4> HIDE DEF S
      <4> QED
        BY <3>2, LeastOf
    <3>4. PICK f \in Nat : f = Min(S) /\ f <= mem0[t]
      BY <3>2, <3>3
    <3> HIDE DEF S
    <3>5. y \in sp0 .. z + 1
      <4>1. y \in sp0 .. f - 1
        BY <3>4
      <4> QED
        BY <4>1, <3>1, <3>4, <2>4
    <3>6. y \notin Pointers(mem0, sp0, StubKeys)
      BY <2>3, ImagePointers
    <3> QED
      BY <3>5, <3>6, <2>2, CopyFacts
  <2> QED
    BY <2>5, <2>6 DEF Relocated
<1> QED
  BY <1>1, CopyAlways, PTL

\* Where the moved pointers lead.
LEMMA MovedPointers ==
    ASSUME ClobberInv, CopyInv, pc \in {"open", "pivot", "start"},
           NEW s, NEW k, NEW p, NEW q, NEW r, NEW t, NEW z, Entered(s, k, p, q, r, t, z),
           z \in Int, End(mem0, sp0) = z + 1,
           NEW y \in Pointers(mem0, sp0, PivotKeys)
    PROVE  /\ mem0[y] \in sp0 .. z + 1 /\ mem0[y] \in Nat /\ mem0[y] > r + 1
           /\ mem[y + (rsp - sp0)] = mem0[y] + (rsp - sp0)
           /\ mem0[y] + (rsp - sp0) \in NewStack
<1>1. Image(mem0, sp0, s.lo, s.hi, p, q, r) /\ Topmost(mem0, sp0, s.hi, t, z)
  BY DEF Entered
<1>2. /\ sp0 \in Nat /\ p \in Nat /\ q \in Nat /\ r \in Nat
      /\ sp0 + 1 <= p /\ p + 1 <= q /\ q + 1 <= r
      /\ \A x \in DOMAIN mem0 : mem0[x] \in Nat
  BY <1>1, ImageOrder
<1>3. /\ r + 1 < z + 1 /\ sp0 .. z + 1 \subseteq DOMAIN mem0
      /\ mem0[t] \in Nat /\ mem0[t] <= z
  BY <1>1, EndBounds
<1>4. y \in sp0 + 1 .. r /\ y \in Pointers(mem0, sp0, StubKeys)
  BY <1>1, ImagePointers
<1>5. y \in sp0 .. z + 1
  BY <1>2, <1>3, <1>4
<1>6. mem0[y] \in Nat /\ mem0[y] > r + 1 /\ mem0[y] <= mem0[t]
  BY <1>1, <1>2, <1>3, <1>4, <1>5 DEF Image, Objects, Topmost
<1>7. mem0[y] \in sp0 .. z + 1
  <2>1. mem0[y] >= sp0
    BY <1>2, <1>6
  <2>2. mem0[y] <= z + 1
    BY <1>3, <1>6
  <2> QED
    BY <2>1, <2>2, <1>2, <1>6
<1>8. mem[y + (rsp - sp0)] = mem0[y] + (rsp - sp0)
  BY <1>4, <1>5, CopyFacts
<1>9. mem0[y] + (rsp - sp0) \in NewStack
  BY <1>7, CopyFacts
<1> QED
  BY <1>6, <1>7, <1>8, <1>9

\* The tables of the copy end where those of the old stack did.
LEMMA CopyEnds ==
    ASSUME ClobberInv, CopyInv, pc \in {"open", "pivot", "start"},
           NEW s, NEW k, NEW p, NEW q, NEW r, NEW t, NEW z, Entered(s, k, p, q, r, t, z),
           z \in Int, End(mem0, sp0) = z + 1
    PROVE  ArgvEnd(mem, rsp) = p + (rsp - sp0) /\ EnvpEnd(mem, rsp) = q + (rsp - sp0)
<1>1. Image(mem0, sp0, s.lo, s.hi, p, q, r) /\ Topmost(mem0, sp0, s.hi, t, z)
  BY DEF Entered
<1>2. /\ sp0 \in Nat /\ p \in Nat /\ q \in Nat /\ r \in Nat
      /\ sp0 + 1 <= p /\ p + 1 <= q /\ q + 1 <= r /\ r + 1 < z + 1
  BY <1>1, ImageOrder, EndBounds
<1>3. rsp \in Nat /\ area \in Nat /\ area > 0 /\ DOMAIN mem \subseteq Int
  BY DEF CopyInv, MemInv
<1>4. Tabled(mem0, sp0, p, q, r)
  BY <1>1 DEF Image
<1>5. PICK d \in Int : d = rsp - sp0
  BY <1>2, <1>3
<1>6. Pointers(mem0, sp0, PivotKeys) =
        (sp0 + 1 .. p - 1) \cup (p + 1 .. q - 1) \cup AuxValues(mem0, sp0, PivotKeys)
  BY <1>4, PointersAre
<1>7. ASSUME NEW y \in sp0 + 1 .. q, y = p \/ y = q
      PROVE  y + d \in DOMAIN mem /\ mem[y + d] = mem0[y]
  <2>1. y \in sp0 .. z + 1
    BY <1>2
  <2>2. y \notin Pointers(mem0, sp0, StubKeys)
    <3>1. /\ Pointers(mem0, sp0, StubKeys) =
                (sp0 + 1 .. p - 1) \cup (p + 1 .. q - 1) \cup AuxValues(mem0, sp0, StubKeys)
          /\ AuxValues(mem0, sp0, StubKeys) \subseteq q + 2 .. r
      BY <1>4, PointersAre
    <3> QED
      BY <3>1, <1>2, <1>7
  <2> QED
    BY <2>1, <2>2, <1>5, CopyFacts
<1>8. ASSUME NEW y \in sp0 + 1 .. q, y # p, y # q
      PROVE  y + d \in DOMAIN mem /\ mem[y + d] # 0 /\ mem0[y] # 0
  <2>1. y \in sp0 .. z + 1
    BY <1>2
  <2>2. y \in Pointers(mem0, sp0, PivotKeys)
    BY <1>2, <1>6, <1>8
  <2>3. y + d \in DOMAIN mem
    BY <2>1, <1>5, CopyFacts
  <2>4. /\ mem0[y] \in Nat /\ mem0[y] > r + 1 /\ mem[y + d] = mem0[y] + d
        /\ mem0[y] + d \in NewStack
    BY <2>2, <1>5, MovedPointers
  <2>5. mem[y + d] # 0
    <3>1. STACK_SIZE \in Nat
      BY StartupConstants
    <3> QED
      BY <3>1, <2>4, <1>3 DEF NewStack
  <2> QED
    BY <2>3, <2>4, <2>5, <1>2
<1>9. \A y \in sp0 + 1 .. q : y + d \in DOMAIN mem /\ (mem[y + d] = 0 <=> mem0[y] = 0)
  BY <1>7, <1>8
<1>10. FirstZero(mem, (sp0 + 1) + d, p + d)
  <2>1. sp0 + 1 .. p \subseteq sp0 + 1 .. q /\ sp0 + 1 \in Int /\ p \in Int
    BY <1>2
  <2>2. \A y \in sp0 + 1 .. p : y + d \in DOMAIN mem /\ (mem[y + d] = 0 <=> mem0[y] = 0)
    BY <2>1, <1>9
  <2>3. FirstZero(mem0, sp0 + 1, p)
    BY <1>4 DEF Tabled
  <2> QED
    BY <2>1, <2>2, <2>3, ShiftZero
<1>11. FirstZero(mem, (p + 1) + d, q + d)
  <2>1. p + 1 .. q \subseteq sp0 + 1 .. q /\ p + 1 \in Int /\ q \in Int
    BY <1>2
  <2>2. \A y \in p + 1 .. q : y + d \in DOMAIN mem /\ (mem[y + d] = 0 <=> mem0[y] = 0)
    BY <2>1, <1>9
  <2>3. FirstZero(mem0, p + 1, q)
    BY <1>4 DEF Tabled
  <2> QED
    BY <2>1, <2>2, <2>3, ShiftZero
<1>12. /\ (sp0 + 1) + d = rsp + 1 /\ (p + 1) + d = (p + d) + 1
       /\ rsp + 1 \in Int /\ (p + d) + 1 \in Int /\ p + d \in Int /\ q + d \in Int
  BY <1>2, <1>3, <1>5
<1>13. ArgvEnd(mem, rsp) = p + d
  <2>1. FirstZero(mem, rsp + 1, p + d)
    BY <1>10, <1>12
  <2> QED
    BY <2>1, <1>3, <1>12, ZeroFromIs DEF ArgvEnd
<1>14. EnvpEnd(mem, rsp) = q + d
  <2>1. FirstZero(mem, (p + d) + 1, q + d)
    BY <1>11, <1>12
  <2> QED
    BY <2>1, <1>3, <1>12, <1>13, ZeroFromIs DEF EnvpEnd
<1> QED
  BY <1>5, <1>13, <1>14

\* One word of auxv: what sa_pivot makes of it and what the stub makes of it.
LEMMA AuxWord ==
    ASSUME ClobberInv, CopyInv, pc = "start",
           NEW s, NEW k, NEW p, NEW q, NEW r, NEW t, NEW z, Entered(s, k, p, q, r, t, z),
           z \in Int, End(mem0, sp0) = z + 1,
           NEW i \in DOMAIN mm.saved_auxv, i % 2 = 1 \/ mm.saved_auxv[i - 1] # AT_BASE
    PROVE  mm.saved_auxv[i] = mem[(q + (rsp - sp0)) + i]
<1>1. Image(mem0, sp0, s.lo, s.hi, p, q, r) /\ Topmost(mem0, sp0, s.hi, t, z)
  BY DEF Entered
<1>2. /\ sp0 \in Nat /\ p \in Nat /\ q \in Nat /\ r \in Nat
      /\ sp0 + 1 <= p /\ p + 1 <= q /\ q + 1 <= r /\ r + 1 < z + 1
  BY <1>1, ImageOrder, EndBounds
<1>3. rsp \in Nat
  BY DEF CopyInv, MemInv
<1>4. PICK d \in Int : d = rsp - sp0
  BY <1>2, <1>3
<1>5. Tabled(mem0, sp0, p, q, r)
  BY <1>1 DEF Image
<1>6. PICK aux : aux = k.saved_auxv
  OBVIOUS
<1>7. DOMAIN aux = 1 .. r + 1 - q /\ \A j \in 1 .. r + 1 - q : aux[j] = mem0[q + j]
  BY <1>6 DEF Entered, Agrees
<1>8. mm.saved_auxv = [j \in DOMAIN aux |->
            IF j % 2 = 0 /\ aux[j - 1] \in PivotKeys THEN aux[j] + d ELSE aux[j]]
  BY <1>4, <1>6 DEF Entered, Pivoted
<1>9. i \in Int /\ 1 <= i /\ i <= (r + 1) - q /\ i \in DOMAIN aux
  BY <1>2, <1>7, <1>8
<1>10. /\ mm.saved_auxv[i] =
                IF i % 2 = 0 /\ aux[i - 1] \in PivotKeys THEN aux[i] + d ELSE aux[i]
       /\ aux[i] = mem0[q + i]
  BY <1>7, <1>8, <1>9
<1>11. q + i \in sp0 .. z + 1 /\ q + i \in Int /\ (q + d) + i = (q + i) + d
  BY <1>2, <1>9
<1>12. /\ q + i \in Pointers(mem0, sp0, StubKeys) => mem[(q + i) + d] = mem0[q + i] + d
       /\ q + i \notin Pointers(mem0, sp0, StubKeys) => mem[(q + i) + d] = mem0[q + i]
  BY <1>4, <1>11, CopyFacts
<1>13. \A K : q + i \in Pointers(mem0, sp0, K) <=>
                KeyWord(q, r, (q + i) - 1) /\ mem0[(q + i) - 1] \in K
  <2> SUFFICES ASSUME NEW K
               PROVE  q + i \in Pointers(mem0, sp0, K) <=>
                        KeyWord(q, r, (q + i) - 1) /\ mem0[(q + i) - 1] \in K
    OBVIOUS
  <2>1. /\ q + i \in AuxValues(mem0, sp0, K) <=>
                KeyWord(q, r, (q + i) - 1) /\ mem0[(q + i) - 1] \in K
        /\ Pointers(mem0, sp0, K) =
                (sp0 + 1 .. p - 1) \cup (p + 1 .. q - 1) \cup AuxValues(mem0, sp0, K)
    BY <1>5, <1>11, PointersAre
  <2>2. q + i \notin sp0 + 1 .. p - 1 /\ q + i \notin p + 1 .. q - 1
    BY <1>2, <1>9
  <2> QED
    BY <2>1, <2>2
<1>14. KeyWord(q, r, (q + i) - 1) <=> (i % 2 = 0 /\ i - 1 < r - q)
  <2>1. ((q + i) - 1) - (q + 1) = i - 2
    BY <1>2, <1>9
  <2>2. (i - 2) % 2 = 0 <=> i % 2 = 0
    BY <1>9
  <2>3. (q + i) - 1 \in q + 1 .. r - 1 <=> 2 <= i /\ i - 1 < r - q
    BY <1>2, <1>9
  <2>4. i % 2 = 0 => 2 <= i
    BY <1>9
  <2> QED
    BY <2>1, <2>2, <2>3, <2>4 DEF KeyWord
<1>a. CASE i % 2 = 1
  <2>1. i % 2 # 0
    BY <1>a
  <2>2. q + i \notin Pointers(mem0, sp0, StubKeys)
    BY <2>1, <1>13, <1>14
  <2> QED
    BY <2>1, <2>2, <1>4, <1>10, <1>11, <1>12
<1>b. CASE i % 2 = 0
  <2>1. i - 1 \in DOMAIN aux /\ (i - 1) % 2 # 0 /\ i % 2 # 1
    <3>1. 2 <= i /\ (i - 1) % 2 # 0 /\ i % 2 # 1
      BY <1>b, <1>9
    <3> QED
      BY <3>1, <1>2, <1>7, <1>9
  <2>2. aux[i - 1] = mem0[(q + i) - 1]
    <3>1. q + (i - 1) = (q + i) - 1
      BY <1>2, <1>9
    <3> QED
      BY <2>1, <3>1, <1>7
  <2>3. mm.saved_auxv[i - 1] = aux[i - 1]
    BY <2>1, <1>8
  <2>4. aux[i - 1] # AT_BASE
    BY <2>1, <2>3
  <2>5. aux[i - 1] \in StubKeys <=> aux[i - 1] \in PivotKeys
    BY <2>4 DEF StubKeys, PivotKeys
  <2>6. aux[i - 1] \in PivotKeys => i - 1 < r - q
    <3> SUFFICES ASSUME ~(i - 1 < r - q) PROVE aux[i - 1] \notin PivotKeys
      OBVIOUS
    <3>1. (q + i) - 1 = r
      BY <1>2, <1>9
    <3>2. aux[i - 1] = AT_NULL
      BY <3>1, <2>2, <1>5 DEF Tabled, AuxEnd
    <3> QED
      BY <3>2 DEF PivotKeys, AT_NULL, AT_PLATFORM, AT_RANDOM, AT_EXECFN
  <2>7. q + i \in Pointers(mem0, sp0, StubKeys) <=> aux[i - 1] \in PivotKeys
    BY <2>2, <2>5, <2>6, <1>b, <1>13, <1>14
  <2> QED
    BY <2>7, <1>b, <1>4, <1>10, <1>11, <1>12
<1>15. i % 2 = 0 \/ i % 2 = 1
  BY <1>9
<1> QED
  BY <1>15, <1>a, <1>b

\* KernelView for every stack execve may leave: after the pivot the fields of
\* mm_struct describe the stack the process runs on.
THEOREM StartupKernelView == Spec => []KernelView
<1>1. ClobberInv /\ CopyInv => KernelView
  <2> SUFFICES ASSUME ClobberInv, CopyInv, pc = "start" PROVE KernelView
    BY DEF KernelView
  <2>1. PICK s \in maps0 : \E k, p, q, r, t, z :
            /\ Entered(s, k, p, q, r, t, z)
            /\ z \in Int /\ End(mem0, sp0) = z + 1
    BY Named
  <2>2. PICK k, p, q, r, t, z :
            /\ Entered(s, k, p, q, r, t, z)
            /\ z \in Int /\ End(mem0, sp0) = z + 1
    BY <2>1
  <2>3. Image(mem0, sp0, s.lo, s.hi, p, q, r) /\ Agrees(k, mem0, sp0, p, q, r)
    BY <2>2 DEF Entered
  <2>4. /\ sp0 \in Nat /\ p \in Nat /\ q \in Nat /\ r \in Nat /\ rsp \in Nat /\ area \in Nat
        /\ sp0 + 1 <= p /\ p + 1 <= q /\ q + 1 <= r
    BY <2>3, ImageOrder DEF CopyInv, MemInv
  <2>5. PICK d \in Int : d = rsp - sp0
    BY <2>4
  <2>6. ArgvEnd(mem, rsp) = p + d /\ EnvpEnd(mem, rsp) = q + d
    BY <2>2, <2>5, CopyEnds
  <2>7. /\ mm.start_stack = area
        /\ mm.arg_start = k.arg_start + d /\ mm.arg_end = k.arg_end + d
        /\ mm.env_start = k.env_start + d /\ mm.env_end = k.env_end + d
    BY <2>2, <2>5 DEF Entered, Pivoted
  <2>8. \A i \in DOMAIN mm.saved_auxv :
            i % 2 = 1 \/ mm.saved_auxv[i - 1] # AT_BASE => mm.saved_auxv[i] = mem[(q + d) + i]
    BY <2>2, <2>5, AuxWord
  <2>9. Pointers(mem0, sp0, PivotKeys) =
            (sp0 + 1 .. p - 1) \cup (p + 1 .. q - 1) \cup AuxValues(mem0, sp0, PivotKeys)
    <3>1. Tabled(mem0, sp0, p, q, r)
      BY <2>3 DEF Image
    <3> QED
      BY <3>1, PointersAre
  <2>10. ASSUME p + d > rsp + 1
         PROVE  mm.arg_start = mem[rsp + 1]
    <3>1. p > sp0 + 1 /\ (sp0 + 1) + d = rsp + 1
      BY <2>4, <2>5, <2>10
    <3>2. sp0 + 1 \in Pointers(mem0, sp0, PivotKeys) /\ k.arg_start = mem0[sp0 + 1]
      BY <3>1, <2>3, <2>4, <2>9 DEF Agrees
    <3>3. mem[(sp0 + 1) + d] = mem0[sp0 + 1] + d
      BY <3>2, <2>2, <2>5, MovedPointers
    <3> QED
      BY <3>1, <3>2, <3>3, <2>7
  <2>11. ASSUME q + d > (p + d) + 1
         PROVE  mm.env_start = mem[(p + d) + 1]
    <3>1. q > p + 1 /\ (p + 1) + d = (p + d) + 1
      BY <2>4, <2>5, <2>11
    <3>2. p + 1 \in Pointers(mem0, sp0, PivotKeys) /\ k.env_start = mem0[p + 1]
      BY <3>1, <2>3, <2>4, <2>9 DEF Agrees
    <3>3. mem[(p + 1) + d] = mem0[p + 1] + d
      BY <3>2, <2>2, <2>5, MovedPointers
    <3> QED
      BY <3>1, <3>2, <3>3, <2>7
  <2>12. PICK y \in Pointers(mem0, sp0, PivotKeys) : k.env_end = mem0[y]
    BY <2>3 DEF Agrees
  <2>13. /\ k.env_end \in Nat /\ k.env_end + d \in NewStack
         /\ k.env_end \in sp0 .. z + 1
    BY <2>2, <2>5, <2>12, MovedPointers
  <2>14. /\ k.arg_start \in Nat /\ r + 1 < k.arg_start
         /\ k.arg_end \in Int /\ k.arg_start <= k.arg_end /\ k.arg_end <= k.env_end
    BY <2>3, <2>13 DEF Agrees
  <2>15. mm.arg_start <= mm.arg_end /\ mm.arg_end <= mm.env_end
    BY <2>7, <2>13, <2>14
  <2>16. k.arg_start + d \in NewStack
    <3>1. k.arg_start \in sp0 .. z + 1
      BY <2>2, <2>4, <2>13, <2>14
    <3> QED
      BY <3>1, <2>2, <2>5, CopyFacts
  <2>17. area \in NewStack
    <3>1. STACK_SIZE \in Nat \ {0}
      BY StartupConstants
    <3> QED
      BY <3>1, <2>4 DEF NewStack
  <2>18. {mm.start_stack, mm.arg_start, mm.env_end} \subseteq NewStack
    BY <2>7, <2>13, <2>16, <2>17
  <2> QED
    BY <2>6, <2>8, <2>10, <2>11, <2>15, <2>18 DEF KernelView
<1> QED
  BY <1>1, CopyAlways, PTL
=============================================================================
