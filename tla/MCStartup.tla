----------------------------- MODULE MCStartup -----------------------------
(***************************************************************************)
(* Startup for TLC: seven pages below TASK_SIZE, the program in page 1, the *)
(* new stack wanted at page 2, BASE at page 4.  Any of the pages from 3 up  *)
(* may be mapped, two of them also as one vma across BASE, and one of the   *)
(* last three is the stack.                                                 *)
(***************************************************************************)
EXTENDS Startup

Page(p, use) == Vma(p * PAGE, (p + 1) * PAGE, use)

MCMaps ==
    {{Page(1, "other"), Page(s, "stack")} \cup low \cup {Page(p, "other") : p \in P} :
        s \in {5, 6, 7},
        low \in {{}, {Page(3, "other")}, {Vma(3 * PAGE, 5 * PAGE, "other")}},
        P \in SUBSET {5, 6, 7}}

\* Only disjoint ones.
DisjointMaps ==
    {V \in MCMaps : \A v, w \in V : v = w \/ ~Overlap(v, w.lo, w.hi)}

MCArgs == [argv : {<<>>, <<1, 0>>}, envp : {<<>>, <<1>>},
           platform : BOOLEAN, top : {AT_EXECFN, AT_RANDOM}, base : {PAGE}]
=============================================================================
