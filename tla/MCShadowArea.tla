---------------------------- MODULE MCShadowArea ----------------------------
(***************************************************************************)
(* Instances of ShadowArea for TLC.  Every run picks its threads among     *)
(* t1 and t2, of group a, and t3, of group b.                              *)
(***************************************************************************)
EXTENDS ShadowArea, TLC

CONSTANTS a, b, t1, t2, t3, d1, d2, l1, l2

MCGroup == [t \in Threads |-> IF t = t3 THEN b ELSE a]

\* Pagelists and descriptors are interchangeable.
Symmetry == Permutations(Pagelists) \cup Permutations(Descs)

\* Liveness is checked without symmetry, on fewer behaviours: each process has
\* its own descriptor, the page allocator gives out l1 before l2, and t2, which
\* frees the stacks of t1, asks for none.
Roles ==
    /\ tgid'[d1] \in {a, NULL} /\ tgid'[d2] \in {b, NULL}
    /\ l2 \in allocated' \ allocated => l1 \in allocated
    /\ op'[t2] # "alloc"
=============================================================================
