----------------------------- MODULE MCModuleLife -----------------------------
(***************************************************************************)
(* ModuleLife for TLC: two symbols are enough to miss the first, the last, *)
(* both or none.                                                           *)
(***************************************************************************)
EXTENDS ModuleLife

MCSymbols == <<"__p4d_alloc", "__pte_offset_map_lock">>
===============================================================================
