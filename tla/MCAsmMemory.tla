---------------------------- MODULE MCAsmMemory ----------------------------
(***************************************************************************)
(* Two threads and a heap that holds one whole call and the beginning of a *)
(* second one.  Blocks are interchangeable.                                *)
(***************************************************************************)
EXTENDS AsmMemoryProperties, TLC

Symmetry == Permutations(Blocks) \cup Permutations(Threads)
=============================================================================
