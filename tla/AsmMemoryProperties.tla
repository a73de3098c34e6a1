------------------------ MODULE AsmMemoryProperties ------------------------
(***************************************************************************)
(* What the caller of zlasm_assemble relies on, whatever happens in it.    *)
(***************************************************************************)
EXTENDS AsmMemory

(* Pointers point to blocks or are NULL, and the list of a context has     *)
(* blocks on it.  Code: AsmErrorContext and AsmAllocation.                 *)
TypeOK ==
  /\ heap \in SUBSET Blocks
  /\ pc \in [Threads -> {"idle", "diagnostic", "checks", "run", "track",
                         "detach", "release"}]
  /\ error \in [Threads -> Blocks \cup {NULL}]
  /\ diagnostic \in [Threads -> Blocks \cup {NULL}]
  /\ context \in [Threads -> Blocks \cup {NULL}]
  /\ allocations \in [Blocks -> SUBSET Entry]
  /\ fresh \in [Threads -> Blocks \cup {NULL}]
  /\ binary \in [Threads -> Blocks \cup {NULL}]
  /\ code \in [Threads -> Codes]
  /\ returned \in [Threads -> Results \cup {NULL}]
  /\ kept \in SUBSET Blocks

-----------------------------------------------------------------------------
(* The blocks a thread has to free before its call returns, or to return.  *)
Entries(t)   == IF context[t] = NULL THEN {} ELSE Tracked(t)
Nodes(t)     == {a.node : a \in Entries(t)}
Pointers(t)  == {a.pointer : a \in Entries(t)}
Locals(t)    == {error[t], diagnostic[t], fresh[t], binary[t]} \ {NULL}
OwnBlocks(t) == Locals(t) \cup Nodes(t) \cup Pointers(t)

(* Every block that is allocated is still known to the call that will free *)
(* it, or is the caller's; what they know is allocated.  So a call that    *)
(* has returned has left nothing behind but its result, also when it has   *)
(* jumped out of the middle of an operation, and no result is freed before *)
(* the caller gets it.                                                     *)
(* Code: track, asm_realloc, asm_memory_release_all, and assemble_source.  *)
NothingLeaks == heap = kept \cup UNION {OwnBlocks(t) : t \in Threads}

(* The caller and the threads have no block in common.                     *)
Apart ==
  /\ \A t \in Threads : OwnBlocks(t) \cap kept = {}
  /\ \A t, u \in Threads : t # u => OwnBlocks(t) \cap OwnBlocks(u) = {}

(* Within a call each block has one place, except that a raw result is on  *)
(* the list until it is detached.                                          *)
PlacedOnce(t) ==
  /\ error[t] # NULL => error[t] \notin {diagnostic[t], fresh[t], binary[t]}
  /\ diagnostic[t] # NULL => diagnostic[t] \notin {fresh[t], binary[t]}
  /\ \A a \in Entries(t) :
       /\ {a.node, a.pointer} \cap {error[t], diagnostic[t], fresh[t]} = {}
       /\ a.node # binary[t]
       /\ pc[t] = "release" => a.pointer # binary[t]
       /\ \A b \in Entries(t) : /\ a.node # b.pointer
                                /\ a # b => a.node # b.node /\ a.pointer # b.pointer

(* No block is freed twice: whoever frees one is the only one that will.   *)
(* Code: asm_free and asm_memory_detach against asm_memory_release_all;    *)
(* current_context is _Thread_local.                                       *)
FreedOnce ==
  /\ Apart
  /\ \A t \in Threads : PlacedOnce(t)

(* Every block that is allocated has exactly one owner that will free it.  *)
(* Code: the list of Memory.c, and assemble_source.                        *)
OneOwner == NothingLeaks /\ FreedOnce

(* "A failure has a NULL binary and a nonzero diagnostic code"             *)
(* (asm/zlasm.h), and a success the contrary, whatever call was before.    *)
(* Code: the returns of assemble_source.                                   *)
AnswerIsClear ==
  \A t \in Threads : returned[t] # NULL =>
    (returned[t].code = "NONE" <=> returned[t].binary # NULL)

-----------------------------------------------------------------------------
Contract == INSTANCE Arena WITH
  active <- {t \in Threads : pc[t] # "idle"},
  owned  <- [t \in Threads |-> OwnBlocks(t)]

(* Seen from outside, a call takes free blocks, gives back only its own,   *)
(* has none left when it returns and hands at most one to the caller.      *)
(* Code: all of Memory.c, and assemble_source.                             *)
IsArena == Contract!Spec
=============================================================================
