----------------------------- MODULE AsmMemory -----------------------------
(***************************************************************************)
(* The memory of the assembler (asm/src/Memory.c, Error.c, zlasm.c): every *)
(* block that a call of zlasm_assemble allocates is on a list in the error *)
(* context of its thread, so that a failure, which jumps out of wherever   *)
(* it happens, can free them all.  Threads share the heap; each step is    *)
(* one call of the allocator, which may fail.                              *)
(*                                                                         *)
(* What is between the calls of the allocator (lexer, parser, translation) *)
(* is left out: the call may allocate, resize and free blocks of its own,  *)
(* fail, and return a block, at any time.                                  *)
(***************************************************************************)
EXTENDS Naturals, FiniteSets

CONSTANTS
  Threads,
  Blocks,       \* the addresses malloc may return
  NULL

ASSUME NullIsNoBlock == NULL \notin Blocks

VARIABLES
  heap,         \* the blocks that are allocated
  pc,           \* where assemble_source is, of each thread
  error,        \* local variable: the AsmErrorContext
  diagnostic,   \* local variable: the ZlasmDiagnostic
  context,      \* current_context, thread-local
  allocations,  \* context->allocations, of the context at each address
  fresh,        \* the block that asm_malloc is about to track
  binary,       \* result.binary
  code,         \* diagnostic->code
  returned,     \* the last ZlasmResult that the caller has got, or NULL
  kept          \* the blocks the caller has to free

locals == <<error, diagnostic, fresh, binary, code>>
vars   == <<heap, pc, locals, context, allocations, returned, kept>>

Entry    == [node : Blocks, pointer : Blocks]
Codes    == {"NONE", "INVALID_ARGUMENT", "OUT_OF_MEMORY", "OTHER"}
Free     == Blocks \ heap
Results  == [binary : Blocks \cup {NULL}, code : Codes]

Goto(t, label) == pc' = [pc EXCEPT ![t] = label]

(* asm_fail: longjmp to assemble_source.                                   *)
Fail(t, c) ==
  /\ code' = [code EXCEPT ![t] = c]
  /\ Goto(t, "release")

-----------------------------------------------------------------------------
(* assemble_source up to setjmp.  Faulty variant: the diagnostic is not    *)
(* cleared, and is where the one of an earlier call was.                   *)
StaleCode(t)   == code
ClearedCode(t) == [code EXCEPT ![t] = "NONE"]

Call(t) ==
  /\ pc[t] = "idle"
  /\ \E e \in Free \cup {NULL} :
       /\ error' = [error EXCEPT ![t] = e]
       /\ heap' = heap \cup ({e} \ {NULL})
  /\ code' = ClearedCode(t)
  /\ Goto(t, "diagnostic")
  /\ UNCHANGED <<diagnostic, fresh, binary, context, allocations, returned, kept>>

AllocateDiagnostic(t) ==
  /\ pc[t] = "diagnostic"
  /\ \E d \in Free \cup {NULL} :
       /\ diagnostic' = [diagnostic EXCEPT ![t] = d]
       /\ heap' = heap \cup ({d} \ {NULL})
  /\ Goto(t, "checks")
  /\ UNCHANGED <<error, fresh, binary, code, context, allocations, returned, kept>>

(* The blocks of its own that assemble_source frees when it returns.       *)
Return(t, result) ==
  /\ heap' = heap \ {error[t], diagnostic[t]}
  /\ error' = [error EXCEPT ![t] = NULL]
  /\ diagnostic' = [diagnostic EXCEPT ![t] = NULL]
  /\ binary' = [binary EXCEPT ![t] = NULL]
  /\ returned' = [returned EXCEPT ![t] = result]
  /\ kept' = kept \cup ({result.binary} \ {NULL})
  /\ Goto(t, "idle")

ReturnEarly(t, c) ==
  /\ Return(t, [binary |-> NULL, code |-> c])
  /\ UNCHANGED <<fresh, code, context, allocations>>

NoContext(t) ==
  /\ pc[t] = "checks"
  /\ NULL \in {error[t], diagnostic[t]}
  /\ ReturnEarly(t, "OUT_OF_MEMORY")

NullSource(t) ==
  /\ pc[t] = "checks"
  /\ NULL \notin {error[t], diagnostic[t]}
  /\ ReturnEarly(t, "INVALID_ARGUMENT")

(* asm_error_begin.  Faulty variant: one current_context of all threads.   *)
EnteredByAll(t) == [u \in Threads |-> error[t]]
Entered(t)      == [context EXCEPT ![t] = error[t]]

Begin(t) ==
  /\ pc[t] = "checks"
  /\ NULL \notin {error[t], diagnostic[t]}
  /\ allocations' = [allocations EXCEPT ![error[t]] = {}]
  /\ context' = Entered(t)
  /\ Goto(t, "run")
  /\ UNCHANGED <<heap, locals, returned, kept>>

-----------------------------------------------------------------------------
(* The list of the current context; its order is left out, because nothing *)
(* depends on it.                                                          *)
Tracked(t)     == allocations[context[t]]
Track(t, list) == allocations' = [allocations EXCEPT ![context[t]] = list]

(* asm_malloc, asm_calloc, asm_strdup and asm_realloc of NULL.             *)
Obtained == Free

Malloc(t) ==
  /\ pc[t] = "run"
  /\ \E p \in Obtained :
       /\ heap' = heap \cup {p}
       /\ fresh' = [fresh EXCEPT ![t] = p]
  /\ Goto(t, "track")
  /\ UNCHANGED <<error, diagnostic, binary, code, context, allocations, returned, kept>>

MallocFails(t) ==
  /\ pc[t] = "run"
  /\ Fail(t, "OUT_OF_MEMORY")
  /\ UNCHANGED <<heap, error, diagnostic, fresh, binary, context, allocations,
                 returned, kept>>

(* track.                                                                  *)
TrackFresh(t) ==
  /\ pc[t] = "track"
  /\ \E n \in Free :
       /\ heap' = heap \cup {n}
       /\ Track(t, Tracked(t) \cup {[node |-> n, pointer |-> fresh[t]]})
  /\ fresh' = [fresh EXCEPT ![t] = NULL]
  /\ Goto(t, "run")
  /\ UNCHANGED <<error, diagnostic, binary, code, context, returned, kept>>

(* Faulty variant: the block is not freed when its node cannot be had.     *)
UntrackedKept(t)  == heap
UntrackedFreed(t) == heap \ {fresh[t]}

TrackFails(t) ==
  /\ pc[t] = "track"
  /\ heap' = UntrackedFreed(t)
  /\ fresh' = [fresh EXCEPT ![t] = NULL]
  /\ Fail(t, "OUT_OF_MEMORY")
  /\ UNCHANGED <<error, diagnostic, binary, context, allocations, returned, kept>>

(* asm_realloc of a tracked block, which may move.  Faulty variant: the    *)
(* entry keeps the old address.                                            *)
MovedNowhere(a, p) == a
Moved(a, p)        == [a EXCEPT !.pointer = p]

Realloc(t) ==
  /\ pc[t] = "run"
  /\ \E a \in Tracked(t) : \E p \in Free \cup {a.pointer} :
       /\ heap' = (heap \ {a.pointer}) \cup {p}
       /\ Track(t, (Tracked(t) \ {a}) \cup {Moved(a, p)})
  /\ UNCHANGED <<pc, locals, context, returned, kept>>

(* asm_free of a tracked block.                                            *)
AsmFree(t) ==
  /\ pc[t] = "run"
  /\ \E a \in Tracked(t) :
       /\ heap' = heap \ {a.node, a.pointer}
       /\ Track(t, Tracked(t) \ {a})
  /\ UNCHANGED <<pc, locals, context, returned, kept>>

(* Any other refusal of the source.                                        *)
Refuse(t) ==
  /\ pc[t] = "run"
  /\ Fail(t, "OTHER")
  /\ UNCHANGED <<heap, error, diagnostic, fresh, binary, context, allocations,
                 returned, kept>>

-----------------------------------------------------------------------------
(* asm_translate returns a block of its own, asm_translate_object one that *)
(* the image codec has allocated and that is on no list.  (asm_free of the *)
(* AssemblerContext, which follows, is one more AsmFree before.)           *)
TranslateRaw(t) ==
  /\ pc[t] = "run"
  /\ \E a \in Tracked(t) : binary' = [binary EXCEPT ![t] = a.pointer]
  /\ Goto(t, "detach")
  /\ UNCHANGED <<heap, error, diagnostic, fresh, code, context, allocations,
                 returned, kept>>

TranslateObject(t) ==
  /\ pc[t] = "run"
  /\ \E p \in Free :
       /\ heap' = heap \cup {p}
       /\ binary' = [binary EXCEPT ![t] = p]
  /\ Goto(t, "detach")
  /\ UNCHANGED <<error, diagnostic, fresh, code, context, allocations, returned, kept>>

EntryOf(t, p) == {a \in Tracked(t) : a.pointer = p}

(* asm_memory_detach.                                                      *)
Detach(t) ==
  /\ pc[t] = "detach"
  /\ heap' = heap \ {a.node : a \in EntryOf(t, binary[t])}
  /\ Track(t, Tracked(t) \ EntryOf(t, binary[t]))
  /\ Goto(t, "release")
  /\ UNCHANGED <<locals, context, returned, kept>>

(* asm_memory_release_all, entry by entry.                                 *)
Release(t) ==
  /\ pc[t] = "release"
  /\ \E a \in Tracked(t) :
       /\ heap' = heap \ {a.node, a.pointer}
       /\ Track(t, Tracked(t) \ {a})
  /\ UNCHANGED <<pc, locals, context, returned, kept>>

(* asm_error_end and the end of assemble_source.                           *)
End(t) ==
  /\ pc[t] = "release"
  /\ Tracked(t) = {}
  /\ context' = [context EXCEPT ![t] = NULL]
  /\ Return(t, [binary |-> binary[t], code |-> code[t]])
  /\ UNCHANGED <<fresh, code, allocations>>

-----------------------------------------------------------------------------
(* The caller: asm_malloc outside of a call tracks nothing (asm/main.c     *)
(* reads the source into such a block); zlasm_result_free and asm_free.    *)
CallerAllocates(t) ==
  /\ pc[t] = "idle"
  /\ \E p \in Free : heap' = heap \cup {p} /\ kept' = kept \cup {p}
  /\ UNCHANGED <<pc, locals, context, allocations, returned>>

CallerFrees(t) ==
  /\ pc[t] = "idle"
  /\ \E p \in kept : heap' = heap \ {p} /\ kept' = kept \ {p}
  /\ UNCHANGED <<pc, locals, context, allocations, returned>>

Init ==
  /\ heap = {}
  /\ pc = [t \in Threads |-> "idle"]
  /\ error = [t \in Threads |-> NULL]
  /\ diagnostic = [t \in Threads |-> NULL]
  /\ context = [t \in Threads |-> NULL]
  /\ allocations = [b \in Blocks |-> {}]
  /\ fresh = [t \in Threads |-> NULL]
  /\ binary = [t \in Threads |-> NULL]
  /\ code = [t \in Threads |-> "NONE"]
  /\ returned = [t \in Threads |-> NULL]
  /\ kept = {}

Step(t) ==
  \/ Call(t) \/ AllocateDiagnostic(t) \/ NoContext(t) \/ NullSource(t) \/ Begin(t)
  \/ Malloc(t) \/ MallocFails(t) \/ TrackFresh(t) \/ TrackFails(t)
  \/ Realloc(t) \/ AsmFree(t) \/ Refuse(t) \/ TranslateRaw(t) \/ TranslateObject(t)
  \/ Detach(t) \/ Release(t) \/ End(t) \/ CallerAllocates(t) \/ CallerFrees(t)

Next == \E t \in Threads : Step(t)

Spec == Init /\ [][Next]_vars
=============================================================================
