------------------------------- MODULE Arena -------------------------------
(***************************************************************************)
(* What the memory of the assembler promises: a call of it takes blocks    *)
(* that nobody has, gives back only its own, and keeps none of them when   *)
(* it returns.  At most one block goes to the caller, who frees it.        *)
(***************************************************************************)
CONSTANTS Threads, Blocks

VARIABLES
  active,    \* the threads that are in a call
  owned,     \* the blocks of the call of each thread
  kept       \* the blocks of the callers

vars == <<active, owned, kept>>

Taken == kept \cup UNION {owned[t] : t \in Threads}

(* The blocks of a call change to others that are free or its own.         *)
Exchange(t) ==
  \E S \in SUBSET ((Blocks \ Taken) \cup owned[t]) :
    owned' = [owned EXCEPT ![t] = S]

Call(t) ==
  /\ t \notin active
  /\ active' = active \cup {t}
  /\ Exchange(t)
  /\ UNCHANGED kept

Work(t) == t \in active /\ Exchange(t) /\ UNCHANGED <<active, kept>>

Return(t) ==
  /\ t \in active
  /\ active' = active \ {t}
  /\ owned' = [owned EXCEPT ![t] = {}]
  /\ kept' = kept \/ \E b \in owned[t] : kept' = kept \cup {b}

(* What the caller does with blocks of its own.                            *)
Take == \E b \in Blocks \ Taken : kept' = kept \cup {b} /\ UNCHANGED <<active, owned>>
Drop == \E b \in kept : kept' = kept \ {b} /\ UNCHANGED <<active, owned>>

Init == active = {} /\ owned = [t \in Threads |-> {}] /\ kept = {}

Next == Take \/ Drop \/ \E t \in Threads : Call(t) \/ Work(t) \/ Return(t)

Spec == Init /\ [][Next]_vars
=============================================================================
