-------------------------- MODULE AsmMemoryProofs --------------------------
(***************************************************************************)
(* Memory of the assembler, for every number of threads and every heap:    *)
(* nothing leaks, nothing is freed twice, and seen from outside a call is  *)
(* the one of Arena.                                                       *)
(***************************************************************************)
EXTENDS AsmMemoryProperties, TLAPS

(* Which pointers are set at which place of assemble_source.               *)
Inside == {"run", "track", "detach", "release"}

Stage(t) ==
  /\ pc[t] = "idle" => error[t] = NULL /\ diagnostic[t] = NULL
  /\ pc[t] = "diagnostic" => diagnostic[t] = NULL
  /\ pc[t] \notin Inside => context[t] = NULL
  /\ pc[t] \in Inside =>
       context[t] = error[t] /\ error[t] # NULL /\ diagnostic[t] # NULL
  /\ fresh[t] # NULL <=> pc[t] = "track"
  /\ binary[t] # NULL => pc[t] \in {"detach", "release"}
  /\ pc[t] = "detach" => binary[t] # NULL
  /\ pc[t] \notin {"idle", "release"} => code[t] = "NONE"
  /\ pc[t] = "release" => (code[t] = "NONE" <=> binary[t] # NULL)

Stages == \A t \in Threads : Stage(t)

Inv == TypeOK /\ Stages /\ NothingLeaks /\ FreedOnce /\ AnswerIsClear

-----------------------------------------------------------------------------
(* A thread that exchanges blocks of its own for free ones, while the      *)
(* others and the caller keep theirs, leaves everything accounted for.     *)
LEMMA ExchangeKeeps ==
  ASSUME NothingLeaks, Apart, heap \subseteq Blocks, NEW t \in Threads,
         NEW S \in SUBSET (Free \cup OwnBlocks(t)),
         OwnBlocks(t)' = S,
         \A u \in Threads \ {t} : OwnBlocks(u)' = OwnBlocks(u),
         kept' = kept,
         heap' = (heap \ OwnBlocks(t)) \cup S
  PROVE  NothingLeaks' /\ Apart' /\ Contract!Exchange(t)
<1> DEFINE Own(u) == OwnBlocks(u)
           New(u) == IF u = t THEN S ELSE OwnBlocks(u)
<1>1. \A u \in Threads : OwnBlocks(u)' = New(u)
  OBVIOUS
<1>2. heap = kept \cup UNION {Own(u) : u \in Threads}
  BY DEF NothingLeaks
<1>3. /\ \A u \in Threads : Own(u) \cap kept = {}
      /\ \A u, v \in Threads : u # v => Own(u) \cap Own(v) = {}
  BY DEF Apart
<1>4. Own(t) = OwnBlocks(t) /\ \A u \in Threads : u # t => New(u) = Own(u)
  OBVIOUS
<1>5. S \cap kept = {} /\ \A u \in Threads : u # t => S \cap Own(u) = {}
  <2> HIDE DEF Own
  <2> QED
    BY <1>2, <1>3, <1>4 DEF Free
<1>6. heap' = kept \cup UNION {New(u) : u \in Threads}
  <2>1. New(t) = S
    OBVIOUS
  <2> HIDE DEF Own, New
  <2>2. \A b : b \in heap <=> b \in kept \/ \E u \in Threads : b \in Own(u)
    BY <1>2
  <2>3. \A b : b \in heap' <=> (b \in heap /\ b \notin Own(t)) \/ b \in S
    BY <1>4
  <2>4. \A b : (b \in heap /\ b \notin Own(t)) <=>
                 b \in kept \/ \E u \in Threads : u # t /\ b \in Own(u)
    BY <2>2, <1>3
  <2>5. \A b : b \in heap' <=> b \in kept \/ \E u \in Threads : b \in New(u)
    BY <2>1, <2>3, <2>4, <1>4
  <2> QED
    BY <2>5
<1>7. NothingLeaks'
  <2>1. (UNION {OwnBlocks(u) : u \in Threads})' = UNION {New(u) : u \in Threads}
    <3> HIDE DEF New
    <3> QED
      BY <1>1
  <2> HIDE DEF New
  <2> QED
    BY <1>6, <2>1 DEF NothingLeaks
<1>8. Apart'
  <2>1. New(t) = S
    OBVIOUS
  <2>2. /\ \A u \in Threads : New(u) \cap kept = {}
        /\ \A u, v \in Threads : u # v => New(u) \cap New(v) = {}
    <3> HIDE DEF New, Own
    <3> QED
      BY <2>1, <1>3, <1>4, <1>5
  <2> HIDE DEF New, Own
  <2> QED
    BY <2>2, <1>1 DEF Apart
<1>9. Contract!Exchange(t)
  <2>1. Contract!Taken = heap
    BY <1>2 DEF Contract!Taken
  <2>2. [u \in Threads |-> OwnBlocks(u)]' = [[u \in Threads |-> OwnBlocks(u)] EXCEPT ![t] = S]
    <3> HIDE DEF Own
    <3>1. [u \in Threads |-> OwnBlocks(u)]' = [u \in Threads |-> New(u)]
      <4> HIDE DEF New
      <4> QED
        BY <1>1
    <3> QED
      BY <3>1
  <2>3. S \in SUBSET ((Blocks \ Contract!Taken) \cup [u \in Threads |-> OwnBlocks(u)][t])
    BY <2>1 DEF Free
  <2> QED
    BY <2>2, <2>3 DEF Contract!Exchange
<1> QED
  BY <1>7, <1>8, <1>9

-----------------------------------------------------------------------------
(* A step of thread t leaves the variables of the others alone, and every  *)
(* list but its own.                                                       *)
OnlyOf(t) ==
  /\ \A u \in Threads \ {t} :
       /\ pc'[u] = pc[u] /\ error'[u] = error[u] /\ diagnostic'[u] = diagnostic[u]
       /\ fresh'[u] = fresh[u] /\ binary'[u] = binary[u] /\ code'[u] = code[u]
       /\ context'[u] = context[u]
  /\ \A b \in Blocks : b # error[t] => allocations'[b] = allocations[b]

LEMMA OthersKeep ==
  ASSUME Inv, NEW t \in Threads, OnlyOf(t), NEW u \in Threads \ {t}
  PROVE  OwnBlocks(u)' = OwnBlocks(u) /\ PlacedOnce(u)' /\ Stage(u)'
<1>1. Entries(u)' = Entries(u)
  <2>1. CASE context[u] = NULL
    BY <2>1 DEF OnlyOf, Entries
  <2>2. CASE context[u] # NULL
    <3>1. context[u] \in Blocks /\ context[u] = error[u]
      BY <2>2 DEF Inv, TypeOK, Stages, Stage
    <3>2. context[u] \in OwnBlocks(u)
      BY <2>2, <3>1 DEF OwnBlocks, Locals
    <3>3. context[u] # error[t]
      BY <2>2, <3>2 DEF Inv, FreedOnce, Apart, OwnBlocks, Locals
    <3> QED
      BY <2>2, <3>1, <3>3 DEF OnlyOf, Entries, Tracked
  <2> QED
    BY <2>1, <2>2
<1>2. OwnBlocks(u)' = OwnBlocks(u)
  BY <1>1 DEF OnlyOf, OwnBlocks, Locals, Nodes, Pointers
<1>3. PlacedOnce(u)'
  BY <1>1 DEF OnlyOf, PlacedOnce, Inv, FreedOnce
<1>4. Stage(u)'
  BY DEF OnlyOf, Stage, Stages, Inv
<1> QED
  BY <1>2, <1>3, <1>4

(* What has to be shown of a step in a call: it exchanges the blocks of    *)
(* its thread for S.                                                       *)
Exchanges(t, S) ==
  /\ OnlyOf(t) /\ Stage(t)' /\ PlacedOnce(t)'
  /\ S \in SUBSET (Free \cup OwnBlocks(t))
  /\ OwnBlocks(t)' = S
  /\ heap' = (heap \ OwnBlocks(t)) \cup S
  /\ kept' = kept

LEMMA ExchangeStep ==
  ASSUME Inv, NEW t \in Threads, NEW S, Exchanges(t, S)
  PROVE  /\ Stages' /\ NothingLeaks' /\ FreedOnce'
         /\ Contract!Exchange(t) /\ kept' = kept
<1>1. \A u \in Threads \ {t} : OwnBlocks(u)' = OwnBlocks(u) /\ PlacedOnce(u)' /\ Stage(u)'
  BY OthersKeep DEF Exchanges
<1>2. NothingLeaks' /\ Apart' /\ Contract!Exchange(t)
  <2>1. NothingLeaks /\ Apart /\ heap \subseteq Blocks
    BY DEF Inv, TypeOK, FreedOnce
  <2> QED
    BY <1>1, <2>1, ExchangeKeeps DEF Exchanges
<1>3. Stages' /\ FreedOnce'
  BY <1>1, <1>2 DEF Exchanges, Stages, FreedOnce
<1> QED
  BY <1>2, <1>3 DEF Exchanges

-----------------------------------------------------------------------------
(* The blocks of a thread, one by one.                                     *)
LEMMA OwnIs ==
  ASSUME NEW t \in Threads
  PROVE  \A b : b \in OwnBlocks(t) <=>
           \/ b # NULL /\ b \in {error[t], diagnostic[t], fresh[t], binary[t]}
           \/ \E a \in Entries(t) : b = a.node \/ b = a.pointer
BY DEF OwnBlocks, Locals, Nodes, Pointers

LEMMA OwnIsAfter ==
  ASSUME NEW t \in Threads
  PROVE  \A b : b \in OwnBlocks(t)' <=>
           \/ b # NULL /\ b \in {error'[t], diagnostic'[t], fresh'[t], binary'[t]}
           \/ \E a \in Entries(t)' : b = a.node \/ b = a.pointer
BY DEF OwnBlocks, Locals, Nodes, Pointers

LEMMA OwnInHeap ==
  ASSUME NothingLeaks, NEW t \in Threads
  PROVE  OwnBlocks(t) \subseteq heap
BY DEF NothingLeaks

LEMMA EntriesAreEntries ==
  ASSUME TypeOK, Stages, NEW t \in Threads
  PROVE  /\ Entries(t) \in SUBSET Entry
         /\ pc[t] \in Inside => Entries(t) = Tracked(t)
         /\ pc[t] \notin Inside => Entries(t) = {}
<1>1. context[t] \in Blocks \cup {NULL} /\ Stage(t)
  BY DEF TypeOK, Stages
<1> QED
  BY <1>1, NullIsNoBlock DEF TypeOK, Stage, Entries, Tracked

-----------------------------------------------------------------------------
(* The blocks of a list when an entry joins or leaves it.                  *)
BlocksOf(list) == {a.node : a \in list} \cup {a.pointer : a \in list}

Distinct(list) ==
  \A a, b \in list : /\ a.node # b.pointer
                     /\ a # b => a.node # b.node /\ a.pointer # b.pointer

LEMMA OwnIsBlocksOf ==
  ASSUME NEW t \in Threads
  PROVE  /\ OwnBlocks(t) = Locals(t) \cup BlocksOf(Entries(t))
         /\ OwnBlocks(t)' = Locals(t)' \cup BlocksOf(Entries(t)')
BY DEF OwnBlocks, Nodes, Pointers, BlocksOf

LEMMA EntryJoins ==
  ASSUME NEW list, NEW e
  PROVE  BlocksOf(list \cup {e}) = BlocksOf(list) \cup {e.node, e.pointer}
<1>1. \A b : b \in BlocksOf(list \cup {e}) <=>
              \E a \in list \cup {e} : b = a.node \/ b = a.pointer
  BY DEF BlocksOf
<1>2. \A b : b \in BlocksOf(list) <=> \E a \in list : b = a.node \/ b = a.pointer
  BY DEF BlocksOf
<1> QED
  BY <1>1, <1>2

LEMMA EntryLeaves ==
  ASSUME NEW list, Distinct(list), NEW e \in list
  PROVE  BlocksOf(list \ {e}) = BlocksOf(list) \ {e.node, e.pointer}
<1>1. \A b : b \in BlocksOf(list \ {e}) <=>
              \E a \in list \ {e} : b = a.node \/ b = a.pointer
  BY DEF BlocksOf
<1>2. \A b : b \in BlocksOf(list) <=> \E a \in list : b = a.node \/ b = a.pointer
  BY DEF BlocksOf
<1>3. \A a \in list \ {e} : {a.node, a.pointer} \cap {e.node, e.pointer} = {}
  BY DEF Distinct
<1> QED
  BY <1>1, <1>2, <1>3

(* One lemma for each step: what becomes of the blocks of the thread.      *)
LEMMA CallExchanges ==
  ASSUME Inv, NEW t \in Threads, Call(t)
  PROVE  TypeOK' /\ Exchanges(t, {error'[t]} \ {NULL})
<1>1. PICK e \in Free \cup {NULL} :
        error' = [error EXCEPT ![t] = e] /\ heap' = heap \cup ({e} \ {NULL})
  BY DEF Call
<1>2. TypeOK /\ Stage(t) /\ Entries(t) = {} /\ OwnBlocks(t) \subseteq heap
  BY EntriesAreEntries, OwnInHeap DEF Inv, Stages, Call, Inside
<1>3. TypeOK'
  BY <1>1, <1>2 DEF TypeOK, Call, Goto, ClearedCode, Codes, Free
<1>4. OnlyOf(t)
  BY <1>1, <1>2 DEF OnlyOf, TypeOK, Call, Goto, ClearedCode
<1>5. Stage(t)' /\ error'[t] = e
  BY <1>1, <1>2 DEF Stage, Inside, TypeOK, Call, Goto, ClearedCode
<1>6. Entries(t)' = {}
  BY <1>2 DEF Call, Stage, Inside, Entries
<1>7. PlacedOnce(t)'
  BY <1>1, <1>2, <1>5, <1>6 DEF PlacedOnce, Stage, TypeOK, Call
<1>8. OwnBlocks(t)' = {e} \ {NULL} /\ OwnBlocks(t) = {}
  BY <1>2, <1>5, <1>6, OwnIs, OwnIsAfter DEF Call, Stage
<1> QED
  BY <1>1, <1>3, <1>4, <1>5, <1>7, <1>8 DEF Exchanges, Call

LEMMA AllocateDiagnosticExchanges ==
  ASSUME Inv, NEW t \in Threads, AllocateDiagnostic(t)
  PROVE  TypeOK' /\ Exchanges(t, OwnBlocks(t) \cup ({diagnostic'[t]} \ {NULL}))
<1>1. PICK d \in Free \cup {NULL} :
        /\ diagnostic' = [diagnostic EXCEPT ![t] = d]
        /\ heap' = heap \cup ({d} \ {NULL})
  BY DEF AllocateDiagnostic
<1>2. TypeOK /\ Stage(t) /\ Entries(t) = {} /\ OwnBlocks(t) \subseteq heap
  BY EntriesAreEntries, OwnInHeap DEF Inv, Stages, AllocateDiagnostic, Inside
<1>3. TypeOK'
  BY <1>1, <1>2 DEF TypeOK, AllocateDiagnostic, Goto, Free
<1>4. OnlyOf(t)
  BY <1>1, <1>2 DEF OnlyOf, TypeOK, AllocateDiagnostic, Goto
<1>5. Stage(t)' /\ diagnostic'[t] = d /\ diagnostic[t] = NULL
  BY <1>1, <1>2 DEF Stage, Inside, TypeOK, AllocateDiagnostic, Goto
<1>6. Entries(t)' = {}
  BY <1>2 DEF AllocateDiagnostic, Stage, Inside, Entries
<1>7. OwnBlocks(t)' = OwnBlocks(t) \cup ({d} \ {NULL})
  BY <1>2, <1>5, <1>6, OwnIs, OwnIsAfter DEF AllocateDiagnostic
<1>8. error[t] # NULL => error[t] \in heap
  BY <1>2, OwnIs
<1>9. PlacedOnce(t)'
  BY <1>1, <1>2, <1>5, <1>6, <1>8 DEF PlacedOnce, Stage, AllocateDiagnostic, Free
<1> QED
  BY <1>1, <1>2, <1>3, <1>4, <1>5, <1>7, <1>9 DEF Exchanges, AllocateDiagnostic

LEMMA ReturnEarlyExchanges ==
  ASSUME Inv, NEW t \in Threads, NoContext(t) \/ NullSource(t)
  PROVE  TypeOK' /\ AnswerIsClear' /\ Exchanges(t, {})
<1>1. PICK c \in Codes \ {"NONE"} : pc[t] = "checks" /\ ReturnEarly(t, c)
  BY DEF NoContext, NullSource, Codes
<1>2. TypeOK /\ Stage(t) /\ Entries(t) = {} /\ OwnBlocks(t) \subseteq heap
  BY <1>1, EntriesAreEntries, OwnInHeap DEF Inv, Stages, Inside
<1>3. TypeOK'
  BY <1>1, <1>2 DEF TypeOK, ReturnEarly, Return, Goto, Results
<1>4. OnlyOf(t)
  BY <1>1, <1>2 DEF OnlyOf, TypeOK, ReturnEarly, Return, Goto
<1>5. Stage(t)' /\ error'[t] = NULL /\ diagnostic'[t] = NULL /\ fresh'[t] = NULL /\ binary'[t] = NULL
  BY <1>1, <1>2 DEF Stage, Inside, TypeOK, ReturnEarly, Return, Goto
<1>6. Entries(t)' = {}
  BY <1>1, <1>2 DEF ReturnEarly, Return, Stage, Inside, Entries
<1>7. OwnBlocks(t)' = {} /\ PlacedOnce(t)'
  BY <1>5, <1>6, OwnIsAfter DEF PlacedOnce
<1>8. OwnBlocks(t) = {error[t], diagnostic[t]} \ {NULL}
  BY <1>1, <1>2, OwnIs DEF Stage
<1>9. heap' = heap \ OwnBlocks(t) /\ kept' = kept
  BY <1>1, <1>2, <1>8, NullIsNoBlock DEF ReturnEarly, Return, TypeOK
<1>10. AnswerIsClear'
  BY <1>1, <1>2 DEF Inv, AnswerIsClear, ReturnEarly, Return, TypeOK
<1> QED
  BY <1>3, <1>4, <1>5, <1>7, <1>9, <1>10 DEF Exchanges

LEMMA BeginExchanges ==
  ASSUME Inv, NEW t \in Threads, Begin(t)
  PROVE  TypeOK' /\ Exchanges(t, OwnBlocks(t))
<1>2. TypeOK /\ Stage(t) /\ Entries(t) = {} /\ OwnBlocks(t) \subseteq heap
  BY EntriesAreEntries, OwnInHeap DEF Inv, Stages, Begin, Inside
<1>3. TypeOK'
  BY <1>2 DEF TypeOK, Begin, Entered, Goto, locals
<1>4. OnlyOf(t)
  BY <1>2 DEF OnlyOf, TypeOK, Begin, Entered, Goto, locals
<1>5. Stage(t)'
  BY <1>2 DEF Stage, Inside, TypeOK, Begin, Entered, Goto, locals
<1>6. Entries(t)' = {}
  BY <1>2 DEF TypeOK, Begin, Entered, Entries, Tracked
<1>7. OwnBlocks(t)' = OwnBlocks(t)
  BY <1>2, <1>6 DEF OwnBlocks, Locals, Nodes, Pointers, Begin, locals
<1>8. PlacedOnce(t)'
  BY <1>6 DEF Inv, FreedOnce, PlacedOnce, Begin, locals
<1> QED
  BY <1>2, <1>3, <1>4, <1>5, <1>7, <1>8 DEF Exchanges, Begin

LEMMA MallocExchanges ==
  ASSUME Inv, NEW t \in Threads, Malloc(t)
  PROVE  TypeOK' /\ Exchanges(t, OwnBlocks(t) \cup {fresh'[t]})
<1>1. PICK p \in Free : heap' = heap \cup {p} /\ fresh' = [fresh EXCEPT ![t] = p]
  BY DEF Malloc, Obtained
<1>2. TypeOK /\ Stage(t) /\ OwnBlocks(t) \subseteq heap
  BY OwnInHeap DEF Inv, Stages
<1>3. TypeOK'
  BY <1>1, <1>2 DEF TypeOK, Malloc, Goto, Free
<1>4. OnlyOf(t)
  BY <1>1, <1>2 DEF OnlyOf, TypeOK, Malloc, Goto
<1>5. Stage(t)' /\ fresh'[t] = p /\ fresh[t] = NULL /\ binary'[t] = NULL /\ p # NULL
  BY <1>1, <1>2, NullIsNoBlock DEF Stage, Inside, TypeOK, Malloc, Goto, Free
<1>6. Entries(t)' = Entries(t)
  BY DEF Malloc, Entries, Tracked
<1>7. OwnBlocks(t)' = OwnBlocks(t) \cup {p}
  BY <1>5, <1>6, OwnIs, OwnIsAfter DEF Malloc
<1>8. p \notin OwnBlocks(t)
  BY <1>2 DEF Free
<1>9. PlacedOnce(t)'
  <2>1. pc'[t] = "track" /\ PlacedOnce(t)
    BY <1>2 DEF Inv, FreedOnce, Malloc, Goto, TypeOK
  <2>2. /\ p # error[t] /\ p # diagnostic[t]
        /\ \A a \in Entries(t) : p # a.node /\ p # a.pointer
    BY <1>5, <1>8, OwnIs
  <2> QED
    BY <1>5, <1>6, <2>1, <2>2 DEF PlacedOnce, Malloc
<1> QED
  BY <1>1, <1>2, <1>3, <1>4, <1>5, <1>7, <1>9 DEF Exchanges, Malloc

LEMMA FailExchanges ==
  ASSUME Inv, NEW t \in Threads, MallocFails(t) \/ Refuse(t)
  PROVE  TypeOK' /\ Exchanges(t, OwnBlocks(t))
<1>1. PICK c \in Codes \ {"NONE"} :
        /\ pc[t] = "run" /\ Fail(t, c)
        /\ UNCHANGED <<heap, error, diagnostic, fresh, binary, context,
                       allocations, returned, kept>>
  BY DEF MallocFails, Refuse, Codes
<1>2. TypeOK /\ Stage(t) /\ OwnBlocks(t) \subseteq heap
  BY OwnInHeap DEF Inv, Stages
<1>3. TypeOK'
  BY <1>1, <1>2 DEF TypeOK, Fail, Goto
<1>4. OnlyOf(t)
  BY <1>1, <1>2 DEF OnlyOf, TypeOK, Fail, Goto
<1>5. Stage(t)' /\ binary[t] = NULL
  BY <1>1, <1>2 DEF Stage, Inside, TypeOK, Fail, Goto
<1>6. Entries(t)' = Entries(t)
  BY <1>1 DEF Entries, Tracked
<1>7. OwnBlocks(t)' = OwnBlocks(t)
  BY <1>1, <1>6 DEF OwnBlocks, Locals, Nodes, Pointers
<1>8. \A a \in Entries(t) : a.pointer # NULL
  BY <1>2, EntriesAreEntries, NullIsNoBlock DEF Entry, Inv
<1>9. PlacedOnce(t)'
  BY <1>1, <1>5, <1>6, <1>8 DEF Inv, FreedOnce, PlacedOnce
<1> QED
  BY <1>1, <1>2, <1>3, <1>4, <1>5, <1>7, <1>9 DEF Exchanges

LEMMA TrackFreshExchanges ==
  ASSUME Inv, NEW t \in Threads, TrackFresh(t)
  PROVE  TypeOK' /\ \E n \in Free : Exchanges(t, OwnBlocks(t) \cup {n})
<1> DEFINE new(n) == [node |-> n, pointer |-> fresh[t]]
<1>1. PICK n \in Free :
        heap' = heap \cup {n} /\ Track(t, Tracked(t) \cup {new(n)})
  BY DEF TrackFresh
<1>2. TypeOK /\ Stage(t) /\ OwnBlocks(t) \subseteq heap /\ Tracked(t) = Entries(t)
  BY OwnInHeap, EntriesAreEntries DEF Inv, Stages, TrackFresh, Inside
<1>3. fresh[t] # NULL /\ fresh[t] \in Blocks /\ context[t] \in Blocks /\ context[t] = error[t]
  BY <1>2 DEF TrackFresh, Stage, Inside, TypeOK
<1>4. TypeOK'
  <2>1. new(n) \in Entry /\ Tracked(t) \subseteq Entry
    BY <1>2, <1>3 DEF Entry, Free, TypeOK, Tracked
  <2> QED
    BY <1>1, <1>2, <1>3, <2>1 DEF TypeOK, TrackFresh, Track, Goto, Free
<1>5. OnlyOf(t)
  BY <1>1, <1>2, <1>3 DEF OnlyOf, TypeOK, TrackFresh, Track, Goto
<1>6. Stage(t)' /\ fresh'[t] = NULL
  BY <1>1, <1>2 DEF Stage, Inside, TypeOK, TrackFresh, Goto
<1>7. Entries(t)' = Entries(t) \cup {new(n)}
  BY <1>1, <1>2, <1>3, NullIsNoBlock DEF TypeOK, TrackFresh, Track, Entries, Tracked
<1>8. OwnBlocks(t)' = OwnBlocks(t) \cup {n}
  <2>1. BlocksOf(Entries(t)') = BlocksOf(Entries(t)) \cup {n, fresh[t]}
    <3>1. new(n).node = n /\ new(n).pointer = fresh[t]
      OBVIOUS
    <3> HIDE DEF new
    <3>2. BlocksOf(Entries(t) \cup {new(n)})
            = BlocksOf(Entries(t)) \cup {new(n).node, new(n).pointer}
      BY EntryJoins
    <3> QED
      BY <1>7, <3>1, <3>2
  <2>2. Locals(t) = Locals(t)' \cup {fresh[t]} /\ fresh[t] \in Locals(t)
    BY <1>3, <1>6 DEF Locals, TrackFresh
  <2> QED
    BY <2>1, <2>2, OwnIsBlocksOf
<1>9. n \notin OwnBlocks(t) /\ n # NULL /\ binary[t] = NULL
  BY <1>2, NullIsNoBlock DEF Free, TrackFresh, Stage
<1>10. PlacedOnce(t)'
  <2>1. pc'[t] = "run" /\ PlacedOnce(t) /\ binary'[t] = NULL
    BY <1>2, <1>9 DEF Inv, FreedOnce, TrackFresh, Goto, TypeOK
  <2>2. /\ n # error[t] /\ n # diagnostic[t] /\ n # fresh[t]
        /\ \A a \in Entries(t) : n # a.node /\ n # a.pointer
    BY <1>9, OwnIs
  <2>3. /\ fresh[t] # error[t] /\ fresh[t] # diagnostic[t]
        /\ \A a \in Entries(t) : fresh[t] # a.node /\ fresh[t] # a.pointer
    BY <1>2, <1>3, <2>1 DEF PlacedOnce, Stage, TrackFresh, Inside
  <2>4. error'[t] = error[t] /\ diagnostic'[t] = diagnostic[t]
    BY DEF TrackFresh
  <2>5. \A a \in Entries(t) : a.node # NULL /\ a.pointer # NULL
    BY <1>2, EntriesAreEntries, NullIsNoBlock DEF Entry, Inv
  <2> HIDE DEF new
  <2>6. new(n).node = n /\ new(n).pointer = fresh[t]
    BY DEF new
  <2> QED
    BY <1>3, <1>6, <1>7, <1>9, <2>1, <2>2, <2>3, <2>4, <2>5, <2>6 DEF PlacedOnce
<1> QED
  BY <1>1, <1>2, <1>4, <1>5, <1>6, <1>8, <1>10 DEF Exchanges, TrackFresh

LEMMA TrackFailsExchanges ==
  ASSUME Inv, NEW t \in Threads, TrackFails(t)
  PROVE  TypeOK' /\ Exchanges(t, OwnBlocks(t) \ {fresh[t]})
<1>2. TypeOK /\ Stage(t) /\ OwnBlocks(t) \subseteq heap /\ PlacedOnce(t)
  BY OwnInHeap DEF Inv, Stages, FreedOnce
<1>3. TypeOK'
  BY <1>2 DEF TypeOK, TrackFails, UntrackedFreed, Fail, Goto, Codes
<1>4. OnlyOf(t)
  BY <1>2 DEF OnlyOf, TypeOK, TrackFails, Fail, Goto
<1>5. Stage(t)' /\ fresh'[t] = NULL /\ fresh[t] # NULL /\ binary[t] = NULL
  BY <1>2 DEF Stage, Inside, TypeOK, TrackFails, Fail, Goto
<1>6. Entries(t)' = Entries(t)
  BY DEF TrackFails, Entries, Tracked
<1>7. fresh[t] \notin BlocksOf(Entries(t))
  BY <1>2 DEF PlacedOnce, BlocksOf
<1>8. fresh[t] \in Locals(t) /\ Locals(t)' = Locals(t) \ {fresh[t]}
  BY <1>2, <1>5 DEF Locals, TrackFails, PlacedOnce, Stage, Inside
<1>9. OwnBlocks(t)' = OwnBlocks(t) \ {fresh[t]} /\ fresh[t] \in OwnBlocks(t)
  BY <1>6, <1>7, <1>8, OwnIsBlocksOf
<1>10. \A a \in Entries(t) : a.node # NULL /\ a.pointer # NULL
  BY <1>2, EntriesAreEntries, NullIsNoBlock DEF Entry, Inv
<1>11. PlacedOnce(t)'
  BY <1>2, <1>5, <1>6, <1>10 DEF PlacedOnce, TrackFails, Stage, Inside
<1>12. heap' = (heap \ OwnBlocks(t)) \cup (OwnBlocks(t) \ {fresh[t]}) /\ kept' = kept
  BY <1>2, <1>9 DEF TrackFails, UntrackedFreed
<1> QED
  BY <1>3, <1>4, <1>5, <1>9, <1>11, <1>12 DEF Exchanges

(* A step that only changes the list of the thread, to this one.           *)
LEMMA ListChanges ==
  ASSUME Inv, NEW t \in Threads, pc[t] \in Inside, NEW list \in SUBSET Entry,
         Track(t, list), UNCHANGED <<locals, context, returned, kept>>
  PROVE  /\ OnlyOf(t) <=> \A u \in Threads \ {t} : pc'[u] = pc[u]
         /\ Entries(t)' = list /\ Entries(t) = Tracked(t)
         /\ OwnBlocks(t)' = Locals(t) \cup BlocksOf(list)
         /\ allocations' \in [Blocks -> SUBSET Entry]
<1>1. TypeOK /\ context[t] \in Blocks /\ context[t] = error[t]
  BY DEF Inv, Stages, Stage, TypeOK
<1>2. /\ OnlyOf(t) <=> \A u \in Threads \ {t} : pc'[u] = pc[u]
      /\ allocations' \in [Blocks -> SUBSET Entry]
  BY <1>1 DEF OnlyOf, Track, TypeOK, locals
<1>3. Entries(t)' = list /\ Entries(t) = Tracked(t)
  BY <1>1, NullIsNoBlock DEF Entries, Tracked, Track, TypeOK
<1>4. Locals(t)' = Locals(t)
  BY DEF Locals, locals
<1> QED
  BY <1>2, <1>3, <1>4, OwnIsBlocksOf

LEMMA EntriesDistinct ==
  ASSUME Inv, NEW t \in Threads
  PROVE  Distinct(Entries(t))
BY DEF Inv, FreedOnce, PlacedOnce, Distinct

LEMMA FreeExchanges ==
  ASSUME Inv, NEW t \in Threads, AsmFree(t) \/ Release(t)
  PROVE  TypeOK' /\ \E a \in Entries(t) :
           Exchanges(t, OwnBlocks(t) \ {a.node, a.pointer})
<1>1. PICK a \in Tracked(t) :
        heap' = heap \ {a.node, a.pointer} /\ Track(t, Tracked(t) \ {a})
  BY DEF AsmFree, Release
<1>2. /\ TypeOK /\ Stage(t) /\ OwnBlocks(t) \subseteq heap /\ PlacedOnce(t)
      /\ pc[t] \in {"run", "release"} /\ pc[t] \in Inside
      /\ Entries(t) = Tracked(t) /\ Entries(t) \in SUBSET Entry
      /\ UNCHANGED <<pc, locals, context, returned, kept>>
  BY OwnInHeap, EntriesAreEntries DEF Inv, Stages, FreedOnce, AsmFree, Release, Inside
<1>3. /\ OnlyOf(t) /\ Entries(t)' = Entries(t) \ {a}
      /\ OwnBlocks(t)' = Locals(t) \cup BlocksOf(Entries(t) \ {a})
      /\ allocations' \in [Blocks -> SUBSET Entry]
  BY <1>1, <1>2, ListChanges
<1>4. TypeOK' /\ Stage(t)'
  BY <1>1, <1>2, <1>3 DEF TypeOK, Stage, locals
<1>5. BlocksOf(Entries(t) \ {a}) = BlocksOf(Entries(t)) \ {a.node, a.pointer}
  BY <1>1, <1>2, EntriesDistinct, EntryLeaves
<1>6. {a.node, a.pointer} \cap Locals(t) = {}
  BY <1>1, <1>2 DEF PlacedOnce, Locals, Stage, Inside
<1>7. OwnBlocks(t)' = OwnBlocks(t) \ {a.node, a.pointer}
  BY <1>3, <1>5, <1>6, OwnIsBlocksOf
<1>8. {a.node, a.pointer} \subseteq OwnBlocks(t)
  BY <1>1, <1>2, OwnIsBlocksOf DEF BlocksOf
<1>9. PlacedOnce(t)'
  BY <1>2, <1>3 DEF PlacedOnce, locals
<1>10. heap' = (heap \ OwnBlocks(t)) \cup (OwnBlocks(t) \ {a.node, a.pointer})
  BY <1>1, <1>2, <1>8
<1> QED
  BY <1>1, <1>2, <1>3, <1>4, <1>7, <1>9, <1>10 DEF Exchanges

LEMMA ReallocExchanges ==
  ASSUME Inv, NEW t \in Threads, Realloc(t)
  PROVE  TypeOK' /\ \E S : Exchanges(t, S)
<1>0. PICK a \in Tracked(t) : \E p \in Free \cup {a.pointer} :
        /\ heap' = (heap \ {a.pointer}) \cup {p}
        /\ Track(t, (Tracked(t) \ {a}) \cup {Moved(a, p)})
  BY DEF Realloc
<1>1. PICK p \in Free \cup {a.pointer} :
        /\ heap' = (heap \ {a.pointer}) \cup {p}
        /\ Track(t, (Tracked(t) \ {a}) \cup {Moved(a, p)})
  BY <1>0
<1>2. /\ TypeOK /\ Stage(t) /\ OwnBlocks(t) \subseteq heap /\ PlacedOnce(t)
      /\ pc[t] = "run" /\ pc[t] \in Inside
      /\ Entries(t) = Tracked(t) /\ Entries(t) \in SUBSET Entry
      /\ UNCHANGED <<pc, locals, context, returned, kept>>
  BY OwnInHeap, EntriesAreEntries DEF Inv, Stages, FreedOnce, Realloc, Inside
<1> DEFINE e == Moved(a, p)
           list == (Entries(t) \ {a}) \cup {e}
           S == (OwnBlocks(t) \ {a.pointer}) \cup {p}
<1>3. a \in Entry /\ p \in Blocks /\ e \in Entry /\ e.node = a.node /\ e.pointer = p
  BY <1>1, <1>2 DEF Entry, Moved, Free
<1>4. list \in SUBSET Entry
  BY <1>2, <1>3
<1>5. /\ OnlyOf(t) /\ Entries(t)' = list
      /\ OwnBlocks(t)' = Locals(t) \cup BlocksOf(list)
      /\ allocations' \in [Blocks -> SUBSET Entry]
  <2> HIDE DEF e
  <2>1. Track(t, list)
    BY <1>1, <1>2 DEF e
  <2> HIDE DEF list
  <2> QED
    BY <1>2, <1>4, <2>1, ListChanges
<1>6. TypeOK' /\ Stage(t)'
  BY <1>1, <1>2, <1>3, <1>5 DEF TypeOK, Stage, locals
<1> HIDE DEF e
<1>7. BlocksOf(list) = (BlocksOf(Entries(t)) \ {a.node, a.pointer}) \cup {a.node, p}
  <2>1. BlocksOf(Entries(t) \ {a}) = BlocksOf(Entries(t)) \ {a.node, a.pointer}
    BY <1>0, <1>2, EntriesDistinct, EntryLeaves
  <2>2. BlocksOf(list) = BlocksOf(Entries(t) \ {a}) \cup {e.node, e.pointer}
    BY EntryJoins
  <2> QED
    BY <1>3, <2>1, <2>2
<1>8. /\ a.node \in BlocksOf(Entries(t)) /\ a.pointer \in BlocksOf(Entries(t))
      /\ a.node # a.pointer
  BY <1>1, <1>2 DEF BlocksOf, PlacedOnce
<1>9. {a.node, a.pointer} \cap Locals(t) = {}
  BY <1>1, <1>2 DEF PlacedOnce, Locals, Stage, Inside
<1>10. OwnBlocks(t)' = S /\ a.pointer \in OwnBlocks(t)
  BY <1>5, <1>7, <1>8, <1>9, OwnIsBlocksOf
<1>11. S \in SUBSET (Free \cup OwnBlocks(t)) /\ heap' = (heap \ OwnBlocks(t)) \cup S
  BY <1>1, <1>2, <1>10 DEF Free
<1>12. PlacedOnce(t)'
  <2>1. p = a.pointer \/ p \notin OwnBlocks(t)
    BY <1>2 DEF Free
  <2>2. /\ p # error[t] /\ p # diagnostic[t] /\ p # fresh[t] /\ p # a.node
        /\ \A b \in Entries(t) \ {a} : p # b.node /\ p # b.pointer
    <3>1. CASE p = a.pointer
      BY <1>1, <1>2, <1>8, <3>1 DEF PlacedOnce
    <3>2. CASE p \notin OwnBlocks(t)
      BY <1>1, <1>2, <1>3, <3>2, OwnIs, NullIsNoBlock DEF TypeOK
    <3> QED
      BY <2>1, <3>1, <3>2
  <2> QED
    BY <1>1, <1>2, <1>3, <1>5, <2>2 DEF PlacedOnce, locals
<1> QED
  BY <1>2, <1>5, <1>6, <1>10, <1>11, <1>12 DEF Exchanges

LEMMA TranslateRawExchanges ==
  ASSUME Inv, NEW t \in Threads, TranslateRaw(t)
  PROVE  TypeOK' /\ Exchanges(t, OwnBlocks(t))
<1>1. PICK a \in Tracked(t) : binary' = [binary EXCEPT ![t] = a.pointer]
  BY DEF TranslateRaw
<1>2. /\ TypeOK /\ Stage(t) /\ OwnBlocks(t) \subseteq heap /\ PlacedOnce(t)
      /\ Entries(t) = Tracked(t) /\ Entries(t) \in SUBSET Entry
  BY OwnInHeap, EntriesAreEntries DEF Inv, Stages, FreedOnce, TranslateRaw, Inside
<1>3. a.pointer \in Blocks /\ a.pointer # NULL /\ a \in Entries(t)
  BY <1>1, <1>2, NullIsNoBlock DEF Entry
<1>4. TypeOK'
  BY <1>1, <1>2, <1>3 DEF TypeOK, TranslateRaw, Goto
<1>5. OnlyOf(t)
  BY <1>1, <1>2 DEF OnlyOf, TypeOK, TranslateRaw, Goto
<1>6. Stage(t)' /\ binary'[t] = a.pointer /\ pc'[t] = "detach"
  BY <1>1, <1>2, <1>3 DEF Stage, Inside, TypeOK, TranslateRaw, Goto
<1>7. Entries(t)' = Entries(t)
  BY DEF TranslateRaw, Entries, Tracked
<1>8. OwnBlocks(t)' = OwnBlocks(t)
  <2>1. a.pointer \in BlocksOf(Entries(t)) /\ binary[t] = NULL
    BY <1>2, <1>3 DEF BlocksOf, Stage, TranslateRaw
  <2>2. Locals(t)' = Locals(t) \cup {a.pointer}
    BY <1>3, <1>6, <2>1 DEF Locals, TranslateRaw
  <2> QED
    BY <1>7, <2>1, <2>2, OwnIsBlocksOf
<1>9. PlacedOnce(t)'
  BY <1>2, <1>3, <1>6, <1>7 DEF PlacedOnce, TranslateRaw
<1> QED
  BY <1>2, <1>4, <1>5, <1>6, <1>8, <1>9 DEF Exchanges, TranslateRaw

LEMMA TranslateObjectExchanges ==
  ASSUME Inv, NEW t \in Threads, TranslateObject(t)
  PROVE  TypeOK' /\ Exchanges(t, OwnBlocks(t) \cup {binary'[t]})
<1>1. PICK p \in Free : heap' = heap \cup {p} /\ binary' = [binary EXCEPT ![t] = p]
  BY DEF TranslateObject
<1>2. TypeOK /\ Stage(t) /\ OwnBlocks(t) \subseteq heap /\ PlacedOnce(t)
  BY OwnInHeap DEF Inv, Stages, FreedOnce
<1>3. TypeOK'
  BY <1>1, <1>2 DEF TypeOK, TranslateObject, Goto, Free
<1>4. OnlyOf(t)
  BY <1>1, <1>2 DEF OnlyOf, TypeOK, TranslateObject, Goto
<1>5. /\ Stage(t)' /\ binary'[t] = p /\ binary[t] = NULL /\ fresh'[t] = NULL
      /\ p # NULL /\ pc'[t] = "detach"
  BY <1>1, <1>2, NullIsNoBlock DEF Stage, Inside, TypeOK, TranslateObject, Goto, Free
<1>6. Entries(t)' = Entries(t)
  BY DEF TranslateObject, Entries, Tracked
<1>7. OwnBlocks(t)' = OwnBlocks(t) \cup {p}
  BY <1>5, <1>6, OwnIs, OwnIsAfter DEF TranslateObject
<1>8. /\ p # error[t] /\ p # diagnostic[t]
      /\ \A a \in Entries(t) : p # a.node /\ p # a.pointer
  BY <1>2, <1>5, OwnIs DEF Free
<1>9. PlacedOnce(t)'
  BY <1>2, <1>5, <1>6, <1>8 DEF PlacedOnce, TranslateObject
<1> QED
  BY <1>1, <1>2, <1>3, <1>4, <1>5, <1>7, <1>9 DEF Exchanges, TranslateObject

LEMMA DetachExchanges ==
  ASSUME Inv, NEW t \in Threads, Detach(t)
  PROVE  TypeOK' /\ Exchanges(t, OwnBlocks(t) \ {a.node : a \in EntryOf(t, binary[t])})
<1> DEFINE gone == EntryOf(t, binary[t])
           nodes == {a.node : a \in gone}
<1>1. /\ TypeOK /\ Stage(t) /\ OwnBlocks(t) \subseteq heap /\ PlacedOnce(t)
      /\ pc[t] = "detach" /\ pc[t] \in Inside
      /\ Entries(t) = Tracked(t) /\ Entries(t) \in SUBSET Entry
      /\ gone \subseteq Entries(t)
      /\ UNCHANGED <<locals, context, returned, kept>>
  BY OwnInHeap, EntriesAreEntries
     DEF Inv, Stages, FreedOnce, Detach, Inside, EntryOf
<1>2. /\ \A u \in Threads \ {t} : pc'[u] = pc[u]
      /\ pc'[t] = "release" /\ binary[t] # NULL
      /\ heap' = heap \ nodes /\ Track(t, Entries(t) \ gone)
      /\ pc' \in [Threads -> {"idle", "diagnostic", "checks", "run", "track",
                             "detach", "release"}]
  BY <1>1 DEF Detach, Goto, TypeOK, Stage
<1>3. /\ OnlyOf(t) /\ Entries(t)' = Entries(t) \ gone
      /\ OwnBlocks(t)' = Locals(t) \cup BlocksOf(Entries(t) \ gone)
      /\ allocations' \in [Blocks -> SUBSET Entry]
  <2> HIDE DEF gone
  <2>1. Entries(t) \ gone \in SUBSET Entry
    BY <1>1
  <2> QED
    BY <1>1, <1>2, <2>1, ListChanges
<1>4. TypeOK'
  <2>1. heap' \in SUBSET Blocks
    BY <1>1, <1>2 DEF TypeOK
  <2> QED
    BY <1>1, <1>2, <1>3, <2>1 DEF TypeOK, locals
<1>5. Stage(t)'
  BY <1>1, <1>2 DEF Stage, Inside, locals
<1>6. Distinct(Entries(t)) /\ binary[t] \in Locals(t)
  BY <1>2, EntriesDistinct DEF Locals
<1>7. \A a \in Entries(t) : a \in gone <=> a.pointer = binary[t]
  BY <1>1 DEF EntryOf
<1>8. OwnBlocks(t)' = OwnBlocks(t) \ nodes
  <2>1. \A b : b \in BlocksOf(Entries(t)) <=> \E a \in Entries(t) : b = a.node \/ b = a.pointer
    BY DEF BlocksOf
  <2>2. \A b : b \in BlocksOf(Entries(t) \ gone) <=>
                \E a \in Entries(t) \ gone : b = a.node \/ b = a.pointer
    BY DEF BlocksOf
  <2>3. \A b : b \in nodes <=> \E a \in gone : b = a.node
    OBVIOUS
  <2>4. nodes \cap Locals(t) = {}
    BY <1>1 DEF PlacedOnce, Locals, Stage, Inside
  <2> HIDE DEF nodes, gone
  <2>5. \A b : b \in BlocksOf(Entries(t) \ gone) => b \notin nodes
    BY <1>1, <1>6, <2>2, <2>3 DEF Distinct
  <2>6. \A b : b \in BlocksOf(Entries(t)) =>
           b \in BlocksOf(Entries(t) \ gone) \/ b \in nodes \/ b = binary[t]
    BY <1>7, <2>1, <2>2, <2>3
  <2>7. \A b : b \in BlocksOf(Entries(t) \ gone) => b \in BlocksOf(Entries(t))
    BY <2>1, <2>2
  <2> QED
    BY <1>3, <1>6, <2>4, <2>5, <2>6, <2>7, OwnIsBlocksOf
<1>9. PlacedOnce(t)'
  <2> HIDE DEF gone
  <2> QED
    BY <1>1, <1>2, <1>3, <1>7 DEF PlacedOnce, locals
<1>10. nodes \subseteq OwnBlocks(t)
  BY <1>1, OwnIs
<1>11. heap' = (heap \ OwnBlocks(t)) \cup (OwnBlocks(t) \ nodes)
  <2> HIDE DEF nodes
  <2> QED
    BY <1>1, <1>2, <1>10
<1> QED
  BY <1>1, <1>3, <1>4, <1>5, <1>8, <1>9, <1>11 DEF Exchanges

-----------------------------------------------------------------------------
(* Seen from outside: what the step does to the state of Arena.            *)
active == {t \in Threads : pc[t] # "idle"}
owned  == [t \in Threads |-> OwnBlocks(t)]

LEMMA OwnedAfter ==
  ASSUME Inv, NEW t \in Threads, OnlyOf(t)
  PROVE  owned' = [owned EXCEPT ![t] = OwnBlocks(t)']
<1> DEFINE New(u) == IF u = t THEN OwnBlocks(t)' ELSE OwnBlocks(u)
<1>1. \A u \in Threads : OwnBlocks(u)' = New(u)
  BY OthersKeep
<1>2. owned' = [u \in Threads |-> New(u)]
  <2> HIDE DEF New
  <2> QED
    BY <1>1 DEF owned
<1> QED
  BY <1>2 DEF owned

LEMMA ActiveAfter ==
  ASSUME NEW t \in Threads, OnlyOf(t)
  PROVE  active' = IF pc'[t] = "idle" THEN active \ {t} ELSE active \cup {t}
BY DEF OnlyOf, active

(* A call that returns hands K over and frees the rest.                    *)
LEMMA ReturnKeeps ==
  ASSUME Inv, NEW t \in Threads, OnlyOf(t), OwnBlocks(t)' = {},
         NEW K \in SUBSET OwnBlocks(t), kept' = kept \cup K,
         heap' = heap \ (OwnBlocks(t) \ K)
  PROVE  NothingLeaks' /\ Apart'
<1> DEFINE Own(u) == OwnBlocks(u)
           New(u) == IF u = t THEN {} ELSE OwnBlocks(u)
<1>1. \A u \in Threads : OwnBlocks(u)' = New(u)
  BY OthersKeep
<1>2. \A b : b \in heap <=> b \in kept \/ \E u \in Threads : b \in Own(u)
  BY DEF Inv, NothingLeaks
<1>3. /\ \A u \in Threads : Own(u) \cap kept = {}
      /\ \A u, v \in Threads : u # v => Own(u) \cap Own(v) = {}
  BY DEF Inv, FreedOnce, Apart
<1>4. New(t) = {} /\ Own(t) = OwnBlocks(t) /\ \A u \in Threads : u # t => New(u) = Own(u)
  OBVIOUS
<1>5. NothingLeaks'
  <2> HIDE DEF Own, New
  <2>1. \A b : b \in heap' <=> b \in kept' \/ \E u \in Threads : b \in New(u)
    BY <1>2, <1>3, <1>4
  <2>2. heap' = kept' \cup UNION {New(u) : u \in Threads}
    BY <2>1
  <2>3. (UNION {OwnBlocks(u) : u \in Threads})' = UNION {New(u) : u \in Threads}
    BY <1>1
  <2> QED
    BY <2>2, <2>3 DEF NothingLeaks
<1>6. Apart'
  <2> HIDE DEF Own, New
  <2>1. /\ \A u \in Threads : New(u) \cap kept' = {}
        /\ \A u, v \in Threads : u # v => New(u) \cap New(v) = {}
    BY <1>3, <1>4
  <2> QED
    BY <2>1, <1>1 DEF Apart
<1> QED
  BY <1>5, <1>6

LEMMA EndReturns ==
  ASSUME Inv, NEW t \in Threads, End(t)
  PROVE  Inv' /\ Contract!Return(t)
<1> DEFINE K == {binary[t]} \ {NULL}
<1>1. /\ TypeOK /\ Stage(t) /\ PlacedOnce(t) /\ pc[t] = "release" /\ pc[t] \in Inside
      /\ Entries(t) = {} /\ kept' = kept \cup K /\ heap' = heap \ {error[t], diagnostic[t]}
  BY EntriesAreEntries DEF Inv, Stages, FreedOnce, End, Return, Inside
<1>2. TypeOK'
  BY <1>1 DEF TypeOK, End, Return, Goto, Results
<1>3. OnlyOf(t)
  BY <1>1 DEF OnlyOf, TypeOK, End, Return, Goto
<1>4. /\ Stage(t)' /\ pc'[t] = "idle" /\ context'[t] = NULL /\ error'[t] = NULL
      /\ diagnostic'[t] = NULL /\ fresh'[t] = NULL /\ binary'[t] = NULL
  BY <1>1 DEF Stage, Inside, TypeOK, End, Return, Goto
<1>5. Entries(t)' = {}
  BY <1>4 DEF Entries
<1>6. OwnBlocks(t)' = {} /\ PlacedOnce(t)'
  BY <1>4, <1>5, OwnIsAfter DEF PlacedOnce
<1>7. OwnBlocks(t) = {error[t], diagnostic[t], binary[t]} \ {NULL}
  BY <1>1, OwnIs DEF Stage
<1>8. K \in SUBSET OwnBlocks(t) /\ heap' = heap \ (OwnBlocks(t) \ K)
  <2>1. error[t] # NULL /\ diagnostic[t] # NULL
    BY <1>1 DEF Stage
  <2>2. error[t] # binary[t] /\ diagnostic[t] # binary[t]
    BY <1>1, <2>1 DEF PlacedOnce
  <2> QED
    BY <1>1, <1>7, <2>1, <2>2
<1>9. NothingLeaks' /\ Apart'
  <2> HIDE DEF K
  <2> QED
    BY <1>1, <1>3, <1>6, <1>8, ReturnKeeps
<1>10. Stages' /\ FreedOnce'
  BY <1>3, <1>4, <1>6, <1>9, OthersKeep DEF Stages, FreedOnce
<1>11. AnswerIsClear'
  <2>1. code[t] = "NONE" <=> binary[t] # NULL
    BY <1>1 DEF Stage
  <2>2. returned' = [returned EXCEPT ![t] = [binary |-> binary[t], code |-> code[t]]]
    BY DEF End, Return
  <2> QED
    BY <1>1, <2>1, <2>2 DEF Inv, AnswerIsClear, TypeOK
<1>12. owned' = [owned EXCEPT ![t] = {}] /\ active' = active \ {t} /\ t \in active
  BY <1>1, <1>3, <1>4, <1>6, OwnedAfter, ActiveAfter DEF active
<1>13. kept' = kept \/ \E b \in owned[t] : kept' = kept \cup {b}
  BY <1>1, <1>7 DEF owned
<1> QED
  BY <1>2, <1>9, <1>10, <1>11, <1>12, <1>13 DEF Inv, Contract!Return, active, owned

LEMMA ReturnEarlyReturns ==
  ASSUME Inv, NEW t \in Threads, NoContext(t) \/ NullSource(t)
  PROVE  Inv' /\ Contract!Return(t)
<1>1. TypeOK' /\ AnswerIsClear' /\ Exchanges(t, {})
  BY ReturnEarlyExchanges
<1>2. pc[t] = "checks" /\ pc'[t] = "idle"
  BY DEF NoContext, NullSource, ReturnEarly, Return, Goto, Inv, TypeOK
<1>3. owned' = [owned EXCEPT ![t] = {}] /\ active' = active \ {t} /\ t \in active
  BY <1>1, <1>2, OwnedAfter, ActiveAfter DEF Exchanges, active
<1>4. Inv' /\ kept' = kept
  BY <1>1, ExchangeStep DEF Inv
<1> QED
  BY <1>3, <1>4 DEF Contract!Return, active, owned

(* The steps in a call that do not return from it.                         *)
Working(t) ==
  \/ AllocateDiagnostic(t) \/ Begin(t) \/ Malloc(t) \/ MallocFails(t) \/ TrackFresh(t)
  \/ TrackFails(t) \/ Realloc(t) \/ AsmFree(t) \/ Refuse(t) \/ TranslateRaw(t)
  \/ TranslateObject(t) \/ Detach(t) \/ Release(t)

LEMMA WorkingExchanges ==
  ASSUME Inv, NEW t \in Threads, Working(t)
  PROVE  TypeOK' /\ \E S : Exchanges(t, S)
<1>1. CASE AllocateDiagnostic(t)
  BY <1>1, AllocateDiagnosticExchanges
<1>2. CASE Begin(t)
  BY <1>2, BeginExchanges
<1>3. CASE Malloc(t)
  BY <1>3, MallocExchanges
<1>4. CASE MallocFails(t) \/ Refuse(t)
  BY <1>4, FailExchanges
<1>5. CASE TrackFresh(t)
  BY <1>5, TrackFreshExchanges
<1>6. CASE TrackFails(t)
  BY <1>6, TrackFailsExchanges
<1>7. CASE Realloc(t)
  BY <1>7, ReallocExchanges
<1>8. CASE AsmFree(t) \/ Release(t)
  BY <1>8, FreeExchanges
<1>9. CASE TranslateRaw(t)
  BY <1>9, TranslateRawExchanges
<1>10. CASE TranslateObject(t)
  BY <1>10, TranslateObjectExchanges
<1>11. CASE Detach(t)
  BY <1>11, DetachExchanges
<1> QED
  BY <1>1, <1>2, <1>3, <1>4, <1>5, <1>6, <1>7, <1>8, <1>9, <1>10, <1>11 DEF Working

LEMMA StaysInCall ==
  ASSUME Inv, NEW t \in Threads, Working(t)
  PROVE  pc[t] # "idle" /\ pc'[t] # "idle" /\ returned' = returned
<1>1. t \in DOMAIN pc
  BY DEF Inv, TypeOK
<1>2. CASE AllocateDiagnostic(t) \/ Begin(t) \/ Malloc(t) \/ TrackFresh(t)
           \/ TranslateRaw(t) \/ TranslateObject(t) \/ Detach(t)
  BY <1>1, <1>2 DEF AllocateDiagnostic, Begin, Malloc, TrackFresh, TranslateRaw,
                    TranslateObject, Detach, Goto
<1>3. CASE MallocFails(t) \/ Refuse(t) \/ TrackFails(t)
  BY <1>1, <1>3 DEF MallocFails, Refuse, TrackFails, Fail, Goto
<1>4. CASE Realloc(t) \/ AsmFree(t) \/ Release(t)
  BY <1>4 DEF Realloc, AsmFree, Release
<1> QED
  BY <1>2, <1>3, <1>4 DEF Working

LEMMA WorkingWorks ==
  ASSUME Inv, NEW t \in Threads, Working(t)
  PROVE  Inv' /\ Contract!Work(t)
<1>1. PICK S : Exchanges(t, S)
  BY WorkingExchanges
<1>2. Stages' /\ NothingLeaks' /\ FreedOnce' /\ Contract!Exchange(t) /\ kept' = kept
  BY <1>1, ExchangeStep
<1>3. TypeOK' /\ AnswerIsClear'
  BY WorkingExchanges, StaysInCall DEF Inv, AnswerIsClear
<1>4. t \in active /\ active' = active
  BY <1>1, StaysInCall, ActiveAfter DEF Exchanges, active
<1> QED
  BY <1>2, <1>3, <1>4 DEF Inv, Contract!Work, active

LEMMA CallCalls ==
  ASSUME Inv, NEW t \in Threads, Call(t)
  PROVE  Inv' /\ Contract!Call(t)
<1>1. TypeOK' /\ Exchanges(t, {error'[t]} \ {NULL})
  BY CallExchanges
<1>2. Stages' /\ NothingLeaks' /\ FreedOnce' /\ Contract!Exchange(t) /\ kept' = kept
  BY <1>1, ExchangeStep
<1>3. AnswerIsClear' /\ pc[t] = "idle" /\ pc'[t] # "idle"
  BY DEF Inv, AnswerIsClear, TypeOK, Call, Goto
<1>4. t \notin active /\ active' = active \cup {t}
  BY <1>1, <1>3, ActiveAfter DEF Exchanges, active
<1> QED
  BY <1>1, <1>2, <1>3, <1>4 DEF Inv, Contract!Call, active

(* The caller, outside of a call.                                          *)
LEMMA CallerSteps ==
  ASSUME Inv, NEW t \in Threads, CallerAllocates(t) \/ CallerFrees(t)
  PROVE  Inv' /\ (Contract!Take \/ Contract!Drop)
<1> DEFINE Own(u) == OwnBlocks(u)
<1>1. UNCHANGED <<pc, locals, context, allocations, returned>>
  BY DEF CallerAllocates, CallerFrees
<1>2. \A u \in Threads : OwnBlocks(u)' = Own(u) /\ Entries(u)' = Entries(u)
  BY <1>1 DEF OwnBlocks, Locals, Nodes, Pointers, Entries, Tracked, locals
<1>3. TypeOK' /\ Stages' /\ AnswerIsClear'
  <2>1. heap' \in SUBSET Blocks /\ kept' \in SUBSET Blocks
    BY DEF CallerAllocates, CallerFrees, Free, Inv, TypeOK
  <2> QED
    BY <1>1, <2>1 DEF Inv, TypeOK, Stages, Stage, AnswerIsClear, locals
<1>4. \A u \in Threads : PlacedOnce(u)'
  BY <1>1, <1>2 DEF Inv, FreedOnce, PlacedOnce, locals
<1>5. heap = kept \cup UNION {Own(u) : u \in Threads}
  BY DEF Inv, NothingLeaks
<1>6. /\ \A u \in Threads : Own(u) \cap kept = {}
      /\ \A u, v \in Threads : u # v => Own(u) \cap Own(v) = {}
  BY DEF Inv, FreedOnce, Apart
<1>7. /\ heap' = kept' \cup UNION {Own(u) : u \in Threads}
      /\ \A u \in Threads : Own(u) \cap kept' = {}
  <2> HIDE DEF Own
  <2>1. CASE CallerAllocates(t)
    BY <2>1, <1>5, <1>6 DEF CallerAllocates, Free
  <2>2. CASE CallerFrees(t)
    <3>1. PICK p \in kept : heap' = heap \ {p} /\ kept' = kept \ {p}
      BY <2>2 DEF CallerFrees
    <3>2. p \notin UNION {Own(u) : u \in Threads}
      BY <1>6
    <3> QED
      BY <3>1, <3>2, <1>5, <1>6
  <2> QED
    BY <2>1, <2>2
<1>8. NothingLeaks' /\ Apart'
  <2>1. (UNION {OwnBlocks(u) : u \in Threads})' = UNION {Own(u) : u \in Threads}
    <3> HIDE DEF Own
    <3> QED
      BY <1>2
  <2> HIDE DEF Own
  <2> QED
    BY <1>2, <1>6, <1>7, <2>1 DEF NothingLeaks, Apart
<1>9. owned' = owned /\ active' = active
  <2>1. owned' = [u \in Threads |-> Own(u)]
    <3> HIDE DEF Own
    <3> QED
      BY <1>2 DEF owned
  <2> QED
    BY <1>1, <2>1 DEF owned, active
<1>10. Contract!Taken = heap
  BY <1>5 DEF Contract!Taken
<1>11. Contract!Take \/ Contract!Drop
  <2>1. CASE CallerAllocates(t)
    BY <2>1, <1>9, <1>10 DEF CallerAllocates, Free, Contract!Take, owned, active
  <2>2. CASE CallerFrees(t)
    BY <2>2, <1>9 DEF CallerFrees, Contract!Drop, owned, active
  <2> QED
    BY <2>1, <2>2
<1> QED
  BY <1>3, <1>4, <1>8, <1>11 DEF Inv, FreedOnce

-----------------------------------------------------------------------------
LEMMA Initially ==
  ASSUME Init
  PROVE  Inv /\ Contract!Init
<1>1. \A t \in Threads : Entries(t) = {} /\ OwnBlocks(t) = {}
  BY DEF Init, OwnBlocks, Locals, Nodes, Pointers, Entries
<1>2. TypeOK /\ Stages /\ AnswerIsClear
  BY DEF Init, TypeOK, Stages, Stage, Inside, AnswerIsClear, Codes
<1>3. NothingLeaks /\ FreedOnce
  BY <1>1 DEF Init, NothingLeaks, FreedOnce, Apart, PlacedOnce
<1>4. Contract!Init
  BY <1>1 DEF Init, Contract!Init
<1> QED
  BY <1>2, <1>3, <1>4 DEF Inv

LEMMA EachStep ==
  ASSUME Inv, [Next]_vars
  PROVE  Inv' /\ [Contract!Next]_(Contract!vars)
<1>1. CASE Next
  <2>1. PICK t \in Threads : Step(t)
    BY <1>1 DEF Next
  <2>2. CASE Call(t)
    BY <2>2, CallCalls DEF Contract!Next
  <2>3. CASE Working(t)
    BY <2>3, WorkingWorks DEF Contract!Next
  <2>4. CASE NoContext(t) \/ NullSource(t)
    BY <2>4, ReturnEarlyReturns DEF Contract!Next
  <2>5. CASE End(t)
    BY <2>5, EndReturns DEF Contract!Next
  <2>6. CASE CallerAllocates(t) \/ CallerFrees(t)
    BY <2>6, CallerSteps DEF Contract!Next
  <2> QED
    BY <2>1, <2>2, <2>3, <2>4, <2>5, <2>6 DEF Step, Working
<1>2. CASE UNCHANGED vars
  <2>1. UNCHANGED <<heap, pc, error, diagnostic, fresh, binary, code, context,
                    allocations, returned, kept>>
    BY <1>2 DEF vars, locals
  <2>2. \A t \in Threads : OwnBlocks(t)' = OwnBlocks(t) /\ Entries(t)' = Entries(t)
    BY <2>1 DEF OwnBlocks, Locals, Nodes, Pointers, Entries, Tracked
  <2>3. TypeOK' /\ Stages' /\ AnswerIsClear'
    BY <2>1 DEF Inv, TypeOK, Stages, Stage, AnswerIsClear
  <2>4. NothingLeaks' /\ FreedOnce'
    BY <2>1, <2>2 DEF Inv, NothingLeaks, FreedOnce, Apart, PlacedOnce
  <2>5. UNCHANGED Contract!vars
    BY <2>1, <2>2 DEF Contract!vars
  <2> QED
    BY <2>3, <2>4, <2>5 DEF Inv
<1> QED
  BY <1>1, <1>2

LEMMA InvAlways == Spec => []Inv
<1>1. Init => Inv
  BY Initially
<1>2. Inv /\ [Next]_vars => Inv'
  BY EachStep
<1> QED
  BY <1>1, <1>2, PTL DEF Spec

(* Pointers and lists are what they should be, whatever the threads do.    *)
(* Code: AsmErrorContext and AsmAllocation.                                *)
THEOREM MemoryTypes == Spec => []TypeOK
<1>1. Inv => TypeOK
  BY DEF Inv
<1> QED
  BY <1>1, InvAlways, PTL

(* No call leaves a block behind, whichever operation of it failed.        *)
(* Code: track, asm_realloc, asm_memory_release_all, assemble_source.      *)
THEOREM NeverLeaks == Spec => []NothingLeaks
<1>1. Inv => NothingLeaks
  BY DEF Inv
<1> QED
  BY <1>1, InvAlways, PTL

(* No block has two owners, in one thread or in two.                       *)
(* Code: asm_free and asm_memory_detach against asm_memory_release_all.    *)
THEOREM NeverFreedTwice == Spec => []FreedOnce
<1>1. Inv => FreedOnce
  BY DEF Inv
<1> QED
  BY <1>1, InvAlways, PTL

(* Every allocated block has one owner, whatever fails in which thread.    *)
(* Code: the list of Memory.c, and assemble_source.                        *)
THEOREM OneOwnerAlways == Spec => []OneOwner
BY NeverLeaks, NeverFreedTwice, PTL DEF OneOwner

(* A result has a binary or a diagnostic code, and not both.               *)
(* Code: the returns of assemble_source.                                   *)
THEOREM AnswersAreClear == Spec => []AnswerIsClear
<1>1. Inv => AnswerIsClear
  BY DEF Inv
<1> QED
  BY <1>1, InvAlways, PTL

(* The assembler's memory keeps the contract of Arena.                     *)
(* Code: all of Memory.c and assemble_source.                              *)
THEOREM ImplementsArena == Spec => IsArena
<1>1. Init => Contract!Init
  BY Initially
<1>2. Inv /\ [Next]_vars => [Contract!Next]_(Contract!vars)
  BY EachStep
<1> QED
  BY <1>1, <1>2, InvAlways, PTL DEF Spec, IsArena, Contract!Spec
=============================================================================
