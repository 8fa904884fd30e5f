------------------------------ MODULE MemAlloc ------------------------------
(***************************************************************************)
(* The front end's memory package in its non-debug build                  *)
(* (src/dmd/tk/mem.c with MEM_DEBUG and MEM_NONE off): counted            *)
(* mem_malloc/calloc/realloc/free/strdup over the C heap, the             *)
(* out-of-memory policy of mem_setexception/mem_exception, mem_init and   *)
(* mem_term's leak check, and the never-freed bump allocator mem_fmalloc  *)
(* with its wrappers.                                                     *)
(*                                                                         *)
(* The C heap is a set of block ids with sizes; malloc may fail at any    *)
(* call (memory is exhausted) or when every id is in use.  A pointer is   *)
(* [blk, off]: a block id (0 for NULL) and a byte offset into it, so that *)
(* pointer arithmetic on a NULL heap is visible.  size_t is Width bits.   *)
(* One client, the compiler, calls the package sequentially; each call   *)
(* is one step, its retry loop included.  `held` is what the client owns *)
(* (pointers returned and not yet given back).                            *)
(***************************************************************************)
EXTENDS Integers, FiniteSets, MemException

CONSTANTS
  Width,      \* bits of size_t
  BlockIds,   \* ids the C heap can hand out
  Sizes,      \* request sizes the client passes
  MaxInits,   \* bound on nested mem_init calls
  MaxHeld     \* bound on the pointers the client holds at once

ASSUME 0 \notin BlockIds

SizeMax == 2 ^ Width
NULL == [blk |-> 0, off |-> 0]

VARIABLES
  mem_inited, mem_count,
  heap, heapleft,     \* mem_fmalloc's current arena pointer and room left
  blocks,             \* C heap: id -> size, for the ids malloc handed out
  held,               \* client's pointers: [ptr, n, via \in {"mem", "f"}]
  status              \* "running", "exited" (exit(EXIT_FAILURE)), "assert"

vars == <<mem_inited, mem_count, mem_behavior, heap, heapleft, blocks, held, status>>

Live == DOMAIN blocks
Counted == {h \in held : h.via = "mem"}

TypeOK ==
  /\ mem_inited \in 0 .. MaxInits
  /\ mem_count \in Int
  /\ mem_behavior \in MEM_ABORTMSG .. MEM_RETRY
  /\ heap \in [blk : BlockIds \cup {0}, off : Nat]
  /\ heapleft \in 0 .. SizeMax - 1
  /\ Live \subseteq BlockIds /\ \A b \in Live : blocks[b] \in Nat
  /\ held \subseteq [ptr : [blk : BlockIds \cup {0}, off : Nat], n : Nat, via : {"mem", "f"}]
  /\ NULL \notin {h.ptr : h \in held}
  /\ status \in {"running", "exited", "assert"}

-----------------------------------------------------------------------------
(* The ends of mem_malloc's and mem_fmalloc's malloc loops. *)
MallocResults == RetryLoopResults(Live # BlockIds)

(* malloc's new block: some free id of size n. *)
NewBlock(n, b) ==
  /\ b \in BlockIds \ Live
  /\ blocks' = [x \in Live \cup {b} |-> IF x = b THEN n ELSE blocks[x]]

Exit == status' = "exited"
Fail == status' = "assert"

Running == status = "running"

(* The client may take another pointer. *)
Room == Cardinality(held) < MaxHeld

(* mem_malloc(numbytes), and mem_calloc, which differs only in clearing:  *)
(* 0 bytes gives NULL; otherwise the retry loop, counting a success.     *)
MallocCounted(n) ==
  IF n = 0 THEN UNCHANGED vars
  ELSE \E r \in MallocResults :
    CASE r = "ok" ->
           \E b \in BlockIds :
             /\ NewBlock(n, b)
             /\ mem_count' = mem_count + 1
             /\ held' = held \cup {[ptr |-> [blk |-> b, off |-> 0], n |-> n, via |-> "mem"]}
             /\ UNCHANGED <<mem_inited, mem_behavior, heap, heapleft, status>>
      [] r = "null" -> UNCHANGED vars
      [] r = "exit" -> Exit /\ UNCHANGED <<mem_inited, mem_count, mem_behavior, heap,
                                          heapleft, blocks, held>>

(* mem_free(ptr): NULL is ignored; otherwise assert(mem_count != 0),     *)
(* count down and free.                                                  *)
FreeCounted(h) ==
  IF mem_count = 0
  THEN Fail /\ UNCHANGED <<mem_inited, mem_count, mem_behavior, heap, heapleft, blocks, held>>
  ELSE /\ mem_count' = mem_count - 1
       /\ blocks' = [x \in Live \ {h.ptr.blk} |-> blocks[x]]
       /\ held' = held \ {h}
       /\ UNCHANGED <<mem_inited, mem_behavior, heap, heapleft, status>>

(* Mutant: the 0-byte path releases the block with free() instead of    *)
(* mem_free(), so mem_count is not decremented.                          *)
ReallocCountedLibcFree(h, n) ==
  IF n = 0
  THEN /\ blocks' = [x \in Live \ {h.ptr.blk} |-> blocks[x]]
       /\ held' = held \ {h}
       /\ UNCHANGED <<mem_inited, mem_count, mem_behavior, heap, heapleft, status>>
  ELSE UNCHANGED vars

(* mem_realloc(oldmem_ptr, newnumbytes) on a pointer the client holds:   *)
(* 0 bytes frees it; otherwise realloc's retry loop, which resizes in     *)
(* place or moves the block, leaves it alone on NULL, or exits.           *)
ReallocCounted(h, n) ==
  IF n = 0 THEN FreeCounted(h)
  ELSE \E r \in RetryLoopResults(TRUE) :
    CASE r = "ok" ->
           \E b \in {h.ptr.blk} \cup (BlockIds \ Live) :
             /\ blocks' = [x \in (Live \ {h.ptr.blk}) \cup {b} |->
                             IF x = b THEN n ELSE blocks[x]]
             /\ held' = (held \ {h}) \cup {[ptr |-> [blk |-> b, off |-> 0], n |-> n, via |-> "mem"]}
             /\ UNCHANGED <<mem_inited, mem_count, mem_behavior, heap, heapleft, status>>
      [] r = "null" -> UNCHANGED vars
      [] r = "exit" -> Exit /\ UNCHANGED <<mem_inited, mem_count, mem_behavior, heap,
                                          heapleft, blocks, held>>

(* Mutant: the alignment rounds down, (numbytes + 0xF) dropped to        *)
(* numbytes & ~0xF.                                                     *)
Align16Down(n) == n - (n % 16)

(* numbytes rounded up to 16 in size_t arithmetic. *)
Align16(n) == LET m == (n + 15) % SizeMax IN m - (m % 16)

(* Mutant: L2 hands out the pointer without bumping the arena. *)
CarveNoBump(n, nb) ==
  /\ heap' = heap
  /\ held' = IF heap = NULL THEN held ELSE held \cup {[ptr |-> heap, n |-> n, via |-> "f"]}

(* Mutant: L2 records the returned pointer even when heap is NULL. *)
CarveUnchecked(n, nb) ==
  /\ heap' = [heap EXCEPT !.off = @ + nb]
  /\ held' = held \cup {[ptr |-> heap, n |-> n, via |-> "f"]}

(* mem_fmalloc's L2: hand out the arena pointer and bump it. *)
Carve(n, nb) ==
  /\ heap' = [heap EXCEPT !.off = @ + nb]
  /\ held' = IF heap = NULL THEN held ELSE held \cup {[ptr |-> heap, n |-> n, via |-> "f"]}

(* mem_fmalloc(numbytes): round up; carve from the arena if it has room; *)
(* otherwise pick a new arena size (the request plus 0x3C00, or just the *)
(* request when that reaches 16372), malloc it with the retry loop, and  *)
(* carve.  When mem_exception gives up, heap is left NULL but heapleft   *)
(* keeps the new size.                                                   *)
Fmalloc(n) ==
  LET nb == Align16(n)
      want == (nb + 15360) % SizeMax
      size == IF want >= 16372 THEN nb ELSE want
  IN
  CASE nb = 0 -> UNCHANGED vars
    [] nb <= heapleft ->
         /\ Carve(n, nb)
         /\ heapleft' = heapleft - nb
         /\ UNCHANGED <<mem_inited, mem_count, mem_behavior, blocks, status>>
    [] OTHER ->
         \E r \in MallocResults :
           CASE r = "ok" ->
                  \E b \in BlockIds :
                    /\ NewBlock(size, b)
                    /\ heap' = [blk |-> b, off |-> nb]
                    /\ heapleft' = (size - nb) % SizeMax
                    /\ held' = held \cup {[ptr |-> [blk |-> b, off |-> 0], n |-> n, via |-> "f"]}
                    /\ UNCHANGED <<mem_inited, mem_count, mem_behavior, status>>
             [] r = "null" ->
                  /\ heap' = NULL
                  /\ heapleft' = size
                  /\ UNCHANGED <<mem_inited, mem_count, mem_behavior, blocks, held, status>>
             [] r = "exit" -> Exit /\ UNCHANGED <<mem_inited, mem_count, mem_behavior,
                                                 heap, heapleft, blocks, held>>

-----------------------------------------------------------------------------
(* The client's calls.  Allocation calls come between mem_init and       *)
(* mem_term, as the package's header asks.                                *)
Client == Running /\ mem_inited > 0

MemMalloc == Client /\ Room /\ \E n \in Sizes : MallocCounted(n)
MemCalloc == Client /\ Room /\ \E n \in Sizes : MallocCounted(n)

(* mem_strdup(s): NULL for NULL, else mem_malloc(strlen(s) + 1). *)
MemStrdup ==
  /\ Client /\ Room
  /\ \/ UNCHANGED vars
     \/ \E n \in Sizes : n > 0 /\ MallocCounted(n)

MemFree ==
  /\ Client
  /\ \/ UNCHANGED vars
     \/ \E h \in Counted : FreeCounted(h)

(* mem_realloc: NULL goes to mem_malloc. *)
MemRealloc ==
  /\ Client
  /\ \/ Room /\ \E n \in Sizes : MallocCounted(n)
     \/ \E h \in Counted, n \in Sizes : ReallocCounted(h, n)

MemFmalloc == Client /\ Room /\ \E n \in Sizes : Fmalloc(n)
MemFcalloc == Client /\ Room /\ \E n \in Sizes : Fmalloc(n)

(* mem_fstrdup(s): NULL for NULL, else mem_fmalloc(strlen(s) + 1). *)
MemFstrdup ==
  /\ Client /\ Room
  /\ \/ UNCHANGED vars
     \/ \E n \in Sizes : n > 0 /\ Fmalloc(n)

MemSetexception ==
  /\ Running
  /\ SetException
  /\ UNCHANGED <<mem_inited, mem_count, heap, heapleft, blocks, held, status>>

(* mem_init(): the first one resets the counts and the behaviour. *)
MemInit ==
  /\ Running /\ mem_inited < MaxInits
  /\ mem_inited' = mem_inited + 1
  /\ IF mem_inited = 0
     THEN mem_count' = 0 /\ mem_behavior' = MEM_ABORTMSG
     ELSE UNCHANGED <<mem_count, mem_behavior>>
  /\ UNCHANGED <<heap, heapleft, blocks, held, status>>

(* mem_term(): if initialised, assert nothing is left allocated; then   *)
(* mem_inited = 0, however many mem_init calls there were.              *)
MemTerm ==
  /\ Running
  /\ mem_inited' = 0
  /\ IF mem_inited # 0 /\ mem_count # 0 THEN Fail ELSE UNCHANGED status
  /\ UNCHANGED <<mem_count, mem_behavior, heap, heapleft, blocks, held>>

(* The process has exited or failed an assertion. *)
Halted == ~Running /\ UNCHANGED vars

(* Static storage of the package at program start. *)
Init ==
  /\ mem_inited = 0
  /\ mem_count = 0
  /\ mem_behavior = MEM_ABORTMSG
  /\ heap = NULL
  /\ heapleft = 0
  /\ blocks = [b \in {} |-> 0]
  /\ held = {}
  /\ status = "running"

Next ==
  \/ MemMalloc \/ MemCalloc \/ MemStrdup \/ MemFree \/ MemRealloc
  \/ MemFmalloc \/ MemFcalloc \/ MemFstrdup
  \/ MemSetexception \/ MemInit \/ MemTerm \/ Halted

Spec == Init /\ [][Next]_vars

-----------------------------------------------------------------------------
(* mem_count, the number mem_term checks, always equals the number of    *)
(* counted blocks the client still holds, through every path of          *)
(* mem_malloc, mem_realloc (in place, moved, to zero, failed) and        *)
(* mem_free, and across nested mem_init/mem_term.                        *)
CountMatchesHeld == Running => mem_count = Cardinality(Counted)

(* Every pointer mem_fmalloc has returned to the client lies, with all   *)
(* the bytes asked for, inside a block the C heap handed out.           *)
FmallocPointersValid ==
  \A h \in held : h.via = "f" =>
     /\ h.ptr.blk \in Live
     /\ h.ptr.off + h.n <= blocks[h.ptr.blk]

(* No two pointers mem_fmalloc has returned overlap. *)
FmallocDisjoint ==
  \A h1, h2 \in held :
     (h1 # h2 /\ h1.via = "f" /\ h2.via = "f" /\ h1.ptr.blk = h2.ptr.blk) =>
        \/ h1.ptr.off + h1.n <= h2.ptr.off
        \/ h2.ptr.off + h2.n <= h1.ptr.off

=============================================================================
