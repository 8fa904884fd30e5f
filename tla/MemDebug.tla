------------------------------ MODULE MemDebug ------------------------------
(***************************************************************************)
(* The mem package's MEM_DEBUG build (src/dmd/tk/mem.c): every block is  *)
(* a struct mem_debug header, the data and an after-guard, calloc'd from *)
(* the C heap and linked at the front of the doubly linked list headed   *)
(* by the static mem_alloclist; mem_free_debug checks the count and both *)
(* guards before unlinking; mem_check and mem_checkptr walk the list.    *)
(* mem_fmalloc and friends are macros for the counted calls here.        *)
(*                                                                         *)
(* A block is its id on the C heap (the address of its header, and so of *)
(* its data); `mem.dl` is what the headers of the blocks on the C heap   *)
(* hold.  Whether a guard word still has its value is a boolean: the     *)
(* client may write past either end of a block it holds (the bug this    *)
(* build exists to catch).  File and line are not modelled.              *)
(***************************************************************************)
EXTENDS Integers, FiniteSets, SequencesExt, FiniteSetsExt, MemException

CONSTANTS
  Width,          \* bits of size_t
  BlockIds,       \* addresses the C heap can hand out
  Sizes,          \* request sizes the client passes
  MaxInits,       \* bound on nested mem_init calls
  MaxHeld,        \* bound on the pointers the client holds at once
  ClientOverruns  \* whether the client may write outside its blocks

ASSUME 0 \notin BlockIds /\ -1 \notin BlockIds

SizeMax == 2 ^ Width
Nil  == 0       \* NULL
AllocList == -1 \* &mem_alloclist

VARIABLES
  mem_inited,
  mem,            \* [count, numalloc, maxalloc, first (mem_alloclist.Mnext), dl]
  held,           \* the pointers the client holds
  status          \* "running", "exited" or "assert"

vars == <<mem_inited, mem_behavior, mem, held, status>>

Node == [Mnext : BlockIds \cup {Nil}, Mprev : BlockIds \cup {AllocList, Nil},
         Mnbytes : Nat, before : BOOLEAN, after : BOOLEAN]

TypeOK ==
  /\ mem_inited \in 0 .. MaxInits
  /\ mem_behavior \in {MEM_ABORTMSG, MEM_ABORT, MEM_RETNULL, MEM_CALLFP, MEM_RETRY}
  /\ mem.count \in Int
  /\ mem.numalloc \in 0 .. SizeMax - 1 /\ mem.maxalloc \in 0 .. SizeMax - 1
  /\ mem.first \in BlockIds \cup {Nil}
  /\ DOMAIN mem.dl \subseteq BlockIds /\ \A b \in DOMAIN mem.dl : mem.dl[b] \in Node
  /\ held \subseteq BlockIds
  /\ status \in {"running", "exited", "assert"}

Running == status = "running"
Client == Running /\ mem_inited > 0
Room == Cardinality(held) < MaxHeld
Exit == status' = "exited"
Fail == status' = "assert"

-----------------------------------------------------------------------------
(* x->Mnext = y, for a header or the static list head; a store through a *)
(* pointer to freed storage is lost.                                      *)
SetNext(m, x, y) ==
  CASE x = AllocList -> [m EXCEPT !.first = y]
    [] x \in DOMAIN m.dl -> [m EXCEPT !.dl[x].Mnext = y]
    [] OTHER -> m

SetPrev(m, x, y) ==
  IF x \in DOMAIN m.dl THEN [m EXCEPT !.dl[x].Mprev = y] ELSE m

(* The list as mem_check walks it: from mem_alloclist.Mnext along Mnext  *)
(* to NULL, stopping at storage that is no longer a header, and after as *)
(* many steps as there are addresses (a cycle).                          *)
RECURSIVE Chain(_, _, _)
Chain(m, x, k) ==
  IF x = Nil \/ x \notin DOMAIN m.dl \/ k = 0 THEN <<>>
  ELSE <<x>> \o Chain(m, m.dl[x].Mnext, k - 1)

List(m) == Chain(m, m.first, Cardinality(BlockIds) + 1)

Intact(m, b) == m.dl[b].before /\ m.dl[b].after

(* Mutant: the old first block's Mprev is not pointed at the new one. *)
LinkNoBackLink(m, b, n) ==
  LET nd == [Mnext |-> m.first, Mprev |-> AllocList, Mnbytes |-> n, before |-> TRUE, after |-> TRUE]
      na == (m.numalloc + n) % SizeMax
  IN [m EXCEPT !.dl = [x \in DOMAIN m.dl \cup {b} |-> IF x = b THEN nd ELSE m.dl[x]],
               !.first = b, !.count = @ + 1, !.numalloc = na,
               !.maxalloc = IF na > @ THEN na ELSE @]

(* Mutant: the new header's Mnext and Mprev assignments swapped. *)
LinkSwapped(m, b, n) ==
  LET nd == [Mnext |-> AllocList, Mprev |-> m.first, Mnbytes |-> n, before |-> TRUE, after |-> TRUE]
      na == (m.numalloc + n) % SizeMax
  IN [m EXCEPT !.dl = [x \in DOMAIN m.dl \cup {b} |-> IF x = b THEN nd ELSE m.dl[x]],
               !.first = b, !.count = @ + 1, !.numalloc = na,
               !.maxalloc = IF na > @ THEN na ELSE @]

(* mem_calloc_debug once calloc has given block b: fill in the header,   *)
(* link it at the front of the list, count it and its bytes.             *)
Link(m, b, n) ==
  LET nd == [Mnext |-> m.first, Mprev |-> AllocList, Mnbytes |-> n, before |-> TRUE, after |-> TRUE]
      m1 == [m EXCEPT !.dl = [x \in DOMAIN m.dl \cup {b} |-> IF x = b THEN nd ELSE m.dl[x]],
                      !.first = b]
      m2 == IF nd.Mnext # Nil THEN SetPrev(m1, nd.Mnext, b) ELSE m1
      na == (m.numalloc + n) % SizeMax
  IN [m2 EXCEPT !.count = @ + 1, !.numalloc = na, !.maxalloc = IF na > @ THEN na ELSE @]

(* Mutant: the bytes of a freed block stay in mem_numalloc. *)
UnlinkKeepingBytes(m, b) ==
  LET d == m.dl[b]
      m1 == IF d.Mprev # Nil THEN SetNext(m, d.Mprev, d.Mnext) ELSE m
      m2 == IF d.Mnext # Nil THEN SetPrev(m1, d.Mnext, d.Mprev) ELSE m1
  IN [m2 EXCEPT !.dl = [x \in DOMAIN m2.dl \ {b} |-> m2.dl[x]], !.count = @ - 1]

(* mem_free_debug once its checks pass: take the bytes off mem_numalloc, *)
(* unlink, count down and free the block.                                *)
Unlink(m, b) ==
  LET d == m.dl[b]
      m1 == IF d.Mprev # Nil THEN SetNext(m, d.Mprev, d.Mnext) ELSE m
      m2 == IF d.Mnext # Nil THEN SetPrev(m1, d.Mnext, d.Mprev) ELSE m1
  IN [m2 EXCEPT !.dl = [x \in DOMAIN m2.dl \ {b} |-> m2.dl[x]],
                !.count = @ - 1, !.numalloc = (@ - d.Mnbytes) % SizeMax]

(* mem_free_debug's checks: more frees than allocs, then the underrun    *)
(* and the overrun guard.  mem_numalloc < 0 can never hold for a size_t. *)
FreeFails(m, b) == m.count <= 0 \/ ~Intact(m, b)

-----------------------------------------------------------------------------
(* mem_calloc_debug(n) (and mem_malloc_debug, which only fills the data): *)
(* calloc's retry loop, then link.  n = 0 is allocated like any other.   *)
CallocDebug(n) ==
  \E r \in RetryLoopResults(DOMAIN mem.dl # BlockIds) :
    CASE r = "ok" ->
           \E b \in BlockIds \ DOMAIN mem.dl :
             /\ mem' = Link(mem, b, n)
             /\ held' = held \cup {b}
             /\ UNCHANGED <<mem_inited, mem_behavior, status>>
      [] r = "null" -> UNCHANGED vars
      [] r = "exit" -> Exit /\ UNCHANGED <<mem_inited, mem_behavior, mem, held>>

(* mem_free_debug(ptr) on a pointer the client holds. *)
FreeDebug(p) ==
  IF FreeFails(mem, p)
  THEN Fail /\ UNCHANGED <<mem_inited, mem_behavior, mem, held>>
  ELSE /\ mem' = Unlink(mem, p)
       /\ held' = held \ {p}
       /\ UNCHANGED <<mem_inited, mem_behavior, status>>

(* mem_realloc_debug(oldp, n) for a held oldp and n > 0: allocate the    *)
(* new block, and only if that worked, copy and mem_free_debug the old.  *)
ReallocDebug(p, n) ==
  \E r \in RetryLoopResults(DOMAIN mem.dl # BlockIds) :
    CASE r = "ok" ->
           \E b \in BlockIds \ DOMAIN mem.dl :
             LET m1 == Link(mem, b, n) IN
             IF FreeFails(m1, p)
             THEN Fail /\ UNCHANGED <<mem_inited, mem_behavior, mem, held>>
             ELSE /\ mem' = Unlink(m1, p)
                  /\ held' = (held \ {p}) \cup {b}
                  /\ UNCHANGED <<mem_inited, mem_behavior, status>>
      [] r = "null" -> UNCHANGED vars
      [] r = "exit" -> Exit /\ UNCHANGED <<mem_inited, mem_behavior, mem, held>>

-----------------------------------------------------------------------------
(* The client's calls, between mem_init and mem_term. *)
MemMalloc == Client /\ Room /\ \E n \in Sizes : CallocDebug(n)
MemCalloc == Client /\ Room /\ \E n \in Sizes : CallocDebug(n)

(* mem_strdup_debug(s): NULL for NULL, else mem_malloc_debug(strlen + 1). *)
MemStrdup ==
  /\ Client /\ Room
  /\ \/ UNCHANGED vars
     \/ \E n \in Sizes : n > 0 /\ CallocDebug(n)

MemFree ==
  /\ Client
  /\ \/ UNCHANGED vars
     \/ \E p \in held : FreeDebug(p)

(* mem_realloc_debug: n = 0 frees (a client may pass 0 whatever sizes  *)
(* it allocates), a NULL oldp allocates.                                *)
MemRealloc ==
  /\ Client
  /\ \/ \E p \in held : FreeDebug(p)
     \/ Room /\ \E n \in Sizes \ {0} : CallocDebug(n)
     \/ \E p \in held, n \in Sizes \ {0} : ReallocDebug(p, n)

(* mem_check(): walk the list and check both guards of every block. *)
MemCheck ==
  /\ Client
  /\ IF \E k \in DOMAIN List(mem) : ~Intact(mem, List(mem)[k]) THEN Fail ELSE UNCHANGED status
  /\ UNCHANGED <<mem_inited, mem_behavior, mem, held>>

(* mem_checkptr(p): p must lie in a block on the list, which must be     *)
(* intact.                                                               *)
MemCheckptr ==
  /\ Client
  /\ \E p \in held :
       IF p \in ToSet(List(mem)) /\ Intact(mem, p) THEN UNCHANGED status ELSE Fail
  /\ UNCHANGED <<mem_inited, mem_behavior, mem, held>>

(* The client writes just before or just past a block it holds. *)
Overrun ==
  /\ ClientOverruns /\ Client
  /\ \E p \in held, g \in {"before", "after"} : mem' = [mem EXCEPT !.dl[p][g] = FALSE]
  /\ UNCHANGED <<mem_inited, mem_behavior, held, status>>

MemSetexception ==
  /\ Running
  /\ SetException
  /\ UNCHANGED <<mem_inited, mem, held, status>>

(* mem_init(): the first resets the counts, the behaviour and the list. *)
MemInit ==
  /\ Running /\ mem_inited < MaxInits
  /\ mem_inited' = mem_inited + 1
  /\ IF mem_inited = 0
     THEN /\ mem' = [mem EXCEPT !.count = 0, !.numalloc = 0, !.maxalloc = 0, !.first = Nil]
          /\ mem_behavior' = MEM_ABORTMSG
     ELSE UNCHANGED <<mem, mem_behavior>>
  /\ UNCHANGED <<held, status>>

(* mem_term(): if initialised, report the unfreed blocks and assert none *)
(* are left; mem_inited = 0.                                             *)
MemTerm ==
  /\ Running
  /\ mem_inited' = 0
  /\ IF mem_inited # 0 /\ mem.count # 0 THEN Fail ELSE UNCHANGED status
  /\ UNCHANGED <<mem_behavior, mem, held>>

Halted == ~Running /\ UNCHANGED vars

Init ==
  /\ mem_inited = 0
  /\ mem_behavior = MEM_ABORTMSG
  /\ mem = [count |-> 0, numalloc |-> 0, maxalloc |-> 0, first |-> Nil,
            dl |-> [b \in {} |-> [Mnext |-> Nil]]]
  /\ held = {}
  /\ status = "running"

Next ==
  \/ MemMalloc \/ MemCalloc \/ MemStrdup \/ MemFree \/ MemRealloc
  \/ MemCheck \/ MemCheckptr \/ Overrun
  \/ MemSetexception \/ MemInit \/ MemTerm \/ Halted

Spec == Init /\ [][Next]_vars

-----------------------------------------------------------------------------
(* The allocation list stays well formed through every interleaving of  *)
(* allocations, frees and reallocs: walking mem_alloclist.Mnext to NULL  *)
(* visits every header on the C heap exactly once, and each header's     *)
(* Mprev names the one before it (the static head for the first), which *)
(* mem_free_debug's unlink relies on.                                    *)
ListIntegrity ==
  Running =>
    LET L == List(mem) IN
    /\ ToSet(L) = DOMAIN mem.dl
    /\ Len(L) = Cardinality(DOMAIN mem.dl)
    /\ \A k \in DOMAIN L : mem.dl[L[k]].Mprev = IF k = 1 THEN AllocList ELSE L[k - 1]
    /\ (L # <<>> => mem.dl[Last(L)].Mnext = Nil)

(* mem_count is the number of blocks on the list, mem_numalloc the sum  *)
(* of their Mnbytes, and mem_maxalloc is at least that sum, after every  *)
(* path of mem_calloc_debug, mem_free_debug and mem_realloc_debug.       *)
AccountingMatchesList ==
  Running =>
    /\ mem.count = Len(List(mem))
    /\ mem.numalloc = MapThenSumSet(LAMBDA b : mem.dl[b].Mnbytes, ToSet(List(mem)))
    /\ mem.maxalloc >= mem.numalloc

(* The list, read as the client's allocations, changes only as the       *)
(* interface comments promise: a call adds one fresh block of the size   *)
(* asked for (never for 0 bytes), frees exactly the block given, or     *)
(* replaces one block by another.                                        *)
Heap == INSTANCE MemHeap
          WITH Ptrs <- BlockIds,
               allocs <- [b \in ToSet(List(mem)) |-> mem.dl[b].Mnbytes],
               up <- Running

RefinesMemHeap == Heap!Spec
=============================================================================
