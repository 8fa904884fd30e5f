------------------------------ MODULE MemHeap ------------------------------
(***************************************************************************)
(* What the mem package promises its client, from the interface comments  *)
(* of src/dmd/tk/mem.c: the set of live allocations, each a pointer to    *)
(* numbytes > 0 bytes; mem_malloc/mem_calloc add a fresh one, mem_free    *)
(* removes the one it is given, mem_realloc replaces one by another, and  *)
(* the process may stop (an out-of-memory exit or a failed check).  A    *)
(* call that returns NULL changes nothing.                                *)
(***************************************************************************)
EXTENDS Naturals

CONSTANTS
  Ptrs,       \* the pointers storage can be handed out at
  Sizes       \* the sizes the client asks for

VARIABLES
  allocs,     \* live allocations: pointer -> numbytes
  up          \* the process is still running

heapVars == <<allocs, up>>

Init ==
  /\ allocs = [p \in {} |-> 0]
  /\ up = TRUE

(* mem_malloc/mem_calloc(numbytes): for numbytes > 0, a pointer to       *)
(* numbytes bytes of storage not otherwise in use.                        *)
Alloc ==
  /\ up
  /\ \E p \in Ptrs \ DOMAIN allocs, n \in Sizes \ {0} :
       allocs' = [x \in DOMAIN allocs \cup {p} |-> IF x = p THEN n ELSE allocs[x]]
  /\ UNCHANGED up

(* mem_free(ptr): ptr's storage, and only it, is released. *)
Free ==
  /\ up
  /\ \E p \in DOMAIN allocs : allocs' = [x \in DOMAIN allocs \ {p} |-> allocs[x]]
  /\ UNCHANGED up

(* mem_realloc(ptr, numbytes): ptr's storage is replaced by numbytes > 0 *)
(* bytes, at ptr or at a pointer not otherwise in use.                    *)
Realloc ==
  /\ up
  /\ \E p \in DOMAIN allocs, n \in Sizes \ {0} :
     \E q \in (Ptrs \ DOMAIN allocs) \cup {p} :
       allocs' = [x \in (DOMAIN allocs \ {p}) \cup {q} |-> IF x = q THEN n ELSE allocs[x]]
  /\ UNCHANGED up

(* exit(EXIT_FAILURE) on out of memory, or a failed assertion. *)
Stop ==
  /\ up
  /\ up' = FALSE
  /\ UNCHANGED allocs

Next == Alloc \/ Free \/ Realloc \/ Stop

Spec == Init /\ [][Next]_heapVars
=============================================================================
