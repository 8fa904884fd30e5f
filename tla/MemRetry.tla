------------------------------ MODULE MemRetry ------------------------------
(***************************************************************************)
(* The out-of-memory loop of the release build of mem.c, step by step:   *)
(* mem_malloc's `while (1) { p = malloc(n); if (p == NULL &&             *)
(* mem_exception()) continue; ... }` and mem_exception's own loop, which  *)
(* under MEM_CALLFP calls the application's handler oom_fp and switches   *)
(* on the behaviour it returns.  MemAlloc takes each such call as one     *)
(* step; here the steps are separate so that a call that never returns    *)
(* shows up as a behaviour that stays in the loop.                        *)
(*                                                                         *)
(* The handler is application code.  The header asks it (mem.c:93-99) to *)
(* free memory when it asks for another try, and to be careful not to    *)
(* loop forever; the model's handler does exactly that: it returns        *)
(* MEM_RETRY or MEM_CALLFP only after releasing a block it had cached.    *)
(***************************************************************************)
EXTENDS Naturals, FiniteSets, MemException

CONSTANTS
  BlockIds,        \* the C heap: blocks malloc can hand out
  HandlerReturns   \* the MEM_E values oom_fp may return

ASSUME HandlerReturns \subseteq {MEM_ABORTMSG, MEM_ABORT, MEM_RETNULL, MEM_CALLFP, MEM_RETRY}

VARIABLES
  heap,      \* blocks in use
  cache,     \* blocks in use that the application's handler may release
  pc,        \* "idle", or where the running mem_malloc call is
  behavior,  \* mem_exception's local `behavior`
  status     \* "running" or "exited"

vars == <<mem_behavior, heap, cache, pc, behavior, status>>

Progress == {MEM_RETRY, MEM_CALLFP}

TypeOK ==
  /\ mem_behavior \in Flags
  /\ cache \subseteq heap /\ heap \subseteq BlockIds
  /\ pc \in {"idle", "malloc", "exception", "handler"}
  /\ behavior \in {MEM_ABORTMSG, MEM_ABORT, MEM_RETNULL, MEM_CALLFP, MEM_RETRY}
  /\ status \in {"running", "exited"}

Init ==
  /\ mem_behavior = MEM_ABORTMSG
  /\ heap = {} /\ cache = {}
  /\ pc = "idle" /\ behavior = MEM_ABORTMSG
  /\ status = "running"

(* Mutant: MEM_RETNULL returns 1 as MEM_RETRY does. *)
ExceptionResultRetNullRetries(b) ==
  CASE b \in {MEM_ABORTMSG, MEM_ABORT} -> "exit"
    [] b = MEM_CALLFP -> "callfp"
    [] b \in {MEM_RETNULL, MEM_RETRY} -> "retry"

(* One pass of mem_exception's switch on `behavior`: exit, call oom_fp, *)
(* return 0 (give up) or return 1 (retry).                              *)
ExceptionResult(b) ==
  CASE b \in {MEM_ABORTMSG, MEM_ABORT} -> "exit"
    [] b = MEM_CALLFP  -> "callfp"
    [] b = MEM_RETNULL -> "give_up"
    [] b = MEM_RETRY   -> "retry"

(* The client calls mem_malloc(n) with n > 0 (n = 0 returns NULL at once). *)
Call ==
  /\ status = "running" /\ pc = "idle"
  /\ pc' = "malloc"
  /\ UNCHANGED <<mem_behavior, heap, cache, behavior, status>>

(* p = malloc(n): a block, counted and returned (the application may keep *)
(* it as a cache its handler can give back), or NULL and mem_exception(). *)
TryMalloc ==
  /\ pc = "malloc"
  /\ IF heap # BlockIds
     THEN \E b \in BlockIds \ heap :
            /\ heap' = heap \cup {b}
            /\ cache' \in {cache, cache \cup {b}}
            /\ pc' = "idle"
            /\ UNCHANGED behavior
     ELSE /\ pc' = "exception"
          /\ behavior' = mem_behavior
          /\ UNCHANGED <<heap, cache>>
  /\ UNCHANGED <<mem_behavior, status>>

(* mem_exception's switch: exit(EXIT_FAILURE), the handler, return 0 and *)
(* mem_malloc returns NULL, or return 1 and mem_malloc continues.         *)
MemExceptionStep ==
  /\ pc = "exception"
  /\ LET r == ExceptionResult(behavior) IN
       CASE r = "exit"    -> status' = "exited" /\ pc' = "idle"
         [] r = "callfp"  -> pc' = "handler" /\ UNCHANGED status
         [] r = "give_up" -> pc' = "idle" /\ UNCHANGED status
         [] r = "retry"   -> pc' = "malloc" /\ UNCHANGED status
  /\ UNCHANGED <<mem_behavior, heap, cache, behavior>>

(* behavior = oom_fp(): the handler frees a cached block if it has one, *)
(* and asks to go on only if it did.                                       *)
Handler ==
  /\ pc = "handler"
  /\ \E freed \in SUBSET cache, r \in HandlerReturns :
       /\ Cardinality(freed) <= 1
       /\ r \in Progress => freed # {}
       /\ heap' = heap \ freed /\ cache' = cache \ freed
       /\ behavior' = r
  /\ pc' = "exception"
  /\ UNCHANGED <<mem_behavior, status>>

(* mem_free(p) of a block the client holds, between calls. *)
MemFree ==
  /\ status = "running" /\ pc = "idle"
  /\ \E b \in heap : heap' = heap \ {b} /\ cache' = cache \ {b}
  /\ UNCHANGED <<mem_behavior, pc, behavior, status>>

MemSetexception ==
  /\ status = "running" /\ pc = "idle"
  /\ SetException
  /\ UNCHANGED <<heap, cache, pc, behavior, status>>

Halted == status = "exited" /\ UNCHANGED vars

(* The steps inside one mem_malloc call: the program is single-threaded *)
(* and, once inside, runs until the call returns or exits.              *)
InCall == TryMalloc \/ MemExceptionStep \/ Handler

Next == Call \/ InCall \/ MemFree \/ MemSetexception \/ Halted

Spec == Init /\ [][Next]_vars /\ WF_vars(InCall)

-----------------------------------------------------------------------------
(* Every mem_malloc call returns (a block or NULL) or exits the program: *)
(* mem_exception's loop and the retry loop around malloc both end when   *)
(* the behaviours and the handler keep the header's rules.               *)
CallReturns == pc = "malloc" ~> (pc = "idle" \/ status = "exited")
=============================================================================
