---------------------------- MODULE MemException ----------------------------
(***************************************************************************)
(* The out-of-memory policy of the mem package (src/dmd/tk/mem.c), shared *)
(* by its release and debug builds: the behaviour set by                  *)
(* mem_setexception and what mem_exception makes of it.                   *)
(***************************************************************************)
CONSTANT Flags      \* flags the client passes to mem_setexception

MEM_ABORTMSG == 0
MEM_ABORT    == 1
MEM_RETNULL  == 2
MEM_CALLFP   == 3
MEM_RETRY    == 4

ASSUME Flags \subseteq {MEM_ABORTMSG, MEM_ABORT, MEM_RETNULL, MEM_CALLFP, MEM_RETRY}

VARIABLE mem_behavior

(* What mem_exception() ends in for the current behaviour: exit, return  *)
(* 0 (give up) or 1 (retry).  Under MEM_CALLFP the application's handler *)
(* names the next behaviour, so any of the three can follow.             *)
OomOutcomes ==
  CASE mem_behavior \in {MEM_ABORTMSG, MEM_ABORT} -> {"exit"}
    [] mem_behavior = MEM_RETNULL -> {"null"}
    [] mem_behavior = MEM_RETRY   -> {"retry"}
    [] mem_behavior = MEM_CALLFP  -> {"exit", "null", "retry"}

(* How a loop `do p = alloc(); while (p == NULL && mem_exception())` ends: *)
(* with a block when the C heap has one, NULL once mem_exception gives up, *)
(* or exit.  A retry goes round again and so ends in one of the others.    *)
RetryLoopResults(canAlloc) ==
  (IF canAlloc THEN {"ok"} ELSE {}) \cup ({"null", "exit"} \cap OomOutcomes)

(* mem_setexception(flag, ...): the new behaviour (oom_fp is the handler *)
(* MEM_CALLFP consults). *)
SetException == \E flag \in Flags : mem_behavior' = flag
=============================================================================
