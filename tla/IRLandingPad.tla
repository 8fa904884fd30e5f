---------------------------- MODULE IRLandingPad ----------------------------
(***************************************************************************)
(* IRLandingPad (ir/irlandingpad.cpp): the per-function object through    *)
(* which statement lowering stages catch and finally infos, pushes and     *)
(* pops try scopes, and gets the landing pad invokes unwind to.            *)
(*                                                                         *)
(* A landing pad is kept abstractly as the record of what                  *)
(* constructLandingPad emits: the try that pushed it (`owner`), the type   *)
(* list passed to llvm.eh.selector, whether eh_ptr is stored into the      *)
(* exception slot, and the cascade of finally replays and typeid tests     *)
(* (infos in the order they are emitted).  The cascade walk calls back     *)
(* into statement lowering for each finally body, so the walk is a         *)
(* sequence of steps driven by the Lowering module; this module gives the  *)
(* state change of each step.                                              *)
(***************************************************************************)
EXTENDS EHTypes, Sequences, SequencesExt

VARIABLES
  infos,      \* std::deque<IRLandingPadInfo> infos: the live handler list
  nInfos,     \* std::stack<size_t> nInfos: checkpoints, top = Last
  unpushed,   \* std::deque<IRLandingPadInfo> unpushed_infos: staged infos
  padBBs,     \* std::stack<BasicBlock*> padBBs: pads, as indexes into pads
  catch_var,  \* catch_var != NULL: the exception slot has been allocated
  pads        \* the landing pads emitted so far

lpVars == <<infos, nInfos, unpushed, padBBs, catch_var, pads>>

NoPad == 0   \* get() returning NULL

InfoSeq(s) == DOMAIN s = 1 .. Len(s) /\ \A k \in DOMAIN s : IsInfo(s[k])

LPTypeOK ==
  /\ InfoSeq(infos)
  /\ InfoSeq(unpushed)
  /\ nInfos \in Seq(Nat)
  /\ padBBs \in Seq(1 .. Len(pads))
  /\ catch_var \in BOOLEAN
  /\ \A k \in DOMAIN pads :
       /\ pads[k].store \in BOOLEAN
       /\ \A j \in DOMAIN pads[k].selector : pads[k].selector[j] \in CatchTypes \cup {Cleanup}
       /\ InfoSeq(pads[k].cascade)

LPInit ==
  /\ infos = <<>>
  /\ nInfos = <<>>
  /\ unpushed = <<>>
  /\ padBBs = <<>>
  /\ catch_var = FALSE
  /\ pads = <<>>

(* std::deque::resize: truncates, or grows with default infos. *)
Resize(s, n) == [i \in 1 .. n |-> IF i <= Len(s) THEN s[i] ELSE NoInfo]

IsCatch(x) == x.kind = "catch"

(* getExceptionStorage(): allocate the slot on first use. *)
GetExceptionStorage == catch_var' = TRUE

(* IRLandingPadInfo(Catch*, end), storage part: every catch variable asks *)
(* for the slot, the shared ones to alias it and the nested ones to       *)
(* compare against it before copying out of it.                           *)
CatchStorage(var) ==
  IF var = "none" THEN UNCHANGED catch_var ELSE GetExceptionStorage

(* addCatch / addFinally: push_front onto unpushed_infos. *)
AddInfo(info) ==
  /\ unpushed' = <<info>> \o unpushed
  /\ UNCHANGED <<infos, nInfos, padBBs, catch_var, pads>>

(* Variants of SelectorArgs for mutation: one appends each catch type    *)
(* instead of inserting it at the front; one drops the finallyBody test   *)
(* and inserts every info's catchType, NULL for a finally.                *)
SelectorArgsAppended(list) ==
  [i \in 1 .. Len(SelectSeq(list, IsCatch)) |-> SelectSeq(list, IsCatch)[i].type]
  \o (IF \E k \in DOMAIN list : list[k].kind = "finally" THEN <<Cleanup>> ELSE <<>>)
SelectorArgsUnfiltered(list) ==
  [i \in 1 .. Len(list) |-> list[Len(list) + 1 - i].type]
  \o (IF \E k \in DOMAIN list : list[k].kind = "finally" THEN <<Cleanup>> ELSE <<>>)

(* The selector's type list: catch types inserted at the front while the *)
(* handler list is walked forwards, then the 0 action if any finally.    *)
SelectorArgs(list) ==
  LET cs == SelectSeq(list, IsCatch)
  IN [i \in 1 .. Len(cs) |-> cs[Len(cs) + 1 - i].type]
     \o (IF \E k \in DOMAIN list : list[k].kind = "finally"
         THEN <<Cleanup>> ELSE <<>>)

(* constructLandingPad up to the cascade walk: eh.exception, the         *)
(* selector call and, if there is a catch and the slot exists, the store  *)
(* of eh_ptr into it.                                                     *)
NewPad(owner, list) ==
  [owner    |-> owner,
   selector |-> SelectorArgs(list),
   store    |-> (\E k \in DOMAIN list : IsCatch(list[k])) /\ catch_var,
   cascade  |-> <<>>]

(* push(inBB) up to the cascade walk: checkpoint the list, splice the     *)
(* staged infos onto it, clear them, and start the landing pad.          *)
Push(owner) ==
  LET all == infos \o unpushed IN
  /\ nInfos' = Append(nInfos, Len(infos))
  /\ infos' = all
  /\ unpushed' = <<>>
  /\ pads' = Append(pads, NewPad(owner, all))
  /\ UNCHANGED <<padBBs, catch_var>>

(* One cascade step for a catch: typeid test branching to its target. *)
WalkCatch(pad, item) ==
  /\ pads' = [pads EXCEPT ![pad].cascade = Append(@, item)]
  /\ UNCHANGED <<infos, nInfos, unpushed, padBBs, catch_var>>

(* One cascade step for a finally: drop the top checkpoint's scope from  *)
(* the live list, then (in Lowering) lower the finally body inline.       *)
WalkFinally(pad, item) ==
  /\ nInfos # <<>>
  /\ infos' = Resize(infos, Last(nInfos))
  /\ nInfos' = Front(nInfos)
  /\ pads' = [pads EXCEPT ![pad].cascade = Append(@, item)]
  /\ UNCHANGED <<unpushed, padBBs, catch_var>>

(* End of constructLandingPad and push: restore the list and checkpoints *)
(* saved before the walk, emit the resume, and make the pad the target.  *)
FinishPush(pad, savedInfos, savedN) ==
  /\ infos' = savedInfos
  /\ nInfos' = savedN
  /\ padBBs' = Append(padBBs, pad)
  /\ UNCHANGED <<unpushed, catch_var, pads>>

(* A variant of Pop for mutation: padBBs.pop() forgotten. *)
PopKeepingPad ==
  /\ nInfos # <<>>
  /\ infos' = Resize(infos, Last(nInfos))
  /\ nInfos' = Front(nInfos)
  /\ UNCHANGED <<unpushed, catch_var, pads, padBBs>>

(* pop(). *)
Pop ==
  /\ nInfos # <<>>
  /\ padBBs' = Front(padBBs)
  /\ infos' = Resize(infos, Last(nInfos))
  /\ nInfos' = Front(nInfos)
  /\ UNCHANGED <<unpushed, catch_var, pads>>

(* get(). *)
Get == IF padBBs = <<>> THEN NoPad ELSE Last(padBBs)

(***************************************************************************)
(* What the emitted landing pad does with an exception of class c: the    *)
(* personality returns the first selector entry c is an instance of (or   *)
(* the 0 cleanup action), and does not enter the pad at all if there is   *)
(* none; the cascade then runs finally bodies and branches to the first   *)
(* catch whose typeid equals the selector value, else resumes unwinding.  *)
(* A catch variable reads the exception slot, which holds the exception   *)
(* only if the pad stored it.                                             *)
(***************************************************************************)
RECURSIVE Cascade(_, _, _, _)
Cascade(items, sel, store, fins) ==
  IF items = <<>> THEN [fins |-> fins, caught |-> NoInfo, value |-> "none"]
  ELSE LET h == Head(items) IN
    IF h.kind = "finally" THEN Cascade(Tail(items), sel, store, Append(fins, h.try))
    ELSE IF h.type = sel
         THEN [fins |-> fins, caught |-> h,
               value |-> IF h.var = "none" THEN "none"
                         ELSE IF store THEN "exc" ELSE "stale"]
    ELSE Cascade(Tail(items), sel, store, fins)

PadOutcome(pad, c) ==
  LET s == pads[pad].selector
      hit == {k \in DOMAIN s : s[k] = Cleanup \/ IsA(c, s[k])}
  IN IF pad = NoPad \/ hit = {}
     THEN [fins |-> <<>>, caught |-> NoInfo, value |-> "none"]
     ELSE Cascade(pads[pad].cascade,
                  s[CHOOSE k \in hit : \A j \in hit : k <= j],
                  pads[pad].store, <<>>)
=============================================================================
