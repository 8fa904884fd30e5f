------------------------------ MODULE Lowering ------------------------------
(***************************************************************************)
(* Statement lowering of one function body, driving IRLandingPad.  Code   *)
(* generation is one recursive, sequential process; `work` is its         *)
(* continuation stack, head first.  The task kinds are                    *)
(*   stmt      lower the statement at `path` (toIR)                       *)
(*   catch     IRLandingPadInfo(Catch* c, end) up to its handler: target block   *)
(*             and catch-variable storage                                 *)
(*   addCatch  the rest of that constructor and addCatch's push_front     *)
(*   addFinally, push, pop   the IRLandingPad calls                       *)
(*   walk      constructLandingPad's cascade loop, holding its local      *)
(*             copies of infos/nInfos and the infos not yet walked        *)
(* A try-catch stages every clause (lowering each handler as it goes),    *)
(* pushes, lowers its body and pops; a try-finally stages its finally,    *)
(* pushes, lowers its body, pops and lowers the finally block for the     *)
(* normal path.  Each throwing call is emitted as an invoke whose unwind  *)
(* target is get().                                                       *)
(***************************************************************************)
EXTENDS IRLandingPad, EHSource

CONSTANTS
  Programs,   \* the function bodies to lower
  MaxWork     \* bound on the lowering stack (the compiler's own stack)

VARIABLES
  prog,       \* the function body being lowered
  work,       \* continuation stack of the lowering process
  emitted     \* invokes emitted: [path, pad]

vars == <<lpVars, prog, work, emitted>>

Stmt(p) == [op |-> "stmt", path |-> p]
Node(p) == Sub(prog, p)
Top == Head(work)

(* Replace the head task by the sequence ts, within the stack bound. *)
Continue(ts) ==
  /\ Len(ts) + Len(work) - 1 <= MaxWork
  /\ work' = ts \o Tail(work)

Init ==
  /\ LPInit
  /\ prog \in Programs
  /\ work = <<Stmt(<<>>)>>
  /\ emitted = {}

TypeOK ==
  /\ LPTypeOK
  /\ \A k \in DOMAIN work :
       work[k].op \in {"stmt", "catch", "addCatch", "addFinally", "push", "walk", "pop"}
  /\ \A e \in emitted : e.pad \in 0 .. Len(pads)

-----------------------------------------------------------------------------
(* A call that may throw: an invoke unwinding to get(). *)
LowerCall ==
  /\ work # <<>> /\ Top.op = "stmt" /\ Node(Top.path).kind = "call"
  /\ emitted' = emitted \cup {[path |-> Top.path, pad |-> Get]}
  /\ Continue(<<>>)
  /\ UNCHANGED <<lpVars, prog>>

LowerSkip ==
  /\ work # <<>> /\ Top.op = "stmt" /\ Node(Top.path).kind = "skip"
  /\ Continue(<<>>)
  /\ UNCHANGED <<lpVars, prog, emitted>>

(* TryCatchStatement::toIR. *)
LowerTryCatch ==
  /\ work # <<>> /\ Top.op = "stmt" /\ Node(Top.path).kind = "try"
  /\ LET p == Top.path
         n == Len(Node(p).catches)
         clause(i) == <<[op |-> "catch", path |-> p, idx |-> i],
                        Stmt(Append(p, i)),
                        [op |-> "addCatch", path |-> p, idx |-> i]>>
     IN Continue(FlattenSeq([i \in 1 .. n |-> clause(i)])
                 \o <<[op |-> "push", path |-> p], Stmt(Append(p, 0)),
                      [op |-> "pop"]>>)
  /\ UNCHANGED <<lpVars, prog, emitted>>

(* TryFinallyStatement::toIR. *)
LowerTryFinally ==
  /\ work # <<>> /\ Top.op = "stmt" /\ Node(Top.path).kind = "fin"
  /\ LET p == Top.path IN
     Continue(<<[op |-> "addFinally", path |-> p], [op |-> "push", path |-> p],
                Stmt(Append(p, 0)), [op |-> "pop"], Stmt(Append(p, 1))>>)
  /\ UNCHANGED <<lpVars, prog, emitted>>

-----------------------------------------------------------------------------
(* IRLandingPadInfo(Catch*, end) before the handler is lowered. *)
CatchCtor ==
  /\ work # <<>> /\ Top.op = "catch"
  /\ CatchStorage(Node(Top.path).catches[Top.idx].var)
  /\ Continue(<<>>)
  /\ UNCHANGED <<infos, nInfos, unpushed, padBBs, pads, prog, emitted>>

(* The end of IRLandingPadInfo(Catch*, end), then addCatch. *)
AddCatchStep ==
  /\ work # <<>> /\ Top.op = "addCatch"
  /\ LET c == Node(Top.path).catches[Top.idx] IN
     AddInfo(CatchInfo(Top.path, Top.idx, c.type, c.var))
  /\ Continue(<<>>)
  /\ UNCHANGED <<prog, emitted>>

AddFinallyStep ==
  /\ work # <<>> /\ Top.op = "addFinally"
  /\ AddInfo(FinallyInfo(Top.path))
  /\ Continue(<<>>)
  /\ UNCHANGED <<prog, emitted>>

(* push(inBB): splice and emit the selector, then start the cascade walk *)
(* over a copy of the live list, back to front.                          *)
PushStep ==
  /\ work # <<>> /\ Top.op = "push"
  /\ Push(Top.path)
  /\ Continue(<<[op |-> "walk", pad |-> Len(pads) + 1, items |-> Reverse(infos'),
                 savedInfos |-> infos', savedN |-> nInfos']>>)
  /\ UNCHANGED <<prog, emitted>>

WalkCatchStep ==
  /\ work # <<>> /\ Top.op = "walk" /\ Top.items # <<>>
  /\ Head(Top.items).kind # "finally"
  /\ WalkCatch(Top.pad, Head(Top.items))
  /\ Continue(<<[Top EXCEPT !.items = Tail(@)]>>)
  /\ UNCHANGED <<prog, emitted>>

(* A finally in the cascade: truncate, then lower its body inline. *)
WalkFinallyStep ==
  /\ work # <<>> /\ Top.op = "walk" /\ Top.items # <<>>
  /\ Head(Top.items).kind = "finally"
  /\ WalkFinally(Top.pad, Head(Top.items))
  /\ Continue(<<Stmt(Append(Head(Top.items).try, 1)),
                [Top EXCEPT !.items = Tail(@)]>>)
  /\ UNCHANGED <<prog, emitted>>

WalkDoneStep ==
  /\ work # <<>> /\ Top.op = "walk" /\ Top.items = <<>>
  /\ FinishPush(Top.pad, Top.savedInfos, Top.savedN)
  /\ Continue(<<>>)
  /\ UNCHANGED <<prog, emitted>>

PopStep ==
  /\ work # <<>> /\ Top.op = "pop"
  /\ Pop
  /\ Continue(<<>>)
  /\ UNCHANGED <<prog, emitted>>

(* The function body has been lowered. *)
Finished ==
  /\ work = <<>>
  /\ UNCHANGED vars

Next ==
  \/ LowerCall \/ LowerSkip \/ LowerTryCatch \/ LowerTryFinally
  \/ CatchCtor \/ AddCatchStep \/ AddFinallyStep \/ PushStep
  \/ WalkCatchStep \/ WalkFinallyStep \/ WalkDoneStep \/ PopStep
  \/ Finished

(* Code generation is a single sequential process: it keeps running. *)
Spec == Init /\ [][Next]_vars /\ WF_vars(Next)

-----------------------------------------------------------------------------
(* Whenever a statement is about to be lowered (handler bodies, finally   *)
(* bodies replayed inside a landing pad included), the live handler list, *)
(* read back to front, is exactly the chain of handlers the language puts *)
(* around that statement, and the pad stack holds one pad per enclosing   *)
(* try body, outermost first.  This is what push/pop's checkpoints,       *)
(* constructLandingPad's truncation for finallys and its final restore    *)
(* must keep true for every later push to build the right pad.            *)
ScopeStackMatchesPosition ==
  (work # <<>> /\ Top.op = "stmt") =>
    /\ Reverse(infos) = HandlerChain(prog, Top.path)
    /\ [k \in DOMAIN padBBs |-> pads[padBBs[k]].owner] = EnclosingTries(Top.path)

(* For every invoke emitted and every class of exception it may throw,    *)
(* the landing pad it unwinds to (selector list, cascade of finally       *)
(* replays and typeid tests, store of eh_ptr into the slot) runs the same *)
(* finally blocks in the same order, reaches the same catch clause and    *)
(* binds the thrown object to its variable, as the source says.          *)
DispatchMatchesSource ==
  \A e \in emitted, c \in Classes :
    PadOutcome(e.pad, c) = SourceOutcome(prog, e.path, c)

(* Lowering a function body finishes. *)
LoweringTerminates == <>(work = <<>>)
=============================================================================
