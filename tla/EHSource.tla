------------------------------ MODULE EHSource ------------------------------
(***************************************************************************)
(* The source side: a function body as a tree of statements, and what the *)
(* language says happens when a call in it throws.  A statement is         *)
(*   [kind |-> "call"]     a call that may throw (lowered as an invoke)    *)
(*   [kind |-> "skip"]     a statement that cannot throw                   *)
(*   [kind |-> "try", body |-> s, catches |-> <<[type, var, handler]..>>]   *)
(*   [kind |-> "fin", body |-> s, fin |-> s]   try { body } finally { fin } *)
(* A `try ... catch ... finally` is a "fin" whose body is a "try", as the  *)
(* front end nests them.  A statement is named by its path from the root: *)
(* step 0 enters a body, step i > 0 the handler of catch i or the finally  *)
(* block.  This module is the reference the generated code is judged by.  *)
(***************************************************************************)
EXTENDS EHTypes, Sequences

IsCompound(t) == t.kind \in {"try", "fin"}

(* The child reached by one step of a path. *)
Child(t, k) ==
  IF k = 0 THEN t.body
  ELSE IF t.kind = "try" THEN t.catches[k].handler ELSE t.fin

RECURSIVE Sub(_, _)
(* The statement at path p of tree t. *)
Sub(t, p) == IF p = <<>> THEN t ELSE Sub(Child(t, Head(p)), Tail(p))

(* The steps one can take from statement t. *)
Steps(t) ==
  CASE t.kind = "try" -> 0 .. Len(t.catches)
    [] t.kind = "fin" -> {0, 1}
    [] OTHER          -> {}

(* The handlers a try statement t at path q puts around its body, in the  *)
(* order the language tries them: catch clauses in declaration order.     *)
Handlers(t, q) ==
  IF t.kind = "try"
  THEN [i \in 1 .. Len(t.catches) |->
          CatchInfo(q, i, t.catches[i].type, t.catches[i].var)]
  ELSE <<FinallyInfo(q)>>

RECURSIVE ChainFrom(_, _, _)
(* Handlers around the statement reached from t (at path q) by path p,   *)
(* innermost first.  Only a step into a body (0) is protected by the     *)
(* handlers of its statement; catch handlers and finally blocks are not.  *)
ChainFrom(t, q, p) ==
  IF p = <<>> THEN <<>>
  ELSE ChainFrom(Child(t, Head(p)), Append(q, Head(p)), Tail(p))
       \o (IF Head(p) = 0 THEN Handlers(t, q) ELSE <<>>)

HandlerChain(prog, p) == ChainFrom(prog, <<>>, p)

(* The try statements whose body encloses path p, outermost first. *)
EnclosingTries(p) ==
  LET at == SelectSeq([k \in 1 .. Len(p) |-> k], LAMBDA k : p[k] = 0)
  IN [j \in 1 .. Len(at) |-> SubSeq(p, 1, at[j] - 1)]

(* What unwinding from a throw of class c through `chain` does: the      *)
(* finally blocks it runs, in order, the catch clause that takes the      *)
(* exception (NoInfo when none does), and what that clause's variable    *)
(* holds ("exc": the thrown object).                                     *)
RECURSIVE Unwind(_, _, _)
Unwind(chain, c, fins) ==
  IF chain = <<>> THEN [fins |-> fins, caught |-> NoInfo, value |-> "none"]
  ELSE LET h == Head(chain) IN
    IF h.kind = "finally" THEN Unwind(Tail(chain), c, Append(fins, h.try))
    ELSE IF IsA(c, h.type)
         THEN [fins |-> fins, caught |-> h,
               value |-> IF h.var = "none" THEN "none" ELSE "exc"]
    ELSE Unwind(Tail(chain), c, fins)

SourceOutcome(prog, p, c) == Unwind(HandlerChain(prog, p), c, <<>>)
=============================================================================
