------------------------------ MODULE EHTypes ------------------------------
(***************************************************************************)
(* Values shared by the exception-handling modules: the class types named  *)
(* by catch clauses, the subclass relation the personality function tests, *)
(* and the handler descriptor record (IRLandingPadInfo) that both the      *)
(* source-level reference and the landing-pad code manipulate.            *)
(***************************************************************************)
EXTENDS Naturals, Sequences

CONSTANTS
  Classes,     \* runtime classes an exception object may have
  CatchTypes,  \* class types that catch clauses name (ClassDeclaration*)
  IsA(_, _),   \* IsA(c, t): an object of class c is caught by `catch (t)`
  NoType,      \* catchType == NULL (the finally variant)
  Cleanup      \* the `0` action pushed onto the selector for finallys

ASSUME CatchTypes \subseteq Classes
ASSUME NoType \notin Classes /\ Cleanup \notin Classes /\ NoType # Cleanup

(* How a catch clause keeps its variable: no variable, a variable that    *)
(* shares the function's exception slot, or one referenced from a nested *)
(* function that gets its own storage (catchstmt->var->nestedrefs).      *)
CatchVars == {"none", "shared", "nested"}

(* A handler descriptor, IRLandingPadInfo.  `try` is the path of the try  *)
(* statement in the function body and `idx` the catch clause's position; *)
(* a finally info has catchType == NULL.                                  *)
CatchInfo(q, i, type, var) ==
  [kind |-> "catch", try |-> q, idx |-> i, type |-> type, var |-> var]
FinallyInfo(q) ==
  [kind |-> "finally", try |-> q, idx |-> 0, type |-> NoType, var |-> "none"]

(* A default-constructed IRLandingPadInfo (what deque::resize inserts).   *)
NoInfo ==
  [kind |-> "none", try |-> <<>>, idx |-> 0, type |-> NoType, var |-> "none"]

IsInfo(x) ==
  \/ \E t \in CatchTypes, v \in CatchVars :
        x = CatchInfo(x.try, x.idx, t, v) /\ x.try \in Seq(Nat) /\ x.idx \in Nat \ {0}
  \/ x = FinallyInfo(x.try) /\ x.try \in Seq(Nat)
  \/ x = NoInfo
=============================================================================
