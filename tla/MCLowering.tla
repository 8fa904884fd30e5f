---------------------------- MODULE MCLowering ----------------------------
(***************************************************************************)
(* Model-checking instance of Lowering: the classes, the subclass         *)
(* relation, and the sets of function bodies lowered.                     *)
(***************************************************************************)
EXTENDS Lowering

CONSTANTS Base, Derived, Other

(* Derived extends Base; Other is unrelated to both. *)
MCIsA(c, t) == c = t \/ (c = Derived /\ t = Base)

Call == [kind |-> "call"]
Skip == [kind |-> "skip"]
Leaves == {Call, Skip}

Clause(t, v, h) == [type |-> t, var |-> v, handler |-> h]
Try(b, cs) == [kind |-> "try", body |-> b, catches |-> cs]
Fin(b, f) == [kind |-> "fin", body |-> b, fin |-> f]

(***************************************************************************)
(* Generated bodies: try-catch statements nested in try bodies, up to      *)
(* `depth` of them, optionally around an innermost try-finally; catch      *)
(* handlers and finally blocks are leaves.  These are the shapes on which *)
(* the scope stack is claimed correct; the others are the violation runs. *)
(***************************************************************************)
RECURSIVE Nested(_, _, _)
Nested(depth, clauses, maxCatches) ==
  IF depth = 0 THEN Leaves \cup {Fin(b, f) : b, f \in Leaves}
  ELSE LET inner == Nested(depth - 1, clauses, maxCatches)
       IN inner \cup {Try(b, cs) : b \in inner,
                                 cs \in UNION {[1 .. n -> clauses] : n \in 1 .. maxCatches}}

(* Wide: two nested tries of one or two clauses of every kind. *)
WidePrograms ==
  Nested(2, {Clause(t, v, h) : t \in {Base, Derived}, v \in {"none", "shared"},
                               h \in Leaves}, 2)

(* Deep: three nested tries of one clause with a variable. *)
DeepPrograms ==
  Nested(3, {Clause(t, "shared", h) : t \in {Base, Derived}, h \in Leaves}, 1)

CorePrograms == WidePrograms \cup DeepPrograms

(* A try nested in the second catch handler of a try. *)
StagingPrograms ==
  {Try(Call, <<Clause(Base, "none", Skip),
                Clause(Derived, "none", Try(Call, <<Clause(Derived, "none", Skip)>>))>>)}

(* A try-catch inside a try-finally whose finally block holds a try-catch. *)
ReplayRecursionPrograms ==
  {Fin(Try(Call, <<Clause(Base, "none", Skip)>>),
       Try(Call, <<Clause(Base, "none", Skip)>>))}

(* A try-finally nested in a try-finally whose finally block calls. *)
ReplayTargetPrograms ==
  {Fin(Fin(Call, Skip), Call)}
=============================================================================
