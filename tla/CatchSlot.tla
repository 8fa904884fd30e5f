----------------------------- MODULE CatchSlot -----------------------------
(***************************************************************************)
(* The run-time use of the exception slot LDC allocates per function     *)
(* (IRLandingPad::catch_var, src/ir/irlandingpad.cpp).  Every landing pad *)
(* with a catch stores the caught object (eh_ptr) into the one slot; a   *)
(* catch variable not referenced from a nested function is the slot      *)
(* itself, one that is gets its own storage and a copy of the slot when  *)
(* its handler starts, and a catch without a variable reads nothing.     *)
(*                                                                         *)
(* An execution is a stack of running handlers: a throw in the innermost *)
(* one (or in the function body) is caught by a try there, whose pad     *)
(* stores the object and enters a new handler; a handler reads its       *)
(* variable, or finishes.                                                *)
(***************************************************************************)
EXTENDS Naturals, Sequences

CONSTANTS
  Objects,    \* exception objects that may be thrown
  VarKinds,   \* the catch clauses' variables: "none", "shared", "nested"
  MaxDepth,   \* bound on handlers running inside one another
  NoObject    \* the slot before any store

ASSUME VarKinds \subseteq {"none", "shared", "nested"} /\ NoObject \notin Objects

VARIABLES
  catch_var,  \* contents of the exception slot
  frames,     \* running handlers, innermost last: [kind, caught, own]
  lastRead    \* the most recent read of a catch variable: [caught, value]

vars == <<catch_var, frames, lastRead>>

NoRead == [caught |-> NoObject, value |-> NoObject]

TypeOK ==
  /\ catch_var \in Objects \cup {NoObject}
  /\ frames \in Seq([kind : VarKinds, caught : Objects, own : Objects \cup {NoObject}])
  /\ lastRead \in [caught : Objects \cup {NoObject}, value : Objects \cup {NoObject}]

(* Mutant: a variable referenced from a nested function is also made an  *)
(* alias of the slot, with no copy of its own.                            *)
OwnStorageNone(kind, o) == NoObject

(* The storage a handler's variable gets when the handler starts: a      *)
(* nested-referenced variable is copied out of the slot, which the pad    *)
(* has just set to o; the others have none of their own.                  *)
OwnStorage(kind, o) == IF kind = "nested" THEN o ELSE NoObject

(* What reading a handler's variable gives: the slot for an alias, the   *)
(* copy otherwise.                                                        *)
VarValue(f) == IF f.kind = "shared" THEN catch_var ELSE f.own

Init ==
  /\ catch_var = NoObject
  /\ frames = <<>>
  /\ lastRead = NoRead

(* An object thrown and caught by a clause with a variable of kind k:    *)
(* the landing pad stores eh_ptr into the slot, then the handler's       *)
(* prologue binds its variable.                                          *)
ThrowAndCatch ==
  /\ Len(frames) < MaxDepth
  /\ \E o \in Objects, k \in VarKinds :
       /\ catch_var' = o
       /\ frames' = Append(frames, [kind |-> k, caught |-> o, own |-> OwnStorage(k, o)])
  /\ UNCHANGED lastRead

(* The innermost handler uses its variable. *)
ReadVar ==
  /\ frames # <<>>
  /\ LET f == frames[Len(frames)] IN
     /\ f.kind # "none"
     /\ lastRead' = [caught |-> f.caught, value |-> VarValue(f)]
  /\ UNCHANGED <<catch_var, frames>>

(* The innermost handler finishes and control returns to the enclosing *)
(* handler or body.                                                     *)
LeaveHandler ==
  /\ frames # <<>>
  /\ frames' = SubSeq(frames, 1, Len(frames) - 1)
  /\ UNCHANGED <<catch_var, lastRead>>

Next == ThrowAndCatch \/ ReadVar \/ LeaveHandler

Spec == Init /\ [][Next]_vars

-----------------------------------------------------------------------------
(* Whenever a handler reads its catch variable, it gets the object that  *)
(* handler caught, however many exceptions were thrown and caught inside *)
(* it in between; the pads' stores into the one shared slot must not be  *)
(* visible through an earlier handler's variable.                        *)
CatchVarHoldsCaught ==
  lastRead # NoRead => lastRead.value = lastRead.caught
=============================================================================
