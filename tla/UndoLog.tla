------------------------------- MODULE UndoLog ------------------------------
(***************************************************************************)
(* What the executor and its journal store promise together, seen from     *)
(* outside: a machine whose settings can always be undone.  "promised" is  *)
(* the set of operations that stable storage will undo whatever happens;   *)
(* the machine is changed only by operations that are promised, and a      *)
(* promise is withdrawn only when its operation is no longer in effect.    *)
(***************************************************************************)
CONSTANTS Ops, Scope, Original

VARIABLES net, promised

InEffect == {o \in Ops : net[Scope[o]] = o}

Init ==
  /\ net = [s \in {Scope[o] : o \in Ops} |-> Original]
  /\ promised = {}

\* Promises are made and withdrawn; what is in effect stays promised.
Relog ==
  /\ InEffect \subseteq promised'
  /\ promised' \subseteq Ops
  /\ UNCHANGED net

\* A promised operation takes effect.
Mutate(o) ==
  /\ o \in promised
  /\ net' = [net EXCEPT ![Scope[o]] = o]
  /\ UNCHANGED promised

\* A setting is undone, by a rollback step or by a restart of the machine.
Revert(s) ==
  /\ net' = [net EXCEPT ![s] = Original]
  /\ InEffect' \subseteq promised'
  /\ promised' \subseteq Ops

Next == Relog \/ (\E o \in Ops : Mutate(o) \/ Revert(Scope[o]))

Spec == Init /\ [][Next]_<<net, promised>>
=============================================================================
