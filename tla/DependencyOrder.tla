-------------------------- MODULE DependencyOrder --------------------------
(***************************************************************************)
(* What both dependency sorts of gorest promise, the one of plugins and the*)
(* one of migration sources: items come out once each, and an item only    *)
(* after the items it needs.                                               *)
(***************************************************************************)
EXTENDS Naturals, Sequences

CONSTANT Items

VARIABLES order,  \* what has come out so far
          needs   \* what each item needs

vars == <<order, needs>>

Emitted == {order[i] : i \in 1..Len(order)}

Init == /\ order = <<>>
        /\ needs \in [Items -> SUBSET Items]

\* The needs become known before the first item comes out.
Learn == /\ order = <<>>
         /\ needs' \in [Items -> SUBSET Items]
         /\ UNCHANGED order

Emit(x) == /\ x \notin Emitted
           /\ needs[x] \subseteq Emitted
           /\ order' = Append(order, x)
           /\ UNCHANGED needs

Next == Learn \/ \E x \in Items : Emit(x)

Spec == Init /\ [][Next]_vars
=============================================================================
