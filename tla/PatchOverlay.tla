---------------------------- MODULE PatchOverlay ----------------------------
(***************************************************************************)
(* What a user takes kubectl_patch resources for: patches laid over an     *)
(* object as long as the resources exist, some on top of others, under     *)
(* which others go on with the object.  PatchResource implements it for    *)
(* patches that stay out of each other's way or depend on each other.      *)
(***************************************************************************)
EXTENDS Naturals

CONSTANTS Resources, PatchesOf, Below, Leaves, Items, Keep, None

VARIABLES object,   \* the object
          base,     \* the object without the patches
          applied   \* the patch of each resource, or None

vars == <<object, base, applied>>

NamesLeaf(r, l) == applied[r] # None /\ applied[r].leaf[l] # Keep
NamesItem(r, i) == applied[r] # None /\ i \in applied[r].items

\* No patch above the one of r names the leaf.
Uncovered(r, l) == \A s \in Resources : r \in Below[s] => ~NamesLeaf(s, l)

\* The object shows the patches' values where there are any, the upper ones before the
\* lower ones, else its own.
Laid ==
  /\ \A l \in Leaves :
       /\ \A r \in Resources :
            NamesLeaf(r, l) /\ Uncovered(r, l) => object.leaf[l] = applied[r].leaf[l]
       /\ (\A r \in Resources : ~NamesLeaf(r, l)) => object.leaf[l] = base.leaf[l]
  /\ \A i \in Items :
       object.items[i] = IF \E r \in Resources : NamesItem(r, i) THEN 1 ELSE base.items[i]

Init == object = base /\ applied = [r \in Resources |-> None]

Lay(r, p) ==
  /\ \A s \in Below[r] : applied[s] # None
  /\ applied' = [applied EXCEPT ![r] = p] /\ UNCHANGED base

Lift(r) ==
  /\ \A s \in Resources : r \in Below[s] => applied[s] = None
  /\ applied' = [applied EXCEPT ![r] = None] /\ UNCHANGED base

Others == base' # base /\ UNCHANGED applied

Next ==
  /\ \/ \E r \in Resources : Lift(r) \/ \E p \in PatchesOf[r] : Lay(r, p)
     \/ Others
  /\ Laid'

Spec == Init /\ [][Next]_vars
=============================================================================
