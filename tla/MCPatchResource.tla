--------------------------- MODULE MCPatchResource ---------------------------
(* Instances of PatchResource for TLC: the object and the patches users may write. *)
EXTENDS PatchResource, TLC

CONSTANTS r1, r2, r3, t1, t2, k1, k2, x, y, z, v1, v2

Patch(named, items) ==
  [leaf |-> [l \in Leaves |-> IF l \in DOMAIN named THEN named[l] ELSE Keep],
   items |-> items]

Object(there, items) ==
  [leaf |-> [l \in Leaves |-> IF l \in there THEN v1 ELSE None],
   items |-> [i \in Items |-> IF i \in items THEN 1 ELSE 0]]

At(l, v) == [n \in {l} |-> v]
Both(l, m, v) == [n \in {l, m} |-> v]

\* Every leaf but k2 is there, and no item; nor is t2, but an item that no patch names.
Plain == { Object(Leaves \ {k2}, {}) }
WithItem == { Object(Leaves \ {k2, t2}, {y}) }

\* r1 overwrites a top-level value and one in the map, and adds an item; r2 depends on it,
\* overwrites the first of these again and another one in the map, and adds another item.
\* r3 adds a value of its own, and the action adds a leaf to the map.
Layers == [r \in Resources |->
  CASE r = r1 -> {Patch(Both(t1, k1, v2), {x})}
    [] r = r2 -> {Patch(At(t1, v1) @@ At(k1, v1), {z})}
    [] r = r3 -> {Patch(At(t2, v2), {})}]
ActionApart == {Patch(At(k2, v2), {})}

\* What depends on what: nothing, or r2 on r1.
Unordered == [r \in Resources |-> {}]
Stacked == [r \in Resources |-> IF r = r2 THEN {r1} ELSE {}]

\* The same places: a required leaf and an item for both; two patches of r1, one with
\* a null and with a leaf the map does not have.
Overlapping == [r \in Resources |->
  IF r = r1
  THEN {Patch(At(t1, v2), {x}), Patch(At(t2, Null) @@ Both(t1, k2, v2), {})}
  ELSE {Patch(At(t1, v1), {x})}]

\* Each adds an item of its own.
OnlyItems == [r \in Resources |-> IF r = r1 THEN {Patch(<<>>, {x})} ELSE {Patch(<<>>, {y})}]
=============================================================================
