----------------------------- MODULE MCPlanFields -----------------------------
(* Instances of PlanFields for TLC: two labels, a plain leaf, one that may be computed *)
(* and one that may be immutable. *)
EXTENDS PlanFields

CONSTANTS l1, l2, p, c, i, v1, v2

LabelsPath == {l1, l2}
NoPaths == {}

Val(second, plain, frozen) ==
  [l \in Leaves |-> CASE l = l2 -> second [] l = p -> plain [] l = i -> frozen [] OTHER -> v1]

Block(val, computed, immutable, force) ==
  [val |-> val, roles |-> [computed |-> computed, immutable |-> immutable, force |-> force]]

\* A computed and an immutable field; changes of the plain and of the immutable one;
\* the default of computed, with one label or two; without force.
FieldsBlocks ==
  { Block(Val(None, v1, v1), {{c}}, {{i}}, TRUE),
    Block(Val(None, v2, v1), {{c}}, {{i}}, TRUE),
    Block(Val(None, v1, v2), {{c}}, {{i}}, FALSE),
    Block(Val(None, None, v1), {}, {}, FALSE),
    Block(Val(v2, v1, v1), {}, {}, TRUE) }
=============================================================================
