--------------------------------- MODULE Morph ---------------------------------
(***************************************************************************)
(* The type conversions of morph: ValueToType fits a value to a type,      *)
(* DeepUnknown marks what it leaves open, UnknownToNull closes it again.   *)
(* A diagnostic, even a warning, ends the one caller of ValueToType: each  *)
(* is an Error here.                                                       *)
(***************************************************************************)
EXTENDS Payload

-----------------------------------------------------------------------------
(* ValueToType *)

IsText(t) == t[1] \in {"string", "intOrString"}

MorphBool(v, t) ==
  CASE t[1] = "bool" \/ t = Dynamic -> v
    [] IsText(t) -> <<"string", IF v[2] THEN "true" ELSE "false">>
    [] OTHER -> Error

MorphNumber(v, t) ==
  CASE t[1] = "number" \/ t = Dynamic -> v
    [] IsText(t) -> <<"string", ToString(v[2])>>
    [] OTHER -> Error

MorphString(v, t) ==
  CASE IsText(t) \/ t = Dynamic -> v
    [] t[1] = "number" /\ IsNumeral(v[2]) -> <<"number", Parsed(v[2])>>
    [] t[1] = "bool" /\ v[2] \in {"true", "false"} -> <<"bool", v[2] = "true">>
    [] OTHER -> Error

\* morphListToType; the elements come converted.
MorphList(v, s, t) ==
  CASE t = Dynamic -> v
    [] t[1] = "list" -> Built(s, <<"list", s, t[2]>>)
    [] t[1] = "tuple" /\ Len(s) = 1 -> Built(s, <<"tuple", s>>)
    [] OTHER -> Error

\* Deviation: a tuple of another length is refused.
MorphTupleStrict(v, s, t) ==
  IF t[1] = "tuple" /\ Len(s) # 1 THEN Error
  ELSE IF t = Dynamic THEN v
  ELSE IF t[1] = "list" THEN Built(s, <<"list", s, t[2]>>) ELSE Built(s, <<"tuple", s>>)

\* morphTupleIntoType.  The one element type of a tuple stands for any number of them.
MorphTuple(v, s, t) ==
  CASE t = Dynamic -> v
    [] t[1] = "list" -> Built(s, <<"list", s, t[2]>>)
    [] t[1] = "tuple" -> Built(s, <<"tuple", s>>)
    [] OTHER -> Error

\* morphMapToType: an object needs an element for each of its attributes.
MorphMap(v, f, t) ==
  CASE t = Dynamic -> v
    [] t[1] = "map" -> Built(f, <<"map", f, t[2]>>)
    [] t[1] = "object" /\ DOMAIN f = DOMAIN t[2] -> Built(f, <<"object", f>>)
    [] OTHER -> Error

\* morphObjectToType: attributes that are not there become null.
MorphObject(v, f, t) ==
  CASE t = Dynamic -> v
    [] t[1] = "map" -> Built(f, <<"map", f, t[2]>>)
    [] t[1] = "object" /\ DOMAIN f \subseteq DOMAIN t[2] ->
         LET all == [k \in DOMAIN t[2] |-> IF k \in DOMAIN f THEN f[k] ELSE <<"null", t[2][k]>>]
         IN Built(f, <<"object", all>>)
    [] OTHER -> Error

\* The type that t has for the child k of a container.
ChildType(t, k) ==
  CASE t[1] \in {"list", "tuple", "map"} -> t[2]
    [] t[1] = "object" /\ k \in DOMAIN t[2] -> t[2][k]
    [] OTHER -> Dynamic

RECURSIVE ValueToType(_, _)
ValueToType(v, t) ==
  LET children == [k \in DOMAIN v[2] |-> ValueToType(v[2][k], ChildType(t, k))]
  IN CASE v[1] = "null" -> <<"null", t>>
       [] v[1] = "string" -> MorphString(v, t)
       [] v[1] = "bool" -> MorphBool(v, t)
       [] v[1] = "number" -> MorphNumber(v, t)
       [] v[1] = "list" -> MorphList(v, children, t)
       [] v[1] = "tuple" -> MorphTuple(v, children, t)
       [] v[1] = "map" -> MorphMap(v, children, t)
       [] v[1] = "object" -> MorphObject(v, children, t)
       [] OTHER -> Error

-----------------------------------------------------------------------------
(* DeepUnknown and UnknownToNull *)

\* Deviation: the types of a tuple are those of the schema, one.
TupleTypesOne(v, t) == <<t[2]>>

\* The types of a tuple's elements: the schema's for one, otherwise their own.
TupleTypes(v, t) ==
  IF t[1] = "tuples" THEN t[2]
  ELSE IF Len(v[2]) = 1 THEN <<t[2]>> ELSE [i \in DOMAIN v[2] |-> TypeOf(v[2][i])]

\* What a null leaves open becomes unknown; an object becomes one of unknowns.
RECURSIVE DeepUnknown(_, _)
DeepUnknown(t, v) ==
  CASE v[1] = "unknown" -> <<"unknown", t>>
    [] t[1] = "object" ->
         Object([k \in DOMAIN t[2] |->
                   DeepUnknown(t[2][k], IF v[1] = "null" THEN v ELSE v[2][k])])
    [] v[1] = "null" -> <<"unknown", t>>
    [] t[1] \in {"map", "list"} ->
         <<t[1], [k \in DOMAIN v[2] |-> DeepUnknown(t[2], v[2][k])], t[2]>>
    [] t[1] \in {"tuple", "tuples"} ->
         LET types == TupleTypes(v, t)
         IN <<"tuple", [i \in DOMAIN types |-> DeepUnknown(types[i], v[2][i])]>>
    [] OTHER -> v

RECURSIVE UnknownToNull(_)
UnknownToNull(v) ==
  CASE v[1] = "unknown" -> <<"null", v[2]>>
    [] v[1] \in {"list", "map"} -> <<v[1], Each(v[2], UnknownToNull), v[3]>>
    [] v[1] \in {"tuple", "object"} -> <<v[1], Each(v[2], UnknownToNull)>>
    [] OTHER -> v
=============================================================================
