-------------------------------- MODULE Payload --------------------------------
(***************************************************************************)
(* Values typed by the OpenAPI schema of their kind: the types that        *)
(* api/schema.go gives for a schema, and the conversions of payload and    *)
(* morph between them and Go's untyped values.                             *)
(*                                                                         *)
(*   Schemas: <<"string">>, <<"int-or-string">>, <<"number">>, <<"bool">>, *)
(*            <<"any">>, <<"array", items>>, <<"fields", f>>,              *)
(*            <<"assoc", items>>                                           *)
(*   Types:   <<"string">>, <<"intOrString">> (a string with the hint),    *)
(*            <<"number">>, <<"bool">>, <<"dynamic">>, <<"list", t>>,      *)
(*            <<"tuple", t>>, <<"map", t>>, <<"object", f>>                *)
(*   Values:  scalars as in Conversion, <<"list", s, t>>, <<"tuple", s>>,  *)
(*            <<"map", f, t>>, <<"object", f>>, <<"null", t>>,             *)
(*            <<"unknown", t>>; <<"error">> and <<"panic">> for none.      *)
(* No schema gives a set or a tuple of several types; those are left out.  *)
(***************************************************************************)
EXTENDS Conversion

Dynamic == <<"dynamic">>
Error == <<"error">>
Panic == <<"panic">>
Failed(v) == v \in {Error, Panic}

-----------------------------------------------------------------------------
(* getTypeFromSchema *)

\* isTypeFullyKnown
RECURSIVE FullyKnown(_)
FullyKnown(t) ==
  CASE t = Dynamic -> FALSE
    [] t[1] = "object" -> \A k \in DOMAIN t[2] : FullyKnown(t[2][k])
    [] t[1] \in {"list", "tuple", "map"} -> FullyKnown(t[2])
    [] OTHER -> TRUE

RECURSIVE TypeFromSchema(_)
TypeFromSchema(e) ==
  CASE e[1] \in {"string", "number", "bool"} -> e
    [] e[1] = "int-or-string" -> <<"intOrString">>
    [] e[1] = "any" -> Dynamic
    [] e[1] = "array" ->
         LET t == TypeFromSchema(e[2]) IN <<IF FullyKnown(t) THEN "list" ELSE "tuple", t>>
    [] e[1] = "assoc" -> <<"map", TypeFromSchema(e[2])>>
    [] e[1] = "fields" -> <<"object", Each(e[2], TypeFromSchema)>>

-----------------------------------------------------------------------------
(* ToTFValue *)

\* Value.Type().  A tuple of values has a type for each of them: <<"tuples", types>>.
RECURSIVE TypeOf(_)
TypeOf(v) ==
  CASE v[1] \in {"null", "unknown"} -> IF v[2] = <<"intOrString">> THEN <<"string">> ELSE v[2]
    [] v[1] = "object" -> <<"object", Each(v[2], TypeOf)>>
    [] v[1] = "tuple" -> <<"tuples", Each(v[2], TypeOf)>>
    [] v[1] \in {"list", "map"} -> <<v[1], v[3]>>
    [] OTHER -> <<v[1]>>

\* A container with children f, or the failure of one of them.
Built(f, container) ==
  CASE \E k \in DOMAIN f : f[k] = Panic -> Panic
    [] \E k \in DOMAIN f : f[k] = Error -> Error
    [] OTHER -> container

\* The element type of a list or map: that of its elements, or the schema's.
ElementType(f, t) == IF DOMAIN f = {} THEN t ELSE TypeOf(f[CHOOSE k \in DOMAIN f : TRUE])

\* sliceToTFListValue: the elements must all be of one type.
ListOf(s, t) ==
  IF \E i, j \in DOMAIN s : ~Failed(s[i]) /\ ~Failed(s[j]) /\ TypeOf(s[i]) # TypeOf(s[j])
  THEN Error
  ELSE Built(s, <<"list", s, ElementType(s, t)>>)

\* mapToTFMapValue: the elements must be of one kind of type; NewValue panics when they
\* are, but their types differ.
MapOf(f, t) ==
  LET two(Differ(_, _)) == \E j, k \in DOMAIN f :
        ~Failed(f[j]) /\ ~Failed(f[k]) /\ Differ(TypeOf(f[j]), TypeOf(f[k]))
  IN CASE two(LAMBDA a, b : a[1] # b[1]) -> Error
       [] two(LAMBDA a, b : a # b) -> Panic
       [] OTHER -> Built(f, <<"map", f, ElementType(f, t)>>)

\* Payload x as a value of type t; th says whether the hints are at hand.
RECURSIVE ToTF(_, _, _)
ToTF(x, t, th) ==
  CASE x = Nil -> <<"null", t>>
    [] x[1] = "string" /\ t[1] \in {"string", "intOrString", "dynamic"} -> x
    [] x[1] = "string" /\ t[1] = "number" /\ IsNumeral(x[2]) -> <<"number", Parsed(x[2])>>
    [] x[1] = "bool" /\ t[1] \in {"bool", "dynamic"} -> x
    [] x[1] \in {"int64", "float64"} /\ t[1] \in {"number", "dynamic"} -> <<"number", x[2]>>
    [] x[1] = "int64" /\ t[1] = "intOrString" /\ th -> <<"string", ToString(x[2])>>
    [] x[1] = "slice" /\ t[1] = "list" ->
         ListOf([i \in DOMAIN x[2] |-> ToTF(x[2][i], t[2], th)], t[2])
    [] x[1] = "slice" /\ t[1] \in {"tuple", "dynamic"} ->
         LET s == [i \in DOMAIN x[2] |->
                     ToTF(x[2][i], IF t = Dynamic THEN Dynamic ELSE t[2], th)]
         IN Built(s, <<"tuple", s>>)
    [] x[1] = "gomap" /\ t[1] = "object" ->
         LET f == [k \in DOMAIN t[2] |->
                     ToTF(IF k \in DOMAIN x[2] THEN x[2][k] ELSE Nil, t[2][k], th)]
         IN Built(f, <<"object", f>>)
    [] x[1] = "gomap" /\ t[1] = "map" ->
         MapOf([k \in DOMAIN x[2] |-> ToTF(x[2][k], t[2], th)], t[2])
    [] x[1] = "gomap" /\ t = Dynamic ->
         LET f == [k \in DOMAIN x[2] |-> ToTF(x[2][k], Dynamic, th)]
         IN Built(f, <<"object", f>>)
    [] OTHER -> Error

-----------------------------------------------------------------------------
(* FromTFValue *)

\* A null element is left out of a list, and those behind it move up.
RECURSIVE FromTF(_)
FromTF(v) ==
  CASE v[1] = "null" -> Nil
    [] v[1] = "unknown" \/ Failed(v) -> Error
    [] v[1] = "number" -> <<"int64", v[2]>>
    [] v[1] \in {"list", "tuple"} ->
         LET s == Each(v[2], FromTF) IN Built(s, Slice(SelectSeq(s, LAMBDA x : x # Nil)))
    [] v[1] \in {"map", "object"} -> LET f == Each(v[2], FromTF) IN Built(f, GoMap(f))
    [] OTHER -> v
=============================================================================
