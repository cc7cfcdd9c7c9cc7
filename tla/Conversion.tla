------------------------------ MODULE Conversion ------------------------------
(***************************************************************************)
(* Manifests as Terraform's dynamic values and as the untyped Go maps      *)
(* that the provider computes with: the two directions of conversion.go.   *)
(*                                                                         *)
(* A value is a tuple that begins with its kind.                           *)
(*   Both:       <<"string", s>>, <<"bool", b>>                            *)
(*   Terraform:  <<"number", n>>, <<"null">>, and with a function from     *)
(*               keys or a sequence <<"object", f>>, <<"map", f>>,         *)
(*               <<"tuple", s>>, <<"list", s>>, <<"set", s>>               *)
(*   Go:         <<"int64", n>>, <<"float64", n>>, <<"nil">>,              *)
(*               <<"gomap", f>>, <<"slice", s>>                            *)
(* Numbers are small and whole; a fraction takes the way of a float64.     *)
(***************************************************************************)
EXTENDS Naturals, Sequences, TLC

CONSTANT Numbers   \* the numbers that may occur

ASSUME NumbersAssumption == Numbers \subseteq Nat

Nil == <<"nil">>
Null == <<"null">>
Object(f) == <<"object", f>>
GoMap(f) == <<"gomap", f>>
Slice(s) == <<"slice", s>>

\* A string that is the numeral of a number, and that number.
IsNumeral(s) == \E n \in Numbers : ToString(n) = s
Parsed(s) == CHOOSE n \in Numbers : ToString(n) = s

\* f with A applied to each of its values.
Each(f, A(_)) == [k \in DOMAIN f |-> A(f[k])]

-----------------------------------------------------------------------------
(* From Terraform to Go: encodeAttrValue *)

RECURSIVE Encode(_)
Encode(v) ==
  CASE v[1] = "null" -> Nil
    [] v[1] = "number" -> <<"float64", v[2]>>
    [] v[1] \in {"object", "map"} -> GoMap(Each(v[2], Encode))
    [] v[1] \in {"tuple", "list", "set"} -> Slice(Each(v[2], Encode))
    [] OTHER -> v

-----------------------------------------------------------------------------
(* From Go to Terraform *)

\* The attr.Type of a value that decoding has made.
RECURSIVE AttrType(_)
AttrType(v) ==
  CASE v[1] \in {"object", "tuple"} -> <<v[1], Each(v[2], AttrType)>>
    [] v[1] \in {"map", "list"} -> <<v[1], {AttrType(v[2][k]) : k \in DOMAIN v[2]}>>
    [] OTHER -> <<v[1]>>

Homogeneous(f) == \A j, k \in DOMAIN f : AttrType(f[j]) = AttrType(f[k])

\* The hint for a child: what the hint has at the same place.  A set has no places.
Hint(hint, kinds, k) ==
  IF hint[1] \in kinds /\ k \in DOMAIN hint[2] THEN hint[2][k] ELSE Null

\* Deviation: the hint is not looked at for containers.
ContainerPlain(f, hint, like, plain) == <<plain, f>>

\* A container with children f: like the hint when that is homogeneous and f can be.
Container(f, hint, like, plain) ==
  IF hint[1] = like /\ DOMAIN f # {} /\ Homogeneous(f) THEN <<like, f>> ELSE <<plain, f>>

\* decodeAnyPreservingType: maps and lists, and numbers that the API server keeps as
\* strings, take the kind that the reference value has at their place.
RECURSIVE Preserving(_, _)
Preserving(x, hint) ==
  CASE x = Nil -> Null
    [] x[1] \in {"int64", "float64"} -> <<"number", x[2]>>
    [] x[1] = "string" ->
         IF hint[1] = "number" /\ IsNumeral(x[2]) THEN <<"number", Parsed(x[2])>> ELSE x
    [] x[1] = "gomap" ->
         Container([k \in DOMAIN x[2] |-> Preserving(x[2][k], Hint(hint, {"map", "object"}, k))],
                   hint, "map", "object")
    [] x[1] = "slice" ->
         Container([i \in DOMAIN x[2] |-> Preserving(x[2][i], Hint(hint, {"list", "tuple"}, i))],
                   hint, "list", "tuple")
    [] OTHER -> x

\* mapToDynamic, decodeAny: without a reference value.
Decode(x) == Preserving(x, Null)
=============================================================================
