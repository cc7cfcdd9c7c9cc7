-------------------------- MODULE MCManifestValues --------------------------
(* Instances of ManifestValues. *)
EXTENDS ManifestValues

T(s) == <<"string", s>>
N(n) == <<"number", n>>
TfMap(f) == <<"map", f>>
Tuple(s) == <<"tuple", s>>
TfList(s) == <<"list", s>>

SchemaOfKind ==
  <<"fields",
    [metadata |-> <<"fields", [labels |-> <<"assoc", <<"string">>>>, uid |-> <<"string">>]>>,
     data |-> <<"assoc", <<"string">>>>,
     spec |-> <<"fields",
       [port |-> <<"int-or-string">>,
        on |-> <<"bool">>,
        args |-> <<"array", <<"string">>>>,
        items |-> <<"array", <<"fields", [n |-> <<"string">>, m |-> <<"number">>]>>>>,
        free |-> <<"any">>,
        frees |-> <<"array", <<"any">>>>]>>]>>
TwoSchemas == {SchemaOfKind, None}

Labelled(spec) == Object([metadata |-> Object([labels |-> Object([a |-> T("x")])]), spec |-> spec])

\* The same in literals and in typed collections.
Literal == Object([metadata |-> Object([labels |-> Object([a |-> T("x")])]),
                   data |-> Object([k |-> T("v")]), spec |-> Object([args |-> Tuple(<<T("x"), T("y")>>)])])
Collections == Object([metadata |-> Object([labels |-> TfMap([a |-> T("x")])]),
                       data |-> TfMap([k |-> T("v")]), spec |-> Object([args |-> TfList(<<T("x"), T("y")>>)])])
\* A number for an int-or-string, maps in a list, a boolean.
Numbered == Labelled(Object([port |-> N(1), on |-> <<"bool", TRUE>>,
                             items |-> Tuple(<<Object([n |-> T("a")]),
                                               Object([n |-> T("b"), m |-> N(2)])>>)]))
\* Fields without a type.
Untyped == Labelled(Object([free |-> Object([q |-> T("1")]),
                            frees |-> Tuple(<<Object([z |-> N(1)]), T("w")>>)]))
\* Nulls and a set.
Odd == Labelled(Object([args |-> <<"set", <<T("x"), T("y")>>>>, port |-> <<"null">>,
                        free |-> Tuple(<<T("x"), <<"null">>, T("y")>>)]))
\* A placeholder for a value of manifest_wo.
Placeholder == Object([metadata |-> Object([uid |-> T("u1")]), data |-> Object([p |-> T("v")])])
AllBlocks == {Literal, Collections, Numbered, Untyped, Odd, Placeholder}
OnlyLiteral == {Literal}

TheSecret == T("secret")
NoOverlay == GoMap(<<>>)
Password == GoMap([data |-> GoMap([p |-> TheSecret])])
Certificate == GoMap([data |-> GoMap("t.c" :> TheSecret)])
Arguments == GoMap([spec |-> GoMap([args |-> Slice(<<TheSecret>>)])])
AllOverlays == {NoOverlay, Password, Certificate, Arguments}
DottedOverlays == {Certificate}
DottedKeys == "t.c" :> <<"t", "c">>

AllWrites ==
  {GoMap([metadata |-> GoMap([labels |-> GoMap([a |-> T("y")])])]),
   GoMap([data |-> GoMap([k |-> T("z")])]),
   GoMap([spec |-> GoMap([port |-> <<"int64", 2>>, args |-> Slice(<<T("x"), T("z"), T("y")>>)])]),
   GoMap([spec |-> GoMap([items |-> Slice(<<GoMap([n |-> T("b"), m |-> <<"int64", 1>>])>>)])])}
NoWrites == {}

ServerDefaults == GoMap([metadata |-> GoMap([uid |-> T("u1")]), status |-> GoMap([ok |-> T("1")])])
ServerItemDefaults == GoMap([m |-> <<"int64", 1>>])
LabelPaths == {<<"metadata", "labels">>, <<"metadata", "annotations">>}
ServerSidePaths == {<<"status">>, <<"metadata", "uid">>}
FewNumbers == 0..2
=============================================================================
