---------------------------- MODULE ManifestValues ----------------------------
(***************************************************************************)
(* One manifest of kubectl_manifest as a structured value, on its way from *)
(* the block to the API server, back into the state and into the next      *)
(* plan.  ManifestResource and PlanFields model the handlers around it and *)
(* take the conversions for granted.                                       *)
(*                                                                         *)
(* SecretsHidden, RefreshShowsCluster and AppliedIsKept are stated in      *)
(* ManifestPlaces, of the trees of these values.                           *)
(*                                                                         *)
(* Abstractions.  A key is a string; Dots gives the pieces of those with a *)
(* dot in them.  manifest_wo does not change.  The API server keeps whole  *)
(* numbers as int64, drops nothing that it is sent and adds defaults.      *)
(***************************************************************************)
EXTENDS Morph, FiniteSets, ManifestPlaces

CONSTANTS
  Blocks,        \* manifests the user may write, as Terraform values
  Overlays,      \* values of manifest_wo, as Go maps; the empty one for none
  Schemas,       \* OpenAPI schemas of the kind, None for one that is not resolved
  Writes,        \* what others may merge into the object
  Defaults,      \* what the API server adds to an object, and to each map in a list
  ItemDefaults,
  Computed,      \* paths of fields.computed
  MaxEdits, MaxWrites, MaxRuns   \* bounds

ASSUME BoundsAssumption == MaxEdits \in Nat /\ MaxWrites \in Nat /\ MaxRuns \in Nat

VARIABLES
  schema,  \* the schema of the manifest's kind
  edits, writes, runs,
  sent     \* ghost: what the last apply sent, or None

values == <<schema, wo, block, object>>
bounds == <<edits, writes, runs>>
vars == <<values, state, plan, pc, bounds, sent, seen, quiet>>

Type == TypeFromSchema(schema)
Absent == <<"absent">>

TypeOK ==
  /\ schema \in Schemas /\ wo \in Overlays /\ block \in Blocks
  /\ object = None \/ object[1] = "gomap"
  /\ state = None \/ (state.manifest[1] = "object" /\ state.object[1] = "object")
  /\ plan = None \/ plan[1] = "object"
  /\ pc \in {"idle", "plan", "planned"} /\ quiet \in BOOLEAN
  /\ edits \in 0..MaxEdits /\ writes \in 0..MaxWrites /\ runs \in 0..MaxRuns

Init ==
  /\ schema \in Schemas /\ wo \in Overlays /\ block \in Blocks
  /\ object = None /\ state = None /\ plan = None /\ pc = "idle"
  /\ edits = 0 /\ writes = 0 /\ runs = 0
  /\ sent = None /\ seen = None /\ quiet = FALSE

-----------------------------------------------------------------------------
(* Go maps *)

Without(f, k) == [j \in DOMAIN f \ {k} |-> f[j]]

\* Deviation: only the keys at the top are merged.
MergeFlat(base, overlay) ==
  GoMap([k \in DOMAIN base[2] \cup DOMAIN overlay[2] |->
           IF k \in DOMAIN overlay[2] THEN overlay[2][k] ELSE base[2][k]])

\* deepMergeMaps
RECURSIVE Merge(_, _)
Merge(base, overlay) ==
  LET b == base[2]  o == overlay[2]
  IN GoMap([k \in DOMAIN b \cup DOMAIN o |->
       IF k \notin DOMAIN o THEN b[k]
       ELSE IF k \in DOMAIN b /\ b[k][1] = "gomap" /\ o[k][1] = "gomap" THEN Merge(b[k], o[k])
       ELSE o[k]])

\* A key as strings.Split finds it in the joined path.
Pieces(k) == IF k \in DOMAIN Dots THEN Dots[k] ELSE <<k>>

\* Deviation: the walk stops where a map is left of the overlay.
TopPaths(m) == {Pieces(k) : k \in {j \in DOMAIN m[2] : m[2][j][1] # "gomap"}}

\* extractLeafPaths, with the paths split again.
RECURSIVE LeafPaths(_)
LeafPaths(m) ==
  UNION {IF m[2][k][1] = "gomap" THEN {Pieces(k) \o p : p \in LeafPaths(m[2][k])}
                                 ELSE {Pieces(k)} : k \in DOMAIN m[2]}

\* woDeleteAtPath
RECURSIVE DeleteAt(_, _)
DeleteAt(x, p) ==
  CASE x[1] = "gomap" /\ p[1] \in DOMAIN x[2] ->
         GoMap(IF Len(p) = 1 THEN Without(x[2], p[1])
               ELSE [x[2] EXCEPT ![p[1]] = DeleteAt(@, Tail(p))])
    [] x[1] = "slice" /\ Len(p) > 1 /\ IsNumeral(p[1]) ->
         LET i == Parsed(p[1]) + 1
         IN IF i \in DOMAIN x[2] THEN Slice([x[2] EXCEPT ![i] = DeleteAt(@, Tail(p))]) ELSE x
    [] OTHER -> x

RECURSIVE DeleteAll(_, _)
DeleteAll(x, paths) ==
  IF paths = {} THEN x
  ELSE LET p == CHOOSE q \in paths : TRUE IN DeleteAll(DeleteAt(x, p), paths \ {p})

\* Deviations: a null of the API server is taken over; nothing is.
KeptNulls(prior, api) == api
KeptPrior(prior, api) == prior

\* What reconciling keeps of a scalar, or of values of two kinds.
Kept(prior, api) == IF api = Nil THEN prior ELSE api

\* deepReconcileMaps and deepReconcileSlices.  A list in a list is a scalar.
RECURSIVE Reconcile(_, _)
Reconcile(prior, api) ==
  LET both(kind) == prior[1] = kind /\ api[1] = kind
      item(p, a) == IF p[1] = "gomap" THEN Reconcile(p, a) ELSE Kept(p, a)
      child(k) == IF k \in DOMAIN api[2] THEN Reconcile(prior[2][k], api[2][k]) ELSE prior[2][k]
      element(i) == IF i \in DOMAIN api[2] THEN item(prior[2][i], api[2][i]) ELSE prior[2][i]
  IN CASE both("gomap") -> GoMap([k \in DOMAIN prior[2] |-> child(k)])
       [] both("slice") -> Slice([i \in DOMAIN prior[2] |-> element(i)])
       [] OTHER -> Kept(prior, api)

\* getNestedMapValue and setNestedMapValue
RECURSIVE Lookup(_, _)
Lookup(x, p) ==
  IF p = <<>> THEN x
  ELSE IF x[1] = "gomap" /\ p[1] \in DOMAIN x[2] THEN Lookup(x[2][p[1]], Tail(p)) ELSE Absent

RECURSIVE SetAt(_, _, _)
SetAt(x, p, v) ==
  IF p = <<>> THEN v ELSE GoMap([x[2] EXCEPT ![p[1]] = SetAt(@, Tail(p), v)])

-----------------------------------------------------------------------------
(* The API server (external) *)

\* What JSON makes of a payload: MapRemoveNulls, and whole numbers become integers.
RECURSIVE Json(_)
Json(x) ==
  CASE x[1] = "float64" -> <<"int64", x[2]>>
    [] x[1] = "slice" -> Slice(Each(SelectSeq(x[2], LAMBDA e : e # Nil), Json))
    [] x[1] = "gomap" ->
         GoMap([k \in {j \in DOMAIN x[2] : x[2][j] # Nil} |-> Json(x[2][k])])
    [] OTHER -> x

RECURSIVE Defaulted(_)
Defaulted(x) ==
  LET item(e) == IF e[1] = "gomap" THEN Merge(ItemDefaults, Defaulted(e)) ELSE e
  IN CASE x[1] = "gomap" -> GoMap(Each(x[2], Defaulted))
       [] x[1] = "slice" -> Slice(Each(x[2], item))
       [] OTHER -> x

\* What a server-side apply makes of the object: fields that others have added stay.
Admitted(o, x) == Defaulted(Merge(IF o = None THEN Defaults ELSE Merge(Defaults, o), x))

-----------------------------------------------------------------------------
(* Reading *)

\* The payload as the schema's type sees it, with null for what it does not have.
Typed(x) ==
  LET v == ToTF(x, Type, TRUE)
  IN IF schema = None \/ Failed(v) THEN Error ELSE FromTF(UnknownToNull(DeepUnknown(Type, v)))

\* readManifestV2: model.Manifest, from the object as it is.
ReadBasic(o) == Decode(GoMap(Without(o[2], "status")))

\* readManifest, readManifestWithOpenAPI
ReadManifest(o) ==
  LET x == Typed(DeleteAll(o, ServerSide)) IN IF Failed(x) THEN ReadBasic(o) ELSE Decode(x)

\* reconcileDynamicWithPrior
ReconciledWith(prior, api) == Preserving(Reconcile(Encode(prior), Encode(api)), prior)

\* Deviation: the map is not made a Terraform value again.
MaskedMap(o) == DeleteAll(Encode(o), LeafPaths(wo))

\* maskFieldsWoPaths
Masked(o) == Decode(DeleteAll(Encode(o), LeafPaths(wo)))

\* The data source's object: convertToObject.
DataObject(o) == LET x == Typed(o) IN Decode(IF Failed(x) THEN o ELSE x)

-----------------------------------------------------------------------------
(* Planning *)

\* The child k of a typed value; a walk through a null or an unknown finds nothing.
Child(v, k) ==
  IF v[1] \in {"object", "map", "list", "tuple"} /\ k \in DOMAIN v[2] THEN v[2][k] ELSE Absent

\* v with the values A gives for its children.
WithChildren(v, A(_)) ==
  LET f == [k \in DOMAIN v[2] |-> A(k)]
  IN IF v[1] \in {"list", "map"} THEN <<v[1], f, v[3]>> ELSE <<v[1], f>>

IsContainer(v) == v[1] \in {"object", "map", "list", "tuple"}

\* The Transform of an update: computed paths carry the prior object's values, and so
\* does what the plan leaves open and the prior manifest has nothing to say of.
RECURSIVE Carry(_, _, _, _)
Carry(v, man, obj, p) ==
  CASE v[1] = "unknown" -> IF man = Absent /\ obj # Absent THEN obj ELSE v
    [] v[1] # "unknown" /\ p \in Computed -> IF obj = Absent THEN v ELSE obj
    [] IsContainer(v) /\ p \notin Computed ->
         WithChildren(v, LAMBDA k : Carry(v[2][k], Child(man, k), Child(obj, k), Append(p, k)))
    [] OTHER -> v

\* The Transform without a prior object: computed paths are left open.
RECURSIVE Open(_, _)
Open(v, p) ==
  CASE p \in Computed -> <<"unknown", TypeOf(v)>>
    [] IsContainer(v) /\ p \notin Computed ->
         WithChildren(v, LAMBDA k : Open(v[2][k], Append(p, k)))
    [] OTHER -> v

\* Deviation: a result that is neither the block nor the state goes into the plan.
PlannableAny(x, want, have) == TRUE

\* The guard against a hybrid of block and state.
Plannable(x, want, have) == x = want \/ x = have

\* modifyPlanWithOpenAPI
ByOpenAPI(b) ==
  LET want == Encode(b)
      have == Encode(state.manifest)
      proposed == ValueToType(ToTF(want, Type, FALSE), Type)
      man == ToTF(have, Type, FALSE)
      obj == ToTF(Encode(state.object), Type, TRUE)
      whole == DeepUnknown(Type, proposed)
      carried == IF Failed(obj) THEN Open(whole, <<>>)
                 ELSE Carry(whole, IF Failed(man) THEN Absent ELSE man, obj, <<>>)
      result == FromTF(UnknownToNull(carried))
      filtered == Reconcile(want, result)
  IN IF schema = None \/ Failed(proposed) \/ Failed(result) \/ ~Plannable(filtered, want, have)
     THEN b ELSE Preserving(filtered, b)

\* reconcileComputedFieldsInPlan
RECURSIVE Overlaid(_, _, _)
Overlaid(x, have, paths) ==
  IF paths = {} THEN x
  ELSE LET p == CHOOSE q \in paths : TRUE
           new == IF Absent \in {Lookup(have, p), Lookup(x, p)} THEN x
                  ELSE SetAt(x, p, Lookup(have, p))
       IN Overlaid(new, have, paths \ {p})

WithComputed(b) ==
  LET have == Encode(state.manifest)
      new == Overlaid(Encode(b), have, Computed)
  IN IF new # Encode(b) /\ new = have THEN Preserving(new, b) ELSE b

-----------------------------------------------------------------------------
(* The user and others *)

Edit(b) ==
  /\ pc = "idle" /\ b # block /\ edits < MaxEdits /\ edits' = edits + 1
  /\ block' = b /\ quiet' = FALSE
  /\ UNCHANGED <<schema, wo, object, state, plan, pc, writes, runs, sent, seen>>

\* Others merge a value into the object, or remove one from it.
Disturb(o) ==
  /\ object # None /\ o # object /\ writes < MaxWrites /\ writes' = writes + 1
  /\ object' = o /\ seen' = None /\ quiet' = FALSE
  /\ UNCHANGED <<schema, wo, block, state, plan, pc, edits, runs, sent>>

OthersMerge == \E w \in Writes : object # None /\ Disturb(Merge(object, w))
OthersRemove ==
  \E w \in Writes : object # None /\ \E p \in LeafPaths(w) : Disturb(DeleteAt(object, p))

-----------------------------------------------------------------------------
(* Terraform's commands *)

\* A command on a new resource begins with its plan, any other with a refresh.
Start ==
  /\ pc = "idle" /\ state = None /\ runs < MaxRuns /\ runs' = runs + 1
  /\ pc' = "plan"
  /\ UNCHANGED <<values, state, plan, edits, writes, sent, seen, quiet>>

Read ==
  /\ pc = "idle" /\ state # None /\ runs < MaxRuns /\ runs' = runs + 1
  /\ seen' = ReadManifest(object)
  /\ state' = [manifest |-> ReconciledWith(state.manifest, seen'),
               object |-> Masked(Decode(object))]
  /\ pc' = "plan"
  /\ UNCHANGED <<values, plan, edits, writes, sent, quiet>>

\* ModifyPlan, which leaves the plan of a new resource as it is
ModifyPlan ==
  /\ pc = "plan" /\ pc' = "planned"
  /\ plan' = IF state = None THEN block ELSE WithComputed(ByOpenAPI(block))
  /\ UNCHANGED <<values, state, bounds, sent, seen, quiet>>

\* Terraform compares the plan with the state to the last type.
HasDiff == IF state = None THEN TRUE ELSE plan # state.manifest

NoChanges ==
  /\ pc = "planned" /\ ~HasDiff
  /\ pc' = "idle" /\ plan' = None
  /\ UNCHANGED <<values, state, bounds, sent, seen, quiet>>

\* applyManifest: what is merged, sent and stored.
Injected(m) == IF DOMAIN wo[2] = {} THEN Encode(m) ELSE Encode(Decode(Merge(Encode(m), wo)))

Apply ==
  /\ pc = "planned" /\ HasDiff
  /\ LET x == Injected(plan)
         o == Admitted(object, Json(x))
     IN /\ object' = o /\ sent' = x
        /\ state' = [manifest |-> plan, object |-> Masked(Decode(o))]
  /\ plan' = None /\ pc' = "idle" /\ seen' = None /\ quiet' = (plan = block)
  /\ UNCHANGED <<schema, wo, block, bounds>>

Next ==
  \/ \E b \in Blocks : Edit(b)
  \/ OthersMerge \/ OthersRemove
  \/ Start \/ Read \/ ModifyPlan \/ NoChanges \/ Apply

Spec == Init /\ [][Next]_vars

-----------------------------------------------------------------------------
(* What ManifestTrees sees of this *)

\* The label of a place: a number is the same whether it is one, a float or a numeral.
Label(x) ==
  CASE x[1] = "gomap" -> AMap
    [] x[1] = "slice" -> AList
    [] x = Nil -> ANull
    [] x[1] \in {"int64", "float64"} -> <<"number", x[2]>>
    [] x[1] = "string" /\ IsNumeral(x[2]) -> <<"number", Parsed(x[2])>>
    [] OTHER -> x

\* A Go value place by place; the place of an element is the numeral of its index.
RECURSIVE Laid(_)
Laid(x) ==
  LET keys == IF x[1] \in {"gomap", "slice"} THEN DOMAIN x[2] ELSE {}
      name(k) == IF x[1] = "slice" THEN ToString(k - 1) ELSE k
      key == [n \in {name(k) : k \in keys} |-> CHOOSE k \in keys : name(k) = n] @@ <<>>
      child == [n \in DOMAIN key |-> Laid(x[2][key[n]])] @@ <<>>
  IN [p \in UNION {{<<n>> \o q : q \in DOMAIN child[n]} : n \in DOMAIN key} |->
        child[p[1]][Tail(p)]] @@ (<<>> :> Label(x))

TreeOf(v) == Laid(Encode(v))

Trees == INSTANCE ManifestTrees WITH masked <- LeafPaths(wo)

-----------------------------------------------------------------------------
(* Properties *)

\* The places of x that are no map or list with something in it, with what is there.
RECURSIVE Leaves(_)
Leaves(x) ==
  IF x[1] \in {"gomap", "slice"} /\ DOMAIN x[2] # {}
  THEN UNION {{<<<<k>> \o l[1], l[2]>> : l \in Leaves(x[2][k])} : k \in DOMAIN x[2]}
  ELSE {<<<<>>, x>>}

\* What x has at a place, of a list too.
RECURSIVE Walk(_, _)
Walk(x, p) ==
  IF p = <<>> THEN x
  ELSE IF x[1] \in {"gomap", "slice"} /\ p[1] \in DOMAIN x[2] THEN Walk(x[2][p[1]], Tail(p))
  ELSE Absent

\* The keys of the overlay's leaves, which end at a list.
RECURSIVE KeyPaths(_)
KeyPaths(m) ==
  UNION {IF m[2][k][1] = "gomap" THEN {<<k>> \o p : p \in KeyPaths(m[2][k])} ELSE {<<k>>} :
         k \in DOMAIN m[2]}

\* A number is the same whether it is kept as one, as a float or as a numeral.
Same(x, y) ==
  \/ x = y
  \/ /\ {x[1], y[1]} \subseteq {"int64", "float64", "string"}
     /\ LET number(z) == IF z[1] # "string" THEN {z[2]}
                         ELSE IF IsNumeral(z[2]) THEN {Parsed(z[2])} ELSE {}
        IN number(x) = number(y) /\ number(x) # {}

\* What manifest_wo sets does not come back in object ("Values are not persisted in
\* Terraform state", docs/resources/manifest.md:778).
ObjectHidesSecrets == state # None => ~Holds(TreeOf(state.object), Secret)

\* deepMergeMaps: what is sent has each leaf of manifest_wo, each leaf of the manifest
\* that is not in one of their places, and nothing else.
OverlayWins ==
  pc = "planned" =>
    LET mine == Leaves(Encode(plan))
        over == IF DOMAIN wo[2] = {} THEN {} ELSE Leaves(wo)
        apart(l) == \A q \in KeyPaths(wo) : l[1] \notin Prefixes(q) /\ q \notin Prefixes(l[1])
    IN Leaves(Injected(plan)) = over \cup {l \in mine : apart(l)}

\* A manifest whose spelling a Read does not bring back: a null, an empty map or list of
\* the typed kind, a set.
RECURSIVE Awkward(_)
Awkward(v) ==
  \/ v[1] \in {"null", "set"}
  \/ v[1] \in {"map", "list"} /\ DOMAIN v[2] = {}
  \/ IsContainer(v) /\ \E k \in DOMAIN v[2] : Awkward(v[2][k])

\* It makes no difference to the state whether the type was found in the OpenAPI
\* document: the one reader stands in for the other, as readManifest lets it, without
\* leaving a change behind.  Only where the manifest had a null they may differ.
ReadersAgree ==
  pc = "idle" /\ state # None /\ (\A l \in Leaves(sent) : l[2] # Nil) =>
    ReconciledWith(state.manifest, ReadManifest(object))
      = ReconciledWith(state.manifest, ReadBasic(object))

\* After an apply, while nobody touches block or object, the next plan is without changes
\* down to the kinds of containers ("causing spurious hasChange=true", conversion.go:240).
AppliedIsNoDiff ==
  quiet /\ pc = "planned" /\ state # None =>
    plan = state.manifest \/ Awkward(block) \/ Shadowed(TreeOf(block), TreeOf(wo))

\* The block spells a container in another way than the state does.
Respelled == Preserving(Encode(state.manifest), block) # state.manifest

\* Terraform accepts the plan: it is the block or the prior state and no hybrid of them
\* (manifest_resource.go:1873-1879), and to the last type, unless the block now spells a
\* container in another way.
PlanIsAccepted ==
  pc = "planned" /\ plan # block =>
    /\ state # None /\ Encode(plan) = Encode(state.manifest)
    /\ plan = state.manifest \/ Respelled

\* ValueToType changes nothing of what ToTFValue has typed, and refuses none of it: it is
\* never why the plan goes without the API server's types.
MorphAccepts ==
  schema # None /\ pc = "planned" =>
    LET v == ToTF(Encode(block), Type, FALSE) IN ~Failed(v) => ValueToType(v, Type) = v

\* The data source shows each scalar that is in the API server, in its place, and nothing
\* but nulls beside them.  The schema has all the fields but those under status.
DataSourceShowsCluster ==
  object # None /\ pc = "idle" =>
    LET shown == Encode(DataObject(object))
    IN /\ \A l \in Leaves(shown) : l[2] = Nil \/ Same(l[2], Walk(object, l[1]))
       /\ \A l \in Leaves(object) :
            \/ l[1][1] = "status" \/ l[2][1] \in {"gomap", "slice"}
            \/ Same(l[2], Walk(shown, l[1]))

\* On the trees of its values this module does what ManifestTrees lets it do: each walk of
\* the code over maps and lists comes to what is said there of places.
TreesKept == Trees!Spec
==============================================================================
