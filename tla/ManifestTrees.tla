---------------------------- MODULE ManifestTrees ----------------------------
(***************************************************************************)
(* What the provider does with the values of a manifest, place by place.   *)
(* How values are typed and spelled is left open; ManifestValues           *)
(* implements this with the types, the conversions and the walks of the    *)
(* code.                                                                   *)
(***************************************************************************)
EXTENDS ManifestPlaces

VARIABLE masked   \* the places that masking removes

vars == <<wo, masked, block, object, state, plan, seen, pc, quiet>>

-----------------------------------------------------------------------------
(* Trees *)

\* A tree has the places that lead to one of its own, and containers there.
IsTree(x) ==
  /\ x = [p \in DOMAIN x |-> x[p]] /\ DOMAIN x \subseteq Paths
  /\ \A p \in DOMAIN x : \A q \in Ancestors(p) : q \in DOMAIN x /\ x[q] \in {AMap, AList}

\* o laid over b: maps are merged, anything else is replaced.
Overlaid(b, o) ==
  LET kept == {p \in DOMAIN b : \A q \in Prefixes(p) \cap DOMAIN o : b[q] = AMap /\ o[q] = AMap}
  IN [p \in DOMAIN o \cup kept |-> IF p \in DOMAIN o THEN o[p] ELSE b[p]]

\* A place where there is something under the key of a map.
Keyed(x, q) == q # <<>> /\ x[Parent(q)] = AMap

\* x without what maps have at these places.
Pruned(x, places) ==
  [p \in {q \in DOMAIN x : \A r \in Prefixes(q) \cap places : ~Keyed(x, r)} |-> x[p]]

\* Where reconciling goes on: a map in both, a list in both that is not in a list.
Common(prior, api) ==
  {p \in DOMAIN prior \cap DOMAIN api :
     /\ prior[p] = api[p]
     /\ prior[p] = AMap \/ (prior[p] = AList /\ (p = <<>> \/ prior[Parent(p)] # AList))}

\* Where it ends and takes what the API server has.
Taken(prior, api) ==
  {p \in (DOMAIN prior \cap DOMAIN api) \ Common(prior, api) :
     api[p] # ANull /\ Ancestors(p) \subseteq Common(prior, api)}

\* The places of prior, with what api has in them.
Reconciled(prior, api) ==
  LET taken == Taken(prior, api)
      under == {p \in DOMAIN prior \cup DOMAIN api : Prefixes(p) \cap taken # {}}
  IN [p \in (DOMAIN prior \ under) \cup (DOMAIN api \cap under) |->
        IF p \in under THEN api[p] ELSE prior[p]]

\* The secret is nowhere but in the places that manifest_wo gives it, which are in maps.
Sealed(x, w) ==
  \A p \in DOMAIN x : x[p] = Secret => \E q \in Prefixes(p) \cap Places(w) : Keyed(x, q)

-----------------------------------------------------------------------------
(* What the API server and the readers may do *)

\* A reader shows what is there, and nothing else but nulls and maps that hold nothing else.
Shows(v, o) ==
  /\ IsTree(v)
  /\ \A p \in DOMAIN v : v[p] \in IF p \in DOMAIN o THEN {ANull, o[p]} ELSE {ANull, AMap}
  /\ \A p \in DOMAIN o : Overlooked(p) \/ (p \in DOMAIN v /\ v[p] = o[p])

\* What is sent as it is: not a null, and nothing in a list from which one is dropped.
Arriving(x) ==
  LET shifted == {Parent(p) : p \in {q \in DOMAIN x : x[q] = ANull}}
  IN {p \in DOMAIN x : x[p] # ANull /\ \A q \in Ancestors(p) : x[q] = AList => q \notin shifted}

\* The object n that a server-side apply of x makes of o: it has what arrives; the secret
\* is where it was, where it was sent or, in a list, beside that.
Admitted(o, x, n) ==
  /\ IsTree(n) /\ ~Holds(n, ANull)
  /\ \A p \in Arriving(x) : p \in DOMAIN n /\ n[p] = x[p]
  /\ \A p \in DOMAIN n : n[p] = Secret =>
       \/ p \in DOMAIN o /\ o[p] = Secret
       \/ \E r \in DOMAIN x :
            /\ x[r] = Secret
            /\ r = p \/ \E q \in Ancestors(p) \cap Ancestors(r) : x[q] = AList

-----------------------------------------------------------------------------

\* What a user may write, and what the API server may have.
IsBlock(b) == IsTree(b) /\ ~Holds(b, Secret)
IsObject(o) == IsTree(o) /\ ~Holds(o, ANull) /\ Sealed(o, Tree(wo))

Init ==
  /\ IsTree(Tree(wo)) /\ Tree(wo)[<<>>] = AMap /\ masked \subseteq Paths
  /\ \A q \in Places(Tree(wo)) : q \in masked \/ Dotted(q)
  /\ IsBlock(Tree(block))
  /\ object = None /\ state = None /\ plan = None /\ seen = None
  /\ pc = "idle" /\ quiet = FALSE

Edit ==
  /\ pc = "idle" /\ quiet' = FALSE
  /\ UNCHANGED <<wo, masked, object, state, plan, seen, pc>>
  /\ \E b \in {Tree(block')} : IsBlock(b)

\* Others do as they like, but do not copy the secret elsewhere.
Disturb ==
  /\ object # None /\ object' # None /\ seen' = None /\ quiet' = FALSE
  /\ UNCHANGED <<wo, masked, block, state, plan, pc>>
  /\ \E o \in {Tree(object')} : IsObject(o)

Start ==
  /\ pc = "idle" /\ state = None /\ pc' = "plan"
  /\ UNCHANGED <<wo, masked, block, object, state, plan, seen, quiet>>

Read ==
  /\ pc = "idle" /\ state # None /\ pc' = "plan" /\ seen' # None /\ state' # None
  /\ \E v \in {Tree(seen')} :
       /\ Shows(v, Tree(object))
       /\ Tree(state'.manifest) = Reconciled(Tree(state.manifest), v)
  /\ Tree(state'.object) = Pruned(Tree(object), masked)
  /\ UNCHANGED <<wo, masked, block, object, plan, quiet>>

ModifyPlan ==
  /\ pc = "plan" /\ pc' = "planned" /\ plan' # None
  /\ \/ Tree(plan') = Tree(block)
     \/ state # None /\ Tree(plan') = Tree(state.manifest)
  /\ UNCHANGED <<wo, masked, block, object, state, seen, quiet>>

NoChanges ==
  /\ pc = "planned" /\ state # None /\ plan = state.manifest
  /\ pc' = "idle" /\ plan' = None
  /\ UNCHANGED <<wo, masked, block, object, state, seen, quiet>>

\* What the API server has of an object that may not be there.
There == IF object = None THEN <<>> ELSE Tree(object)

Apply ==
  /\ pc = "planned" /\ pc' = "idle" /\ plan' = None
  /\ object' # None /\ state' # None
  /\ \E o \in {Tree(object')} :
       /\ Admitted(There, Overlaid(Tree(plan), Tree(wo)), o)
       /\ Tree(state'.object) = Pruned(o, masked)
  /\ state'.manifest = plan
  /\ seen' = None /\ quiet' \in BOOLEAN /\ (quiet' => plan = block)
  /\ UNCHANGED <<wo, masked, block>>

Next == Edit \/ Disturb \/ Start \/ Read \/ ModifyPlan \/ NoChanges \/ Apply

Spec == Init /\ [][Next]_vars
=============================================================================
