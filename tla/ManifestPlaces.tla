--------------------------- MODULE ManifestPlaces ---------------------------
(***************************************************************************)
(* The values of a manifest place by place, and what the provider promises *)
(* of them.  A value has a tree: a function from its places, the sequences *)
(* of keys that lead to them, to what is there, AMap, AList, ANull or a    *)
(* scalar.                                                                 *)
(***************************************************************************)
EXTENDS Naturals, Sequences

CONSTANTS
  Tree(_),              \* the tree of a value
  AMap, AList, ANull,   \* labels of a tree; any other is a scalar
  Secret,               \* the scalar that only manifest_wo holds
  ServerSide,           \* paths that RemoveServerSideFields removes
  Dots,                 \* the pieces of the keys with a dot in them
  None

ASSUME LabelsAssumption ==
  AMap # AList /\ ANull \notin {AMap, AList} /\ Secret \notin {AMap, AList, ANull}

VARIABLES
  wo,      \* manifest_wo
  block,   \* the manifest the user has written
  object,  \* the object in the API server, or None
  state,   \* the Terraform state of manifest and object, or None
  plan,    \* the planned manifest, or None
  pc,
  seen,    \* ghost: what the last Read has read, None once the object has changed
  quiet    \* ghost: nothing but the provider has touched block and object since an apply

-----------------------------------------------------------------------------
(* Places *)

Paths == Seq(STRING)

\* The places above p, with p itself or without it; the one next above it.
Prefixes(p) == {SubSeq(p, 1, n) : n \in 0..Len(p)}
Ancestors(p) == {SubSeq(p, 1, n) : n \in 0..(Len(p) - 1)}
Parent(p) == SubSeq(p, 1, Len(p) - 1)

Holds(x, scalar) == \E p \in DOMAIN x : x[p] = scalar

\* The places of manifest_wo where the walk over its maps ends.
Places(w) == {q \in DOMAIN w : w[q] # AMap /\ \A r \in Ancestors(q) : w[r] = AMap}

\* The manifest has something else than a map of its own where manifest_wo has a place, or
\* the reverse.
Shadowed(m, w) == \E p \in DOMAIN m \cap DOMAIN w : m[p] # AMap \/ w[p] # AMap

\* A path that is not found again once it was joined and split.
Dotted(p) == \E i \in DOMAIN p : p[i] \in DOMAIN Dots

\* A path at or below one that a reader with a schema removes.
Overlooked(p) == Prefixes(p) \cap ServerSide # {}

-----------------------------------------------------------------------------
(* Properties *)

\* What manifest_wo sets does not come back in the state: not in object, when no key has a
\* dot in it; and in manifest only where the manifest has a value of its own in the place.
\* The paths that Create saves (extractLeafPaths), and the keys that Read keeps
\* (deepReconcileMaps), are the ones that the merge has written to.
SecretsHidden ==
  state # None =>
    /\ Holds(Tree(state.object), Secret) => \E q \in Places(Tree(wo)) : Dotted(q)
    /\ Holds(Tree(state.manifest), Secret) => Shadowed(Tree(state.manifest), Tree(wo))

\* After a Read the state has, wherever it has something and the API server too, what is
\* in the API server (deepReconcileMaps): nothing is taken from a neighbour in a list, from
\* before or from nowhere.  What RemoveServerSideFields removes is not seen to drift.
RefreshShowsCluster ==
  seen # None =>
    LET had == Tree(state.manifest)  there == Tree(object)
    IN \A p \in DOMAIN had \cap DOMAIN there : Overlooked(p) \/ had[p] = there[p]

\* What a Read brings back as it was: a tree without nulls and lists in lists.
Plain(x) ==
  \A p \in DOMAIN x : x[p] # ANull /\ ~(p # <<>> /\ x[p] = AList /\ x[Parent(p)] = AList)

Contains(x, y) == \A p \in DOMAIN y : p \in DOMAIN x /\ x[p] = y[p]

\* After an apply, while nobody touches block or object, the object has all of the manifest
\* and of manifest_wo, and the refreshed manifest and the next plan are the block
\* (applyManifest, Read, ModifyPlan), unless manifest_wo has a place in the manifest's own.
AppliedIsKept ==
  quiet /\ Plain(Tree(block)) /\ Plain(Tree(wo)) /\ ~Shadowed(Tree(block), Tree(wo)) =>
    /\ Contains(Tree(object), Tree(block)) /\ Contains(Tree(object), Tree(wo))
    /\ Tree(state.manifest) = Tree(block)
    /\ pc = "planned" => Tree(plan) = Tree(block)
=============================================================================
