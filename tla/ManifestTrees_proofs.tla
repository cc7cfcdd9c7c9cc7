------------------------- MODULE ManifestTrees_proofs -------------------------
(***************************************************************************)
(* Proofs about ManifestTrees: manifests of any depth and width, any       *)
(* manifest_wo and any sequence of edits, disturbances and commands.  The  *)
(* only assumption is that the labels of trees are told apart.  Each step  *)
(* keeps every value a tree and the secret within the places of            *)
(* manifest_wo (TreesInv).                                                 *)
(***************************************************************************)
EXTENDS ManifestTrees, SequenceTheorems, WellFoundedInduction, TLAPS

-----------------------------------------------------------------------------
(* Places *)

\* What is above a place, by length and keys.
LEMMA PrefixesAre ==
  ASSUME NEW p \in Paths, NEW q
  PROVE  /\ q \in Prefixes(p) <=>
              q \in Paths /\ Len(q) <= Len(p) /\ \A i \in 1..Len(q) : q[i] = p[i]
         /\ q \in Ancestors(p) <=> q \in Prefixes(p) /\ Len(q) < Len(p)
<1>1. ASSUME NEW n \in 0..Len(p)
      PROVE  /\ SubSeq(p, 1, n) \in Paths /\ Len(SubSeq(p, 1, n)) = n
             /\ \A i \in 1..n : SubSeq(p, 1, n)[i] = p[i]
  <2>1. n \in Int /\ \A i \in 1..n : p[i] \in STRING
    BY DEF Paths
  <2> QED
    BY <2>1, SubSeqProperties DEF Paths
<1>2. ASSUME q \in Paths, Len(q) <= Len(p), \A i \in 1..Len(q) : q[i] = p[i]
      PROVE  q = SubSeq(p, 1, Len(q)) /\ Len(q) \in 0..Len(p)
  <2>1. Len(q) \in 0..Len(p)
    BY <1>2 DEF Paths
  <2> QED
    BY <1>1, <1>2, <2>1, SeqEqual DEF Paths
<1> QED
  BY <1>1, <1>2 DEF Prefixes, Ancestors, Paths

\* What is above a place is the place and what is strictly above it.
LEMMA PrefixFacts ==
  ASSUME NEW p \in Paths
  PROVE  /\ p \in Prefixes(p) /\ p \notin Ancestors(p)
         /\ Prefixes(p) = Ancestors(p) \cup {p}
         /\ Prefixes(p) \subseteq Paths /\ Ancestors(p) \subseteq Paths
<1>1. p \in Prefixes(p) /\ p \notin Ancestors(p)
  BY PrefixesAre DEF Paths
<1>2. ASSUME NEW q \in Prefixes(p), q \notin Ancestors(p) PROVE q = p
  <2>1. q \in Paths /\ Len(q) = Len(p) /\ \A i \in 1..Len(q) : q[i] = p[i]
    BY <1>2, PrefixesAre DEF Paths
  <2> QED
    BY <2>1, SeqEqual DEF Paths
<1>3. Ancestors(p) \subseteq Prefixes(p) /\ Prefixes(p) \subseteq Paths
  BY PrefixesAre
<1> QED
  BY <1>1, <1>2, <1>3

\* What is above a place above p is above p.
LEMMA PrefixTrans ==
  ASSUME NEW p \in Paths, NEW q \in Prefixes(p)
  PROVE  Prefixes(q) \subseteq Prefixes(p) /\ Ancestors(q) \subseteq Ancestors(p)
<1>1. q \in Paths /\ Len(q) <= Len(p) /\ \A i \in 1..Len(q) : q[i] = p[i]
  BY PrefixesAre
<1>2. ASSUME NEW r \in Prefixes(q)
      PROVE  r \in Prefixes(p) /\ (r \in Ancestors(q) => r \in Ancestors(p))
  <2>1. r \in Paths /\ Len(r) <= Len(q) /\ \A i \in 1..Len(r) : r[i] = q[i]
    BY <1>1, PrefixesAre
  <2>2. Len(r) \in Nat /\ Len(q) \in Nat /\ Len(p) \in Nat
    BY <1>1, <2>1 DEF Paths
  <2>3. \A i \in 1..Len(r) : r[i] = p[i]
    BY <1>1, <2>1, <2>2
  <2>4. r \in Prefixes(p)
    BY <1>1, <2>1, <2>2, <2>3, PrefixesAre
  <2>5. r \in Ancestors(q) => Len(r) < Len(q)
    BY <1>1, PrefixesAre
  <2> QED
    BY <1>1, <2>2, <2>4, <2>5, PrefixesAre
<1> QED
  BY <1>1, <1>2, PrefixFacts

\* Of two places above p one is above the other.
LEMMA PrefixTotal ==
  ASSUME NEW p \in Paths, NEW q \in Prefixes(p), NEW r \in Prefixes(p)
  PROVE  q \in Prefixes(r) \/ r \in Ancestors(q)
<1>1. /\ q \in Paths /\ Len(q) <= Len(p) /\ \A i \in 1..Len(q) : q[i] = p[i]
      /\ r \in Paths /\ Len(r) <= Len(p) /\ \A i \in 1..Len(r) : r[i] = p[i]
  BY PrefixesAre
<1>2. Len(r) \in Nat /\ Len(q) \in Nat
  BY <1>1 DEF Paths
<1>3. CASE Len(q) <= Len(r)
  <2>1. \A i \in 1..Len(q) : q[i] = r[i]
    BY <1>1, <1>2, <1>3
  <2> QED
    BY <1>1, <1>3, <2>1, PrefixesAre
<1>4. CASE Len(r) < Len(q)
  <2>1. \A i \in 1..Len(r) : q[i] = r[i]
    BY <1>1, <1>2, <1>4
  <2> QED
    BY <1>1, <1>2, <1>4, <2>1, PrefixesAre
<1> QED
  BY <1>2, <1>3, <1>4

\* Of the places above p with some property there is a topmost one.
LEMMA Topmost ==
  ASSUME NEW p \in Paths, NEW S, NEW s \in Prefixes(p) \cap S
  PROVE  \E q \in Prefixes(p) \cap S : Ancestors(q) \cap S = {}
<1> DEFINE T == {Len(q) : q \in Prefixes(p) \cap S}
           Less == {ss \in Nat \X Nat : ss[1] < ss[2]}
<1>1. \A q \in Prefixes(p) : q \in Paths /\ Len(q) \in Nat
  BY PrefixFacts DEF Paths
<1>2. IsWellFoundedOn(Less, Nat)
  BY NatLessThanWellFounded DEF OpToRel
<1>3. T \subseteq Nat /\ T # {}
  BY <1>1
<1>4. PICK n \in T : \A m \in T : <<m, n>> \notin Less
  BY <1>2, <1>3, WFMin
<1>5. PICK q \in Prefixes(p) \cap S : Len(q) = n
  BY <1>4
<1>6. ASSUME NEW r \in Ancestors(q) \cap S PROVE FALSE
  <2>1. r \in Prefixes(p) /\ Len(r) < Len(q)
    BY <1>1, <1>5, PrefixTrans, PrefixFacts, PrefixesAre
  <2>2. Len(r) \in T
    BY <2>1
  <2> QED
    BY <1>1, <1>4, <1>5, <2>1, <2>2
<1> QED
  BY <1>5, <1>6

\* The place next above is above.
LEMMA ParentFacts ==
  ASSUME NEW p \in Paths, p # <<>>
  PROVE  Parent(p) \in Ancestors(p)
BY DEF Parent, Ancestors, Paths

-----------------------------------------------------------------------------
(* Trees *)

\* A tree has what is above its places.
LEMMA TreeUp ==
  ASSUME NEW x, IsTree(x), NEW p \in DOMAIN x
  PROVE  /\ p \in Paths /\ Prefixes(p) \subseteq DOMAIN x
         /\ \A q \in Ancestors(p) : x[q] \in {AMap, AList}
BY PrefixFacts DEF IsTree

\* Below or at each value of manifest_wo that is no map there is one of its places.
LEMMA PlaceAbove ==
  ASSUME NEW w, IsTree(w), NEW p \in DOMAIN w, w[p] # AMap
  PROVE  Prefixes(p) \cap Places(w) # {}
<1> DEFINE S == {q \in DOMAIN w : w[q] # AMap}
<1>1. p \in Paths /\ p \in Prefixes(p) /\ Prefixes(p) \subseteq DOMAIN w
  BY TreeUp, PrefixFacts
<1>2. PICK q \in Prefixes(p) \cap S : Ancestors(q) \cap S = {}
  <2>1. p \in Prefixes(p) \cap S
    BY <1>1
  <2> HIDE DEF S
  <2> QED
    BY <1>1, <2>1, Topmost
<1>3. Ancestors(q) \subseteq DOMAIN w
  BY <1>1, <1>2, TreeUp, PrefixFacts
<1> QED
  BY <1>1, <1>2, <1>3 DEF Places

\* Laid one over the other, trees make a tree.
LEMMA OverlaidTree ==
  ASSUME NEW b, NEW o, IsTree(b), IsTree(o)
  PROVE  IsTree(Overlaid(b, o))
<1> DEFINE kept == {p \in DOMAIN b : \A q \in Prefixes(p) \cap DOMAIN o : b[q] = AMap /\ o[q] = AMap}
           x == Overlaid(b, o)
<1>1. DOMAIN x = DOMAIN o \cup kept /\ x = [p \in DOMAIN x |-> x[p]]
  BY DEF Overlaid
<1>2. \A p \in DOMAIN x : x[p] = IF p \in DOMAIN o THEN o[p] ELSE b[p]
  BY DEF Overlaid
<1>3. DOMAIN x \subseteq Paths
  BY <1>1 DEF IsTree
<1>4. ASSUME NEW p \in DOMAIN x, NEW q \in Ancestors(p)
      PROVE  q \in DOMAIN x /\ x[q] \in {AMap, AList}
  <2>1. p \in Paths /\ q \in Prefixes(p) /\ q \in Prefixes(q)
    BY <1>3, PrefixFacts
  <2>2. CASE p \in DOMAIN o
    BY <1>1, <1>2, <2>2 DEF IsTree
  <2>3. CASE p \in kept /\ q \in DOMAIN o
    BY <1>1, <1>2, <2>1, <2>3
  <2>4. CASE p \in kept /\ q \notin DOMAIN o
    <3>1. q \in DOMAIN b /\ b[q] \in {AMap, AList} /\ Prefixes(q) \subseteq Prefixes(p)
      BY <2>1, <2>4, PrefixTrans DEF IsTree
    <3>2. q \in kept
      BY <2>4, <3>1
    <3> QED
      BY <1>1, <1>2, <2>4, <3>1, <3>2
  <2> QED
    BY <1>1, <2>2, <2>3, <2>4
<1> HIDE DEF x, kept
<1> QED
  BY <1>1, <1>3, <1>4 DEF IsTree, x

\* Above its places manifest_wo has maps.
LEMMA PlacesAre ==
  ASSUME NEW w, IsTree(w), w[<<>>] = AMap, NEW c \in Places(w)
  PROVE  /\ c \in Paths /\ c # <<>> /\ Parent(c) \in Ancestors(c)
         /\ \A q \in Ancestors(c) : q \in DOMAIN w /\ w[q] = AMap
<1>1. c \in DOMAIN w /\ c \in Paths /\ c # <<>>
  BY TreeUp DEF Places
<1> QED
  BY <1>1, TreeUp, PrefixFacts, ParentFacts DEF Places

\* What is laid over a tree keeps the secret in the places of manifest_wo.
LEMMA OverlaidSealed ==
  ASSUME NEW b, NEW w, IsTree(w), w[<<>>] = AMap, Sealed(b, w)
  PROVE  Sealed(Overlaid(b, w), w)
<1> DEFINE x == Overlaid(b, w)
<1> SUFFICES ASSUME NEW p \in DOMAIN x, x[p] = Secret
             PROVE  \E q \in Prefixes(p) \cap Places(w) : Keyed(x, q)
  BY DEF Sealed
<1>1. PICK q \in Prefixes(p) : q \in Places(w)
  <2>1. CASE p \in DOMAIN w
    BY <2>1, PlaceAbove, LabelsAssumption DEF Overlaid
  <2>2. CASE p \notin DOMAIN w
    BY <2>2 DEF Overlaid, Sealed
  <2> QED
    BY <2>1, <2>2
<1>2. q # <<>> /\ Parent(q) \in DOMAIN w /\ w[Parent(q)] = AMap
  BY <1>1, PlacesAre
<1>3. x[Parent(q)] = AMap
  BY <1>2 DEF Overlaid
<1> HIDE DEF x
<1> QED
  BY <1>1, <1>2, <1>3 DEF Keyed

\* So does what the API server makes of it: in a list that is sent everything may move, but
\* no place of manifest_wo lies below a list.
LEMMA AdmittedSealed ==
  ASSUME NEW b, NEW w, NEW o, NEW n, IsTree(b), IsTree(w), w[<<>>] = AMap,
         Sealed(b, w), Sealed(o, w), Admitted(o, Overlaid(b, w), n)
  PROVE  Sealed(n, w)
<1> DEFINE x == Overlaid(b, w)
<1>1. Sealed(x, w) /\ IsTree(x)
  BY OverlaidSealed, OverlaidTree
<1>2. \A p \in DOMAIN w : p \in DOMAIN x /\ x[p] = w[p]
  BY DEF Overlaid
<1> HIDE DEF x
<1> SUFFICES ASSUME NEW p \in DOMAIN n, n[p] = Secret
             PROVE  \E q \in Prefixes(p) \cap Places(w) : Keyed(n, q)
  BY DEF Sealed
<1>3. PICK c \in Prefixes(p) : c \in Places(w)
  <2>1. CASE p \in DOMAIN o /\ o[p] = Secret
    BY <2>1 DEF Sealed
  <2>2. CASE p \in DOMAIN x /\ x[p] = Secret
    BY <1>1, <2>2 DEF Sealed
  <2>3. ASSUME NEW r \in DOMAIN x, x[r] = Secret,
               NEW q \in Ancestors(p) \cap Ancestors(r), x[q] = AList
        PROVE  Prefixes(p) \cap Places(w) # {}
    <3>1. p \in Paths /\ r \in Paths
      BY <1>1 DEF Admitted, IsTree
    <3>2. PICK e \in Prefixes(r) : e \in Places(w)
      BY <1>1, <2>3 DEF Sealed
    <3>3. q \in Prefixes(r) /\ q \in Prefixes(p)
      BY <2>3, <3>1, PrefixFacts
    <3>4. q \notin Ancestors(e)
      BY <1>2, <2>3, <3>2, PlacesAre, LabelsAssumption
    <3>5. e \in Prefixes(q)
      BY <3>1, <3>2, <3>3, <3>4, PrefixTotal
    <3> QED
      BY <3>1, <3>2, <3>3, <3>5, PrefixTrans
  <2> QED
    BY <2>1, <2>2, <2>3 DEF Admitted, x
<1>4. c \in Paths /\ c # <<>> /\ Parent(c) \in Ancestors(c)
  BY <1>3, PlacesAre
<1>5. \A q \in Ancestors(c) : q \in DOMAIN x /\ x[q] = AMap
  BY <1>2, <1>3, PlacesAre
<1>6. Parent(c) \in Paths /\ Ancestors(Parent(c)) \subseteq Ancestors(c)
  BY <1>4, PrefixFacts, PrefixTrans
<1>7. Parent(c) \in Arriving(x)
  BY <1>4, <1>5, <1>6, LabelsAssumption DEF Arriving
<1>8. n[Parent(c)] = AMap
  BY <1>4, <1>5, <1>7 DEF Admitted, x
<1> QED
  BY <1>3, <1>4, <1>8 DEF Keyed

\* What is left of a tree is a tree.
LEMMA PrunedTree ==
  ASSUME NEW x, IsTree(x), NEW places
  PROVE  /\ IsTree(Pruned(x, places))
         /\ \A p \in DOMAIN Pruned(x, places) :
              /\ p \in DOMAIN x /\ Pruned(x, places)[p] = x[p]
              /\ \A r \in Prefixes(p) \cap places : ~Keyed(x, r)
<1> DEFINE y == Pruned(x, places)
<1>1. /\ DOMAIN y = {q \in DOMAIN x : \A r \in Prefixes(q) \cap places : ~Keyed(x, r)}
      /\ y = [p \in DOMAIN y |-> y[p]]
  BY DEF Pruned
<1>2. \A p \in DOMAIN y : y[p] = x[p]
  BY DEF Pruned
<1>3. ASSUME NEW p \in DOMAIN y, NEW q \in Ancestors(p)
      PROVE  q \in DOMAIN y /\ y[q] \in {AMap, AList}
  <2>1. p \in DOMAIN x /\ p \in Paths /\ q \in Prefixes(p) /\ q \in DOMAIN x /\ x[q] \in {AMap, AList}
    BY <1>1, PrefixFacts DEF IsTree
  <2>2. \A r \in Prefixes(q) \cap places : ~Keyed(x, r)
    BY <1>1, <2>1, PrefixTrans
  <2> QED
    BY <1>1, <1>2, <2>1, <2>2
<1>4. DOMAIN y \subseteq Paths
  BY <1>1 DEF IsTree
<1> HIDE DEF y
<1> QED
  BY <1>1, <1>2, <1>3, <1>4 DEF IsTree, y

\* It keeps the secret in the places of manifest_wo, and maps have nothing of it at the
\* places that were removed.
LEMMA PrunedSealed ==
  ASSUME NEW x, IsTree(x), NEW w, NEW places, Sealed(x, w)
  PROVE  /\ Sealed(Pruned(x, places), w)
         /\ \A p \in DOMAIN Pruned(x, places) :
              \A r \in Prefixes(p) \cap places : ~Keyed(Pruned(x, places), r)
<1> DEFINE y == Pruned(x, places)
<1>1. /\ IsTree(y)
      /\ \A p \in DOMAIN y : /\ p \in DOMAIN x /\ y[p] = x[p]
                            /\ \A r \in Prefixes(p) \cap places : ~Keyed(x, r)
  BY PrunedTree
<1> HIDE DEF y
<1>2. ASSUME NEW p \in DOMAIN y, NEW q \in Prefixes(p) PROVE Keyed(y, q) <=> Keyed(x, q)
  <2>1. p \in Paths /\ q \in DOMAIN y /\ q \in Paths
    BY <1>1, TreeUp, PrefixFacts
  <2>2. q # <<>> => Parent(q) \in DOMAIN y
    BY <1>1, <2>1, TreeUp, PrefixFacts, ParentFacts
  <2> QED
    BY <1>1, <2>2 DEF Keyed
<1> QED
  BY <1>1, <1>2 DEF Sealed, y

-----------------------------------------------------------------------------
(* Reconciling *)

\* The places where reconciling takes what the API server has.
Under(prior, api) ==
  {p \in DOMAIN prior \cup DOMAIN api : Prefixes(p) \cap Taken(prior, api) # {}}

\* What reconciling makes, without its local definitions.
LEMMA ReconciledAt ==
  ASSUME NEW prior, NEW api
  PROVE  /\ DOMAIN Reconciled(prior, api) =
               (DOMAIN prior \ Under(prior, api)) \cup (DOMAIN api \cap Under(prior, api))
         /\ \A p \in DOMAIN Reconciled(prior, api) :
              Reconciled(prior, api)[p] = IF p \in Under(prior, api) THEN api[p] ELSE prior[p]
BY DEF Reconciled, Under

\* At and below the places it is taken from there is nothing to go on with.
LEMMA TakenFacts ==
  ASSUME NEW prior, NEW api, NEW c \in Taken(prior, api)
  PROVE  /\ c \in DOMAIN prior /\ c \in DOMAIN api /\ api[c] # ANull
         /\ c \notin Common(prior, api) /\ Ancestors(c) \subseteq Common(prior, api)
         /\ Ancestors(c) \cap Taken(prior, api) = {}
BY DEF Taken

\* Reconciling two trees makes a tree.
LEMMA ReconciledTree ==
  ASSUME NEW prior, NEW api, IsTree(prior), IsTree(api)
  PROVE  IsTree(Reconciled(prior, api))
<1> DEFINE r == Reconciled(prior, api)
           under == Under(prior, api)
           taken == Taken(prior, api)
<1>1. /\ DOMAIN r = (DOMAIN prior \ under) \cup (DOMAIN api \cap under)
      /\ \A p \in DOMAIN r : r[p] = IF p \in under THEN api[p] ELSE prior[p]
  BY ReconciledAt
<1>f. r = [p \in DOMAIN r |-> r[p]]
  BY DEF Reconciled
<1>2. under = {p \in DOMAIN prior \cup DOMAIN api : Prefixes(p) \cap taken # {}}
  BY DEF Under
<1> HIDE DEF r, under
<1>3. DOMAIN r \subseteq Paths
  BY <1>1 DEF IsTree
<1>4. ASSUME NEW p \in DOMAIN r, NEW q \in Ancestors(p)
      PROVE  q \in DOMAIN r /\ r[q] \in {AMap, AList}
  <2>1. p \in Paths /\ q \in Prefixes(p) /\ q \in Paths
    BY <1>3, PrefixFacts
  <2>2. CASE p \notin under
    <3>1. p \in DOMAIN prior /\ q \in DOMAIN prior /\ prior[q] \in {AMap, AList}
      BY <1>1, <2>2 DEF IsTree
    <3>2. q \notin under
      BY <1>2, <2>1, <2>2, <3>1, PrefixTrans
    <3> QED
      BY <1>1, <3>1, <3>2
  <2>3. CASE p \in under
    <3>1. p \in DOMAIN api /\ q \in DOMAIN api /\ api[q] \in {AMap, AList}
      BY <1>1, <2>3 DEF IsTree
    <3>2. CASE q \in under
      BY <1>1, <3>1, <3>2
    <3>3. CASE q \notin under
      <4>1. PICK c \in Prefixes(p) : c \in taken
        BY <1>2, <2>3
      <4>2. c \notin Prefixes(q)
        BY <1>2, <3>1, <3>3, <4>1
      <4>3. q \in Ancestors(c)
        BY <2>1, <4>1, <4>2, PrefixTotal
      <4>4. q \in Common(prior, api)
        BY <4>1, <4>3, TakenFacts
      <4>5. q \in DOMAIN prior /\ prior[q] = api[q]
        BY <4>4 DEF Common
      <4> QED
        BY <1>1, <3>1, <3>3, <4>5
    <3> QED
      BY <3>2, <3>3
  <2> QED
    BY <2>2, <2>3
<1> QED
  BY <1>1, <1>f, <1>3, <1>4 DEF IsTree, r

\* A reader shows the secret only where it is, so that it comes to no other place.
LEMMA ReconciledSealed ==
  ASSUME NEW m, NEW v, NEW o, NEW w, IsTree(m), IsTree(v), IsTree(w), w[<<>>] = AMap,
         Sealed(m, w), Sealed(o, w), Shows(v, o)
  PROVE  Sealed(Reconciled(m, v), w)
<1> DEFINE r == Reconciled(m, v)
<1>a. /\ IsTree(r)
      /\ \A p \in DOMAIN r : IF p \in Under(m, v) THEN p \in DOMAIN v /\ r[p] = v[p]
                                                 ELSE p \in DOMAIN m /\ r[p] = m[p]
  <2>1. DOMAIN r = (DOMAIN m \ Under(m, v)) \cup (DOMAIN v \cap Under(m, v))
    BY ReconciledAt
  <2>2. \A p \in DOMAIN r : r[p] = IF p \in Under(m, v) THEN v[p] ELSE m[p]
    BY ReconciledAt
  <2> HIDE DEF r
  <2>3. \A p \in DOMAIN r : IF p \in Under(m, v) THEN p \in DOMAIN v /\ r[p] = v[p]
                                                 ELSE p \in DOMAIN m /\ r[p] = m[p]
    BY <2>1, <2>2
  <2> QED
    BY <2>3, ReconciledTree DEF r
<1> HIDE DEF r
<1> SUFFICES ASSUME NEW p \in DOMAIN r, r[p] = Secret
             PROVE  \E q \in Prefixes(p) \cap Places(w) : Keyed(r, q)
  BY DEF Sealed, r
<1>0. /\ p \in Paths /\ Prefixes(p) \subseteq DOMAIN r
  BY <1>a, TreeUp
<1>1. CASE p \in Under(m, v)
  <2>1. p \in DOMAIN v /\ v[p] = Secret
    BY <1>a, <1>1
  <2>2. p \in DOMAIN o /\ o[p] = Secret
    BY <2>1, LabelsAssumption DEF Shows
  <2>3. PICK q \in Prefixes(p) : q \in Places(w) /\ Keyed(o, q)
    BY <2>2 DEF Sealed
  <2> DEFINE a == Parent(q)
  <2>4. q # <<>> /\ a \in Ancestors(q) /\ o[a] = AMap
    BY <2>3, PlacesAre DEF Keyed
  <2>5. a \in Ancestors(p) /\ a \in Prefixes(p)
    BY <1>0, <2>3, <2>4, PrefixTrans, PrefixFacts
  <2> HIDE DEF a
  <2>6. a \in DOMAIN v /\ v[a] = AMap
    <3>1. a \in DOMAIN v /\ v[a] \in {AMap, AList}
      BY <2>1, <2>5 DEF IsTree
    <3> QED
      BY <2>4, <3>1, LabelsAssumption DEF Shows
  <2>7. CASE a \in Under(m, v)
    BY <1>0, <1>a, <2>3, <2>4, <2>5, <2>6, <2>7 DEF Keyed, a
  <2>8. CASE a \notin Under(m, v)
    <3>1. PICK c \in Prefixes(p) : c \in Taken(m, v)
      BY <1>1 DEF Under
    <3>2. c \notin Prefixes(a)
      BY <2>6, <2>8, <3>1 DEF Under
    <3>3. a \in Ancestors(c)
      BY <1>0, <2>5, <3>1, <3>2, PrefixTotal
    <3>4. a \in Common(m, v)
      BY <3>1, <3>3, TakenFacts
    <3>5. m[a] = AMap
      BY <2>6, <3>4 DEF Common
    <3> QED
      BY <1>0, <1>a, <2>3, <2>4, <2>5, <2>8, <3>5 DEF Keyed, a
  <2> QED
    BY <2>7, <2>8
<1>2. CASE p \notin Under(m, v)
  <2>1. p \in DOMAIN m /\ m[p] = Secret
    BY <1>a, <1>2
  <2>2. PICK q \in Prefixes(p) : q \in Places(w) /\ Keyed(m, q)
    BY <2>1 DEF Sealed
  <2> DEFINE a == Parent(q)
  <2>3. q # <<>> /\ a \in Ancestors(q) /\ m[a] = AMap
    BY <2>2, PlacesAre DEF Keyed
  <2>4. a \in Prefixes(p)
    BY <1>0, <2>2, <2>3, PrefixTrans, PrefixFacts
  <2> HIDE DEF a
  <2>5. a \notin Under(m, v)
    BY <1>0, <1>2, <2>1, <2>4, PrefixTrans DEF Under
  <2> QED
    BY <1>0, <1>a, <2>2, <2>3, <2>4, <2>5 DEF Keyed, a
<1> QED
  BY <1>1, <1>2

\* Where both have something, reconciling ends at it or above it, or they have the same.
LEMMA ReconciledShows ==
  ASSUME NEW m, NEW v, NEW o, IsTree(m), IsTree(v), ~Holds(o, ANull), Shows(v, o),
         NEW p \in DOMAIN Reconciled(m, v) \cap DOMAIN o, ~Overlooked(p)
  PROVE  Reconciled(m, v)[p] = o[p]
<1> DEFINE r == Reconciled(m, v)
           S == DOMAIN m \ Common(m, v)
<1>1. p \in DOMAIN v /\ v[p] = o[p] /\ v[p] # ANull
  BY DEF Shows, Holds
<1>0. /\ p \in Under(m, v) => r[p] = v[p]
      /\ p \notin Under(m, v) => p \in DOMAIN m /\ r[p] = m[p]
  BY ReconciledAt
<1>2. CASE p \in Under(m, v)
  BY <1>0, <1>1, <1>2
<1>3. CASE p \notin Under(m, v)
  <2>1. p \in DOMAIN m /\ r[p] = m[p]
    BY <1>0, <1>3
  <2>2. CASE p \in Common(m, v)
    BY <1>1, <2>1, <2>2 DEF Common
  <2>3. CASE p \notin Common(m, v)
    <3>1. p \in Paths /\ p \in Prefixes(p)
      BY <2>1, TreeUp, PrefixFacts
    <3>2. p \in Prefixes(p) \cap S
      BY <2>1, <2>3, <3>1
    <3> HIDE DEF S
    <3>3. PICK q \in Prefixes(p) \cap S : Ancestors(q) \cap S = {}
      BY <3>1, <3>2, Topmost
    <3>4. q \in DOMAIN m /\ q \in DOMAIN v /\ Ancestors(q) \subseteq DOMAIN m
      BY <1>1, <2>1, <3>3, TreeUp, PrefixFacts
    <3>5. v[q] # ANull
      BY <1>1, <3>1, <3>3, TreeUp, PrefixFacts, LabelsAssumption
    <3>6. q \in Taken(m, v)
      BY <3>3, <3>4, <3>5 DEF Taken, S
    <3> QED
      BY <1>3, <2>1, <3>3, <3>6 DEF Under
  <2> QED
    BY <2>2, <2>3
<1> QED
  BY <1>2, <1>3

\* A tree that the object has, and that is plain, is read back as it is.
LEMMA ReconciledSame ==
  ASSUME NEW b, NEW v, NEW o, IsTree(b), IsTree(v), Shows(v, o),
         Plain(b), Contains(o, b)
  PROVE  Reconciled(b, v) = b
<1> DEFINE r == Reconciled(b, v)
           under == Under(b, v)
<1>1. ASSUME NEW c \in Taken(b, v)
      PROVE  c \in DOMAIN b /\ c \in DOMAIN v /\ v[c] = b[c] /\ b[c] \notin {AMap, AList}
  <2>1. /\ c \in DOMAIN b /\ c \in DOMAIN v /\ v[c] # ANull /\ c \notin Common(b, v)
    BY <1>1, TakenFacts
  <2>2. v[c] = b[c]
    BY <2>1 DEF Contains, Shows
  <2>3. b[c] # AMap /\ ~(b[c] = AList /\ (c = <<>> \/ b[Parent(c)] # AList))
    BY <2>1, <2>2 DEF Common
  <2> QED
    BY <2>1, <2>2, <2>3 DEF Plain
<1>2. ASSUME NEW p \in under
      PROVE  p \in DOMAIN b /\ p \in DOMAIN v /\ v[p] = b[p]
  <2>1. PICK c \in Prefixes(p) : c \in Taken(b, v)
    BY DEF Under
  <2>2. p \in Paths /\ (p \in DOMAIN b \/ p \in DOMAIN v)
    BY DEF Under, IsTree
  <2>3. c \notin Ancestors(p)
    BY <1>1, <2>1, <2>2 DEF IsTree
  <2>4. c = p
    BY <2>1, <2>2, <2>3, PrefixFacts
  <2> QED
    BY <1>1, <2>1, <2>4
<1>3. /\ DOMAIN r = (DOMAIN b \ under) \cup (DOMAIN v \cap under)
      /\ \A p \in DOMAIN r : r[p] = IF p \in under THEN v[p] ELSE b[p]
  BY ReconciledAt
<1>f. r = [p \in DOMAIN r |-> r[p]]
  BY DEF Reconciled
<1> HIDE DEF r, under
<1>4. DOMAIN r = DOMAIN b
  BY <1>2, <1>3
<1>5. \A p \in DOMAIN b : r[p] = b[p]
  BY <1>2, <1>3, <1>4
<1>6. b = [p \in DOMAIN b |-> b[p]]
  BY DEF IsTree
<1> QED
  BY <1>f, <1>4, <1>5, <1>6 DEF r

\* An apply brings all of a plain manifest and of manifest_wo to the object.
LEMMA AdmittedContains ==
  ASSUME NEW b, NEW w, NEW o, NEW n, IsTree(b), IsTree(w), Plain(b), Plain(w), ~Shadowed(b, w),
         Admitted(o, Overlaid(b, w), n)
  PROVE  Contains(n, b) /\ Contains(n, w)
<1> DEFINE x == Overlaid(b, w)
<1>1. \A p \in DOMAIN w : p \in DOMAIN x /\ x[p] = w[p]
  BY DEF Overlaid
<1>2. ASSUME NEW p \in DOMAIN b PROVE p \in DOMAIN x /\ x[p] = b[p]
  <2>1. \A q \in Prefixes(p) \cap DOMAIN w : b[q] = AMap /\ w[q] = AMap
    BY TreeUp DEF Shadowed
  <2>2. p \in Prefixes(p)
    BY TreeUp, PrefixFacts
  <2> QED
    BY <2>1, <2>2 DEF Overlaid
<1>3. \A p \in DOMAIN x : x[p] # ANull
  BY DEF Overlaid, Plain
<1>4. DOMAIN x = Arriving(x)
  BY <1>3 DEF Arriving
<1>5. \A p \in DOMAIN x : p \in DOMAIN n /\ n[p] = x[p]
  BY <1>4 DEF Admitted
<1> HIDE DEF x
<1> QED
  BY <1>1, <1>2, <1>5 DEF Contains

-----------------------------------------------------------------------------
(* Invariants *)

\* Every value has a tree, and what a step dereferences is there.
ShapeInv ==
  /\ IsTree(Tree(wo)) /\ Tree(wo)[<<>>] = AMap /\ IsTree(Tree(block))
  /\ object # None => IsTree(Tree(object)) /\ ~Holds(Tree(object), ANull)
  /\ state # None => /\ object # None
                     /\ IsTree(Tree(state.manifest)) /\ IsTree(Tree(state.object))
  /\ plan # None => IsTree(Tree(plan))
  /\ seen # None => state # None
  /\ pc = "planned" => plan # None
  /\ quiet => state # None

\* The secret keeps to the places of manifest_wo, wherever it may have come from there, and
\* the object in the state has nothing in the places that masking removes.
SealedInv ==
  /\ \A q \in Places(Tree(wo)) : q \in masked \/ Dotted(q)
  /\ ~Holds(Tree(block), Secret)
  /\ object # None => Sealed(Tree(object), Tree(wo))
  /\ state # None =>
       /\ Sealed(Tree(state.manifest), Tree(wo)) /\ Sealed(Tree(state.object), Tree(wo))
       /\ \A p \in DOMAIN Tree(state.object) :
            \A q \in Prefixes(p) \cap masked : ~Keyed(Tree(state.object), q)
  /\ plan # None => Sealed(Tree(plan), Tree(wo))

TreesInv == ShapeInv /\ SealedInv /\ RefreshShowsCluster /\ AppliedIsKept

\* TreesInv holds at first, and each action keeps it.
LEMMA InitTrees == Init => TreesInv
BY DEF Init, TreesInv, ShapeInv, SealedInv, RefreshShowsCluster, AppliedIsKept, IsBlock

LEMMA EditTrees == TreesInv /\ Edit => TreesInv'
BY DEF TreesInv, ShapeInv, SealedInv, RefreshShowsCluster, AppliedIsKept, Edit, IsBlock

LEMMA DisturbTrees == TreesInv /\ Disturb => TreesInv'
BY DEF TreesInv, ShapeInv, SealedInv, RefreshShowsCluster, AppliedIsKept, Disturb, IsObject

LEMMA StartTrees == TreesInv /\ Start => TreesInv'
BY DEF TreesInv, ShapeInv, SealedInv, RefreshShowsCluster, AppliedIsKept, Start

LEMMA NoChangesTrees == TreesInv /\ NoChanges => TreesInv'
BY DEF TreesInv, ShapeInv, SealedInv, RefreshShowsCluster, AppliedIsKept, NoChanges

LEMMA ModifyPlanTrees == TreesInv /\ ModifyPlan => TreesInv'
<1> SUFFICES ASSUME TreesInv, ModifyPlan PROVE TreesInv'
  OBVIOUS
<1>1. Sealed(Tree(block), Tree(wo))
  BY DEF TreesInv, SealedInv, Sealed, Holds
<1>2. ShapeInv'
  BY DEF TreesInv, ShapeInv, ModifyPlan
<1>3. SealedInv'
  BY <1>1 DEF TreesInv, ShapeInv, SealedInv, ModifyPlan
<1>4. RefreshShowsCluster' /\ AppliedIsKept'
  BY DEF TreesInv, RefreshShowsCluster, AppliedIsKept, ModifyPlan
<1> QED
  BY <1>2, <1>3, <1>4 DEF TreesInv

LEMMA ReadTrees == TreesInv /\ Read => TreesInv'
<1> SUFFICES ASSUME TreesInv, Read PROVE TreesInv'
  OBVIOUS
<1> DEFINE had == Tree(state.manifest)
           v == Tree(seen')
           o == Tree(object)
           w == Tree(wo)
<1>1. /\ state # None /\ state' # None /\ seen' # None /\ pc' = "plan" /\ Shows(v, o)
      /\ Tree(state'.manifest) = Reconciled(had, v)
      /\ Tree(state'.object) = Pruned(o, masked)
      /\ wo' = wo /\ masked' = masked /\ block' = block /\ object' = object /\ plan' = plan
      /\ quiet' = quiet
  BY DEF Read
<1>2. /\ object # None /\ IsTree(had) /\ IsTree(o) /\ IsTree(v) /\ ~Holds(o, ANull)
      /\ IsTree(w) /\ w[<<>>] = AMap
  BY <1>1 DEF TreesInv, ShapeInv, Shows
<1>3. ShapeInv'
  BY <1>1, <1>2, ReconciledTree, PrunedTree DEF TreesInv, ShapeInv
<1>4. SealedInv'
  <2>1. Sealed(had, w) /\ Sealed(o, w)
    BY <1>1, <1>2 DEF TreesInv, SealedInv
  <2>2. Sealed(Reconciled(had, v), w)
    BY <1>1, <1>2, <2>1, ReconciledSealed
  <2>3. /\ Sealed(Pruned(o, masked), w)
        /\ \A p \in DOMAIN Pruned(o, masked) :
             \A q \in Prefixes(p) \cap masked : ~Keyed(Pruned(o, masked), q)
    BY <1>2, <2>1, PrunedSealed
  <2> QED
    BY <1>1, <2>2, <2>3 DEF TreesInv, SealedInv
<1>5. RefreshShowsCluster'
  <2>1. \A p \in DOMAIN Reconciled(had, v) \cap DOMAIN o :
          ~Overlooked(p) => Reconciled(had, v)[p] = o[p]
    BY <1>1, <1>2, ReconciledShows
  <2> QED
    BY <1>1, <2>1 DEF RefreshShowsCluster
<1>6. AppliedIsKept'
  <2> SUFFICES ASSUME quiet, Plain(Tree(block)), Plain(w), ~Shadowed(Tree(block), w)
               PROVE  /\ Contains(o, Tree(block)) /\ Contains(o, w)
                      /\ Reconciled(had, v) = Tree(block)
    BY <1>1 DEF AppliedIsKept
  <2>1. Contains(o, Tree(block)) /\ Contains(o, w) /\ had = Tree(block)
    BY DEF TreesInv, AppliedIsKept
  <2>2. IsTree(Tree(block))
    BY DEF TreesInv, ShapeInv
  <2> HIDE DEF had, v, o, w
  <2> QED
    BY <1>1, <1>2, <2>1, <2>2, ReconciledSame
<1> QED
  BY <1>3, <1>4, <1>5, <1>6 DEF TreesInv

LEMMA ApplyTrees == TreesInv /\ Apply => TreesInv'
<1> SUFFICES ASSUME TreesInv, Apply PROVE TreesInv'
  OBVIOUS
<1> DEFINE b == Tree(plan)
           n == Tree(object')
           w == Tree(wo)
<1>1. /\ pc = "planned" /\ pc' = "idle" /\ plan' = None /\ object' # None /\ state' # None
      /\ Admitted(There, Overlaid(b, w), n)
      /\ state'.manifest = plan /\ Tree(state'.object) = Pruned(n, masked)
      /\ seen' = None /\ (quiet' => plan = block)
      /\ wo' = wo /\ masked' = masked /\ block' = block
  BY DEF Apply
<1>2. /\ plan # None /\ IsTree(b) /\ IsTree(n) /\ ~Holds(n, ANull)
      /\ IsTree(w) /\ w[<<>>] = AMap
  BY <1>1 DEF TreesInv, ShapeInv, Admitted
<1>3. ShapeInv'
  BY <1>1, <1>2, PrunedTree DEF TreesInv, ShapeInv
<1>4. SealedInv'
  <2>1. Sealed(b, w) /\ Sealed(There, w)
    BY <1>2 DEF TreesInv, SealedInv, There, Sealed
  <2>2. Sealed(n, w)
    BY <1>1, <1>2, <2>1, AdmittedSealed
  <2>3. /\ Sealed(Pruned(n, masked), w)
        /\ \A p \in DOMAIN Pruned(n, masked) :
             \A q \in Prefixes(p) \cap masked : ~Keyed(Pruned(n, masked), q)
    BY <1>2, <2>2, PrunedSealed
  <2> QED
    BY <1>1, <2>1, <2>2, <2>3 DEF TreesInv, SealedInv
<1>5. RefreshShowsCluster'
  BY <1>1 DEF RefreshShowsCluster
<1>6. AppliedIsKept'
  <2> SUFFICES ASSUME quiet', Plain(Tree(block)), Plain(w), ~Shadowed(Tree(block), w)
               PROVE  Contains(n, Tree(block)) /\ Contains(n, w) /\ b = Tree(block)
    BY <1>1 DEF AppliedIsKept
  <2>1. b = Tree(block)
    BY <1>1
  <2> HIDE DEF b, n, w
  <2> QED
    BY <1>1, <1>2, <2>1, AdmittedContains
<1> QED
  BY <1>3, <1>4, <1>5, <1>6 DEF TreesInv

\* TreesInv is an invariant.
LEMMA TreesAlways == Spec => []TreesInv
<1>1. TreesInv /\ UNCHANGED vars => TreesInv'
  BY DEF TreesInv, ShapeInv, SealedInv, RefreshShowsCluster, AppliedIsKept, vars
<1>2. TreesInv /\ [Next]_vars => TreesInv'
  BY <1>1, EditTrees, DisturbTrees, StartTrees, ReadTrees, ModifyPlanTrees, NoChangesTrees,
     ApplyTrees DEF Next
<1> QED
  BY <1>2, InitTrees, PTL DEF Spec

\* What manifest_wo sets does not come back in the state (maskFieldsWoPaths,
\* deepReconcileMaps): not in object, when no key has a dot in it; and in manifest only
\* where the manifest has a value of its own in the place.
THEOREM SecretsAreHidden == Spec => []SecretsHidden
<1>1. ASSUME TreesInv PROVE SecretsHidden
  <2> SUFFICES ASSUME state # None
               PROVE  /\ Holds(Tree(state.object), Secret) =>
                            \E q \in Places(Tree(wo)) : Dotted(q)
                      /\ Holds(Tree(state.manifest), Secret) =>
                            Shadowed(Tree(state.manifest), Tree(wo))
    BY DEF SecretsHidden
  <2>1. ASSUME NEW p \in DOMAIN Tree(state.object), Tree(state.object)[p] = Secret
        PROVE  \E q \in Places(Tree(wo)) : Dotted(q)
    <3>1. PICK q \in Prefixes(p) : q \in Places(Tree(wo)) /\ Keyed(Tree(state.object), q)
      BY <1>1, <2>1 DEF TreesInv, SealedInv, Sealed
    <3>2. q \notin masked
      BY <1>1, <3>1 DEF TreesInv, SealedInv
    <3> QED
      BY <1>1, <3>1, <3>2 DEF TreesInv, SealedInv
  <2>2. ASSUME NEW p \in DOMAIN Tree(state.manifest), Tree(state.manifest)[p] = Secret
        PROVE  Shadowed(Tree(state.manifest), Tree(wo))
    <3>1. PICK q \in Prefixes(p) : q \in Places(Tree(wo))
      BY <1>1, <2>2 DEF TreesInv, SealedInv, Sealed
    <3>2. q \in DOMAIN Tree(state.manifest)
      BY <1>1, <2>2, <3>1, TreeUp DEF TreesInv, ShapeInv
    <3> QED
      BY <3>1, <3>2 DEF Places, Shadowed
  <2> QED
    BY <2>1, <2>2 DEF Holds
<1> QED
  BY <1>1, TreesAlways, PTL

\* After a Read the state has, wherever it has something and the API server too, what is in
\* the API server (deepReconcileMaps, deepReconcileSlices): drift is seen, and only drift.
THEOREM RefreshesShowCluster == Spec => []RefreshShowsCluster
<1>1. TreesInv => RefreshShowsCluster
  BY DEF TreesInv
<1> QED
  BY <1>1, TreesAlways, PTL

\* After an apply, while nobody touches block or object, the object has all of the manifest
\* and of manifest_wo, and refresh and plan bring the block back (applyManifest, Read,
\* ModifyPlan).
THEOREM WhatIsAppliedIsKept == Spec => []AppliedIsKept
<1>1. TreesInv => AppliedIsKept
  BY DEF TreesInv
<1> QED
  BY <1>1, TreesAlways, PTL

-----------------------------------------------------------------------------
(* The two readers *)

\* Wherever x has a map or a list, m has the same and reconciling goes on.
Fits(m, x) == \A p \in DOMAIN m \cap DOMAIN x : x[p] \in {AMap, AList} => p \in Common(m, x)

\* What is taken from a reading of an object that fits is a scalar of the object.
LEMMA TakenScalars ==
  ASSUME NEW m, NEW v, NEW o, IsTree(m), IsTree(v), IsTree(o), ~Holds(o, ANull),
         Shows(v, o), Fits(m, v), NEW c \in Taken(m, v)
  PROVE  /\ c \in DOMAIN o /\ v[c] = o[c] /\ o[c] \notin {AMap, AList, ANull}
         /\ \A p \in DOMAIN m \cup DOMAIN v : c \in Prefixes(p) => p = c \/ p \notin DOMAIN v
<1>1. c \in DOMAIN m /\ c \in DOMAIN v /\ v[c] # ANull /\ c \notin Common(m, v)
  BY TakenFacts
<1>2. v[c] \notin {AMap, AList}
  BY <1>1 DEF Fits
<1>3. c \in DOMAIN o /\ v[c] = o[c]
  BY <1>1, <1>2 DEF Shows
<1>4. ASSUME NEW p \in DOMAIN v, c \in Prefixes(p) PROVE p = c
  BY <1>2, <1>4, TreeUp, PrefixFacts
<1> QED
  BY <1>1, <1>2, <1>3, <1>4

\* m with what o has at these places.
Refreshed(m, o, taken) ==
  [p \in {q \in DOMAIN m : Prefixes(q) \cap taken = {}} \cup taken |->
     IF p \in taken THEN o[p] ELSE m[p]]

\* Reconciling with such a reading is m, with the object's scalars where they are taken.
LEMMA ReconciledScalars ==
  ASSUME NEW m, NEW v, NEW o, IsTree(m), IsTree(v), IsTree(o), ~Holds(o, ANull),
         Shows(v, o), Fits(m, v)
  PROVE  Reconciled(m, v) = Refreshed(m, o, Taken(m, v))
<1> DEFINE taken == Taken(m, v)
           under == Under(m, v)
           above == {p \in DOMAIN m : Prefixes(p) \cap taken = {}}
           r == Reconciled(m, v)
<1>1. /\ DOMAIN r = (DOMAIN m \ under) \cup (DOMAIN v \cap under)
      /\ \A p \in DOMAIN r : r[p] = IF p \in under THEN v[p] ELSE m[p]
      /\ r = [p \in DOMAIN r |-> r[p]]
  <2>1. r = [p \in DOMAIN r |-> r[p]]
    BY DEF Reconciled
  <2> QED
    BY <2>1, ReconciledAt
<1>2. under = {p \in DOMAIN m \cup DOMAIN v : Prefixes(p) \cap taken # {}}
  BY DEF Under
<1>3. DOMAIN m \ under = above
  BY <1>2
<1>4. ASSUME NEW p \in taken PROVE p \in DOMAIN v /\ p \in Prefixes(p) /\ v[p] = o[p]
  BY <1>4, TakenFacts, TakenScalars, TreeUp, PrefixFacts
<1>5. ASSUME NEW p \in DOMAIN v \cap under PROVE p \in taken
  <2>1. PICK c \in Prefixes(p) : c \in taken
    BY <1>2
  <2> QED
    BY <2>1, TakenScalars
<1>6. DOMAIN v \cap under = taken
  BY <1>2, <1>4, <1>5
<1> HIDE DEF taken, under, r
<1>7. DOMAIN r = above \cup taken
  BY <1>1, <1>3, <1>6
<1>8. \A p \in above \cup taken : r[p] = IF p \in taken THEN o[p] ELSE m[p]
  BY <1>1, <1>3, <1>4, <1>6, <1>7
<1> QED
  BY <1>1, <1>7, <1>8 DEF r, taken, Refreshed

\* What is taken from one such reading is taken from the other.
LEMMA TakenTheSame ==
  ASSUME NEW m, NEW u, NEW v, NEW o, IsTree(m), IsTree(o), ~Holds(o, ANull),
         Shows(u, o), Shows(v, o), Fits(m, u), Fits(m, v), \A p \in DOMAIN m : ~Overlooked(p)
  PROVE  Taken(m, u) \subseteq Taken(m, v)
<1> SUFFICES ASSUME NEW c \in Taken(m, u) PROVE c \in Taken(m, v)
  OBVIOUS
<1>1. /\ c \in DOMAIN m /\ c \in DOMAIN o /\ o[c] \notin {AMap, AList, ANull}
      /\ c \in Paths /\ Ancestors(c) \subseteq DOMAIN m
  <2>1. IsTree(u)
    BY DEF Shows
  <2> QED
    BY <2>1, TakenFacts, TakenScalars, TreeUp, PrefixFacts
<1>2. c \in DOMAIN v /\ v[c] = o[c]
  BY <1>1 DEF Shows
<1>3. c \notin Common(m, v)
  BY <1>1, <1>2 DEF Common
<1>4. ASSUME NEW a \in Ancestors(c) PROVE a \in Common(m, v)
  <2>1. a \in DOMAIN m /\ a \in DOMAIN o /\ o[a] \in {AMap, AList}
    BY <1>1 DEF IsTree
  <2>2. a \in DOMAIN v /\ v[a] = o[a]
    BY <2>1 DEF Shows
  <2> QED
    BY <2>1, <2>2 DEF Fits
<1> QED
  BY <1>1, <1>2, <1>3, <1>4 DEF Taken

\* The basic reader stands in for the typed one, as readManifest lets it, without leaving a
\* change behind: two readings of an object, which may differ in the nulls and the empty
\* maps they add, are reconciled with m to the same, if neither shows a container where
\* reconciling ends and m has no place that a reader overlooks.
THEOREM ReadersAgree ==
  ASSUME NEW m, NEW u, NEW v, NEW o, IsTree(m), IsTree(o), ~Holds(o, ANull),
         Shows(u, o), Shows(v, o), Fits(m, u), Fits(m, v), \A p \in DOMAIN m : ~Overlooked(p)
  PROVE  Reconciled(m, u) = Reconciled(m, v)
<1>1. IsTree(u) /\ IsTree(v)
  BY DEF Shows
<1>2. Taken(m, u) = Taken(m, v)
  BY TakenTheSame
<1> QED
  BY <1>1, <1>2, ReconciledScalars
=============================================================================
