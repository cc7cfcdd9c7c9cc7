-------------------------- MODULE PatchOverlay_proofs --------------------------
(***************************************************************************)
(* PatchResource implements PatchOverlay where patches stay out of each    *)
(* other's way or depend on each other, for any number of resources,       *)
(* actions and others working at the same time on an object of any shape.  *)
(***************************************************************************)
EXTENDS PatchResource_proofs

\* What lets patches be layers.  A resource has one patch, of leaves that no action and
\* nobody else writes; one in the map names something that is there; of two resources that
\* name the same leaf, or write to the array, one depends on the other; an item has one
\* writer, and the action writes to the array only if no resource does; no Patch call fails.
\* Each conjunct is needed: without it a patch leaves a trace.
PatchesLayered ==
  /\ ~MayVanish /\ MaxFaults = 0
  /\ \A r \in Resources : \A p, q \in PatchesOf[r] : p = q
  /\ \A r \in Resources : \A p \in PatchesOf[r] : \A l \in Leaves :
       p.leaf[l] # Keep =>
         /\ p.leaf[l] # Null /\ l \notin OutsideLeaves /\ r \notin Legacy
         /\ \A q \in ActionPatches : q.leaf[l] = Keep
         /\ \A s \in Resources \ {r} : \A q \in PatchesOf[s] : q.leaf[l] # Keep => Ordered(r, s)
  /\ \A r \in Resources : \A p \in PatchesOf[r] : NamesMap(p) =>
       \E l \in Nested : p.leaf[l] # Keep /\ \A o \in Originals : o.leaf[l] # None
  /\ \A r \in Resources : \A p \in PatchesOf[r] : \A i \in p.items :
       /\ i \notin Whole /\ \A o \in Originals : o.items[i] = 0
       /\ \A s \in Resources \ {r} : \A q \in PatchesOf[s] : i \notin q.items
  /\ \A r, s \in Resources : \A p \in PatchesOf[r], q \in PatchesOf[s] :
       r # s /\ p.items # {} /\ q.items # {} => Ordered(r, s)
  /\ \A r \in Resources : \A p \in PatchesOf[r], q \in ActionPatches : p.items = {} \/ q.items = {}

Names(p, l) == p.leaf[l] # Keep

\* Whose patch it is.
Owned ==
  /\ \A r \in Resources :
       /\ want[r] \in PatchesOf[r] \cup {None}
       /\ state[r] # None => state[r].patch \in PatchesOf[r]
       /\ op[r] # "idle" => model[r] \in PatchesOf[r]
  /\ op["action"] # "idle" => model["action"] \in ActionPatches

\* Nothing is in the configuration or in the state without what it depends on, nor is it
\* being applied without it or reverted before what depends on it.
OrderInv == \A r \in Resources :
  /\ want[r] # None => \A s \in Below[r] : want[s] # None
  /\ state[r] # None => \A s \in Below[r] : state[s] # None
  /\ op[r] = "apply" => want[r] # None /\ \A s \in Below[r] : state[s] # None
  /\ op[r] = "revert" => /\ want[r] = None
                         /\ \A s \in Resources : r \in Below[s] => state[s] = None

\* Others leave the patches' items as they were at first.
BaseInv ==
  /\ object # None
  /\ \A r \in Resources : \A p \in PatchesOf[r] : \A i \in p.items : base.items[i] = 0

\* One of the resources has a patch that names the leaf.
Named(rs, l) == \E s \in rs : state[s] # None /\ Names(state[s].patch, l)

Above(r) == {s \in Resources : r \in Below[s]}

\* v is what the patches of these resources make of the leaf.
Shown(rs, l, v) ==
  /\ \A s \in rs : state[s] # None /\ Names(state[s].patch, l) /\ ~Named(rs \cap Above(s), l)
       => v = state[s].patch.leaf[l]
  /\ ~Named(rs, l) => v = base.leaf[l]

\* Promise!Laid.
LaidInv ==
  /\ \A l \in Leaves : Shown(Resources, l, object.leaf[l])
  /\ \A r \in Resources : state[r] # None => \A i \in state[r].patch.items : object.items[i] = 1
  /\ \A i \in Items : (\A r \in Resources : state[r] # None => i \notin state[r].patch.items) =>
       object.items[i] = base.items[i]

\* What is recorded is what there is under the patch.
Recorded(r, p, stored) ==
  \A l \in Leaves : Names(p, l) => stored # None /\ Shown(Below[r], l, stored[l])

\* The array as it is but for the items of the patch, n times each.
ArrayWith(p, n) ==
  IF p.items = {} THEN Keep ELSE [i \in Items |-> IF i \in p.items THEN n ELSE object.items[i]]

\* Between its Get and its Patch a resource holds what is still true of the object.
Applying(r) ==
  /\ state[r] = None /\ Recorded(r, model[r], pre[r])
  /\ ~payload[r].dropMap /\ payload[r].items = ArrayWith(model[r], 1)
  /\ \A l \in Leaves : payload[r].leaf[l] = model[r].leaf[l]

Reverting(r) ==
  /\ state[r] # None /\ state[r].patch = model[r]
  /\ ~payload[r].dropMap /\ payload[r].items = ArrayWith(model[r], 0)
  /\ \A l \in Leaves :
       payload[r].leaf[l] = IF ~Names(model[r], l) THEN Keep
                            ELSE IF state[r].pre[l] # None THEN state[r].pre[l] ELSE Null

Invoking ==
  /\ ~payload["action"].dropMap
  /\ payload["action"].items = MergeArrays(base, model["action"]).items
  /\ \A l \in Leaves : payload["action"].leaf[l] = Sent(model["action"], l)

Holds(r) ==
  /\ state[r] # None => Recorded(r, state[r].patch, state[r].pre)
  /\ op[r] = "apply" => Applying(r)
  /\ op[r] = "revert" => Reverting(r)

Busy == (\A r \in Resources : Holds(r)) /\ (op["action"] # "idle" => Invoking)

LayersInv == BaseInv /\ LaidInv /\ Busy

OverlayInv == Sound /\ Owned /\ OrderInv /\ LayersInv

LEMMA MapLasts ==
  ASSUME PatchesLayered, NEW r \in Resources, NEW p \in PatchesOf[r], NamesMap(p)
  PROVE  \E l \in Nested : l \in Lasting /\ Names(p, l)
<1>1. PICK l \in Nested : p.leaf[l] # Keep /\ \A o \in Originals : o.leaf[l] # None
  BY DEF PatchesLayered
<1>2. l \in Leaves /\ l \notin OutsideLeaves /\ p.leaf[l] # Null
  BY <1>1, PlacesAssumption DEF PatchesLayered
<1>3. \A s \in Resources : \A q \in PatchesOf[s] : q.leaf[l] # Null
  BY <1>2, ValuesAssumption DEF PatchesLayered
<1> QED
  BY <1>1, <1>2, <1>3 DEF Lasting, Names

LEMMA LayeredWriters == PatchesLayered => WritersApart
<1> SUFFICES ASSUME PatchesLayered PROVE WritersApart
  OBVIOUS
<1>1. ASSUME NEW a \in Actors, NEW b \in Actors, a # b, ~TakeTurns(a, b),
             NEW p \in PatchesBy(a), NEW q \in PatchesBy(b), p.items # {}, q.items # {}
      PROVE  FALSE
  BY <1>1 DEF Actors, PatchesBy, PatchesLayered, TakeTurns
<1>2. ASSUME NEW r \in Resources, NEW p \in PatchesOf[r], NamesMap(p)
      PROVE  \E l \in Nested : l \in Lasting
  BY <1>2, MapLasts
<1> QED
  BY <1>1, <1>2 DEF WritersApart, PatchesLayered

LEMMA SoundOwns == (Sound => Owned) /\ (Sound' => Owned')
BY PatchesByResource DEF Sound, RecordInv, WantInv, PlacesInv, PatchedByInv, Owned, PatchesBy, Actors

-----------------------------------------------------------------------------
(* The order *)

LEMMA BelowIsOrder ==
  \A r \in Resources : /\ Below[r] \subseteq Resources \ {r}
                       /\ \A s \in Below[r] : r \notin Below[s]
BY OrderAssumption

LEMMA NextOrder ==
  ASSUME PatchesLayered, OverlayInv, Next
  PROVE  OrderInv'
<1>0. /\ TypeInv /\ object # None /\ ~MayVanish
      /\ \A r \in Resources : r \in Actors /\ r # "action"
  BY BoundsAssumption DEF OverlayInv, Sound, LayersInv, BaseInv, PatchesLayered, Actors
<1>1. ASSUME UNCHANGED <<want, state>>, \A r \in Resources : op'[r] \in {op[r], "idle"}
      PROVE  OrderInv'
  BY <1>1 DEF OverlayInv, OrderInv
<1>2. ASSUME NEW r \in Resources, NEW p \in PatchesOf[r] \cup {None}, Edit(r, p) PROVE OrderInv'
  <2>1. UNCHANGED <<state, op>> /\ op[r] = "idle" /\ want' = [want EXCEPT ![r] = p]
    BY <1>2 DEF Edit, memory
  <2>2. ASSUME NEW q \in Resources, want'[q] # None, NEW s \in Below[q] PROVE want'[s] # None
    BY <1>0, <1>2, <2>1, <2>2, BelowIsOrder DEF OverlayInv, OrderInv, TypeInv, TypeOK, Edit
  <2>3. \A q \in Resources : op[q] # "idle" => want'[q] = want[q]
    BY <1>0, <2>1 DEF TypeInv, TypeOK
  <2> QED
    BY <2>1, <2>2, <2>3 DEF OverlayInv, OrderInv
<1>3. CASE OutsideNext
  BY <1>1, <1>3
     DEF OutsideNext, OutsideSet, OutsideDelete, OutsideCreate, Outside, memory
<1>4. CASE ActionNext
  <2>1. UNCHANGED <<want, state>> /\ \A r \in Resources : op'[r] = op[r]
    BY <1>0, <1>4 DEF ActionNext, InvokeGet, InvokePatch, Start, Forget, TypeInv, TypeOK
  <2> QED
    BY <1>1, <2>1
<1>5. ASSUME NEW r \in Resources, ApplyGet(r) PROVE OrderInv'
  <2>1. UNCHANGED <<want, state>> /\ \A q \in Resources \ {r} : op'[q] = op[q]
    BY <1>0, <1>5 DEF ApplyGet, Start, TypeInv, TypeOK
  <2>2. op'[r] = "apply" /\ want[r] # None /\ \A s \in Below[r] : state[s] # None
    BY <1>0, <1>5 DEF ApplyGet, OnTop, Start, TypeInv, TypeOK
  <2> QED
    BY <2>1, <2>2 DEF OverlayInv, OrderInv
<1>6. ASSUME NEW r \in Resources, RevertGet(r) PROVE OrderInv'
  <2>1. UNCHANGED <<want, state>> /\ \A q \in Resources \ {r} : op'[q] = op[q]
    BY <1>0, <1>6 DEF RevertGet, Start, TypeInv, TypeOK
  <2>2. op'[r] = "revert" /\ want[r] = None /\ \A s \in Resources : r \in Below[s] => state[s] = None
    BY <1>0, <1>6 DEF RevertGet, AtTop, Start, TypeInv, TypeOK
  <2> QED
    BY <2>1, <2>2 DEF OverlayInv, OrderInv
<1>7. ASSUME NEW r \in Resources, ApplyPatch(r) PROVE OrderInv'
  <2>1. /\ op[r] = "apply" /\ op'[r] = "idle" /\ UNCHANGED want
        /\ \A q \in Resources \ {r} : op'[q] = op[q]
    BY <1>0, <1>7 DEF ApplyPatch, Forget, TypeInv, TypeOK
  <2>2. CASE UNCHANGED state
    BY <1>1, <2>1, <2>2
  <2>3. CASE state' = [state EXCEPT ![r] = [patch |-> model[r], pre |-> pre[r]]]
    <3>1. /\ \A q \in Resources \ {r} : state'[q] = state[q]
          /\ \A q \in Resources : state[q] # None => state'[q] # None
      <4>1. [patch |-> model[r], pre |-> pre[r]] \in States
        BY <1>0, <2>1 DEF States, TypeInv, TypeOK, OpInv
      <4> QED
        BY <2>3, <4>1, OriginalsAssumption, <1>0 DEF TypeInv, TypeOK
    <3>2. \A q \in Below[r] : op[q] # "revert"
      BY <2>1, BelowIsOrder DEF OverlayInv, OrderInv
    <3> QED
      BY <2>1, <3>1, <3>2, BelowIsOrder DEF OverlayInv, OrderInv
  <2> QED
    BY <1>7, <2>2, <2>3 DEF ApplyPatch
<1>8. ASSUME NEW r \in Resources, RevertPatch(r) PROVE OrderInv'
  <2>1. /\ op[r] = "revert" /\ op'[r] = "idle" /\ UNCHANGED want
        /\ \A q \in Resources \ {r} : op'[q] = op[q]
    BY <1>0, <1>8 DEF RevertPatch, Forget, TypeInv, TypeOK
  <2>2. CASE UNCHANGED state
    BY <1>1, <2>1, <2>2
  <2>3. CASE state' = [state EXCEPT ![r] = None]
    <3>1. state'[r] = None /\ \A q \in Resources \ {r} : state'[q] = state[q]
      BY <1>0, <2>3 DEF TypeInv, TypeOK
    <3>2. \A q \in Resources : r \in Below[q] => state[q] = None /\ op[q] # "apply"
      BY <2>1 DEF OverlayInv, OrderInv
    <3> QED
      BY <2>1, <3>1, <3>2, BelowIsOrder DEF OverlayInv, OrderInv
  <2> QED
    BY <1>8, <2>2, <2>3 DEF RevertPatch
<1>9. ASSUME NEW r \in Resources, TargetGone(r) PROVE OrderInv'
  BY <1>0, <1>9 DEF TargetGone
<1> QED
  BY <1>2, <1>3, <1>4, <1>5, <1>6, <1>7, <1>8, <1>9 DEF Next, UserNext, ResourceNext

-----------------------------------------------------------------------------
(* What a leaf shows *)

\* Whoever names a leaf of an uppermost patch is below it.
LEMMA OthersAreBelow ==
  ASSUME PatchesLayered, OverlayInv, NEW r \in Resources, \A s \in Above(r) : state[s] = None,
         NEW p \in PatchesOf[r], NEW l \in Leaves, Names(p, l),
         NEW s \in Resources \ {r}, state[s] # None, Names(state[s].patch, l)
  PROVE  s \in Below[r]
BY DEF OverlayInv, Owned, PatchesLayered, Names, Ordered, Above

LEMMA ShownBelow ==
  ASSUME PatchesLayered, OverlayInv, NEW r \in Resources, \A s \in Above(r) : state[s] = None,
         NEW p \in PatchesOf[r], NEW l \in Leaves, Names(p, l), NEW v
  PROVE  Shown(Below[r], l, v) <=> Shown(Resources \ {r}, l, v)
<1>1. \A s \in Resources \ {r} : state[s] # None /\ Names(state[s].patch, l) => s \in Below[r]
  BY OthersAreBelow
<1>2. Below[r] \subseteq Resources \ {r}
  BY BelowIsOrder
<1>3. Named(Below[r], l) <=> Named(Resources \ {r}, l)
  BY <1>1, <1>2 DEF Named
<1>4. \A s : Named(Below[r] \cap Above(s), l) <=> Named((Resources \ {r}) \cap Above(s), l)
  BY <1>1, <1>2 DEF Named
<1> QED
  BY <1>1, <1>2, <1>3, <1>4 DEF Shown

\* A patch that is not applied shows nowhere.
LEMMA ShownWithout ==
  ASSUME NEW r \in Resources, state[r] = None, NEW l, NEW v
  PROVE  Shown(Resources \ {r}, l, v) <=> Shown(Resources, l, v)
BY DEF Shown, Named

\* What a leaf shows changes with the patches that name it.
LEMMA ShownKept ==
  ASSUME NEW rs, NEW l, NEW v, base'.leaf[l] = base.leaf[l],
         \A s \in rs : state'[s] = state[s] \/ /\ state'[s] # None => ~Names(state'[s].patch, l)
                                               /\ state[s] # None => ~Names(state[s].patch, l)
  PROVE  Shown(rs, l, v) <=> Shown(rs, l, v)'
<1>1. \A s \in rs : (state[s] # None /\ Names(state[s].patch, l)) <=>
                      (state'[s] # None /\ Names(state'[s].patch, l))
  OBVIOUS
<1>2. Named(rs, l) <=> Named(rs, l)'
  BY <1>1 DEF Named
<1>3. ASSUME NEW s PROVE Named(rs \cap Above(s), l) <=> Named(rs \cap Above(s), l)'
  BY <1>1 DEF Named, Above
<1> QED
  BY <1>1, <1>2, <1>3 DEF Shown

-----------------------------------------------------------------------------
(* The object, step by step *)

LEMMA Consequences ==
  ASSUME OverlayInv
  PROVE  /\ TypeInv /\ object # None
         /\ object \in Objects /\ base \in Objects
         /\ \A r \in Resources : r \in Actors /\ r # "action"
         /\ "action" \in Actors /\ faults \in Nat
         /\ \A a \in Actors : payload[a] \in Payloads
         /\ \A r \in Resources : PatchesOf[r] \subseteq Patches
         /\ \A r \in Resources : state[r] # None =>
              state[r] \in States /\ state[r].patch \in Patches /\ state[r].pre \in PreValues
BY PatchesAssumption, BoundsAssumption
   DEF OverlayInv, LayersInv, Sound, TypeInv, TypeOK, ObjectInv, BaseInv, Actors, States

\* Nothing that depends on what is being applied or reverted is applied.
LEMMA OperationsAreUppermost ==
  ASSUME OverlayInv, NEW r \in Resources, op[r] = "revert" \/ state[r] = None
  PROVE  \A s \in Above(r) : state[s] = None
BY DEF OverlayInv, OrderInv, Above

\* A Patch call that is not answered with success has done nothing.
LEMMA OnlyDoneActs ==
  ASSUME PatchesLayered, OverlayInv, NEW a \in Actors,
         NEW outcome \in {"done", "notfound", "failed", "lost"}, PatchCall(a, outcome)
  PROVE  /\ outcome = "done" => object' = MergePatch(object, payload[a])
         /\ outcome # "done" => outcome = "failed" /\ object' = object
<1>1. ~Fault /\ object # None
  BY Consequences DEF Fault, PatchesLayered
<1>2. CASE outcome = "done"
  BY <1>2 DEF PatchCall
<1>3. CASE outcome = "notfound"
  BY <1>1, <1>3 DEF PatchCall
<1>4. CASE outcome = "failed"
  BY <1>4 DEF PatchCall
<1>5. CASE outcome = "lost"
  BY <1>1, <1>5 DEF PatchCall
<1> QED
  BY <1>2, <1>3, <1>4, <1>5

LEMMA ArrayWithAt ==
  ASSUME object \in Objects, NEW p \in Patches, NEW n \in Nat
  PROVE  /\ ArrayWith(p, n) = Keep => p.items = {}
         /\ ArrayWith(p, n) # Keep =>
              \A i \in Items : ArrayWith(p, n)[i] = IF i \in p.items THEN n ELSE object.items[i]
<1>1. [i \in Items |-> IF i \in p.items THEN n ELSE object.items[i]] \in [Items -> Nat]
  BY DEF Objects
<1> QED
  BY <1>1, ValuesAssumption DEF ArrayWith

\* What the Patch of an apply and of a revert make of the object.
LEMMA AppliedObject ==
  ASSUME PatchesLayered, OverlayInv, NEW r \in Resources, op[r] = "apply",
         object' = MergePatch(object, payload[r])
  PROVE  /\ \A l \in Leaves : object'.leaf[l] = IF Names(model[r], l) THEN model[r].leaf[l]
                                                ELSE object.leaf[l]
         /\ \A i \in Items : object'.items[i] = IF i \in model[r].items THEN 1 ELSE object.items[i]
<1>1. /\ object \in Objects /\ payload[r] \in Payloads /\ Applying(r)
      /\ model[r] \in PatchesOf[r] /\ model[r] \in Patches
  BY Consequences DEF OverlayInv, LayersInv, Busy, Holds, Owned
<1>2. \A l \in Leaves : object'.leaf[l] = IF Names(model[r], l) THEN model[r].leaf[l]
                                          ELSE object.leaf[l]
  BY <1>1, MergePatchAt DEF Applying, Names, PatchesLayered
<1>3. /\ ArrayWith(model[r], 1) = Keep => model[r].items = {}
      /\ ArrayWith(model[r], 1) # Keep => \A i \in Items :
           ArrayWith(model[r], 1)[i] = IF i \in model[r].items THEN 1 ELSE object.items[i]
  BY <1>1, ArrayWithAt
<1> QED
  BY <1>1, <1>2, <1>3, MergePatchAt DEF Applying

LEMMA RevertedObject ==
  ASSUME PatchesLayered, OverlayInv, NEW r \in Resources, op[r] = "revert",
         object' = MergePatch(object, payload[r])
  PROVE  /\ \A l \in Leaves : object'.leaf[l] = IF Names(model[r], l) THEN state[r].pre[l]
                                                ELSE object.leaf[l]
         /\ \A i \in Items : object'.items[i] = IF i \in model[r].items THEN 0 ELSE object.items[i]
<1>1. /\ object \in Objects /\ payload[r] \in Payloads /\ Reverting(r)
      /\ model[r] \in PatchesOf[r] /\ model[r] \in Patches /\ Recorded(r, model[r], state[r].pre)
  BY Consequences DEF OverlayInv, LayersInv, Busy, Holds, Owned, Reverting
<1>2. ASSUME NEW l \in Leaves
      PROVE  object'.leaf[l] = IF Names(model[r], l) THEN state[r].pre[l] ELSE object.leaf[l]
  <2>1. Names(model[r], l) => state[r].pre[l] \in Vals \cup {None}
    BY <1>1, Consequences DEF Recorded, Reverting, PreValues
  <2>2. state[r].pre[l] \in Vals => state[r].pre[l] \notin {Keep, Null}
    BY ValuesAssumption
  <2> QED
    BY <1>1, <2>1, <2>2, MergePatchAt, ValuesAssumption DEF Reverting
<1>3. /\ ArrayWith(model[r], 0) = Keep => model[r].items = {}
      /\ ArrayWith(model[r], 0) # Keep => \A i \in Items :
           ArrayWith(model[r], 0)[i] = IF i \in model[r].items THEN 0 ELSE object.items[i]
  BY <1>1, ArrayWithAt
<1> QED
  BY <1>1, <1>2, <1>3, MergePatchAt DEF Reverting

\* The Get of an apply, and of a revert.
LEMMA GetForApply ==
  ASSUME PatchesLayered, OverlayInv, NEW r \in Resources, NEW p \in PatchesOf[r], state[r] = None
  PROVE  /\ r \notin Legacy => Recorded(r, p, ExtractPre(object, p))
         /\ r \in Legacy => Recorded(r, p, None)
         /\ ~MergeArrays(object, p).dropMap
         /\ MergeArrays(object, p).items = ArrayWith(p, 1)
         /\ \A l \in Leaves : MergeArrays(object, p).leaf[l] = p.leaf[l]
<1>1. object \in Objects /\ p \in Patches
  BY Consequences
<1>2. \A l \in Leaves : p.leaf[l] # Null /\ Sent(p, l) = p.leaf[l]
  BY ValuesAssumption DEF PatchesLayered, Sent
<1>3. ASSUME NEW l \in Leaves, Names(p, l) PROVE Shown(Below[r], l, object.leaf[l])
  BY <1>3, OperationsAreUppermost, ShownBelow, ShownWithout DEF OverlayInv, LayersInv, LaidInv
<1>4. ASSUME NEW i \in p.items PROVE object.items[i] = 0 /\ i \notin Whole /\ i \in Items
  <2>1. i \in Items
    BY <1>1 DEF Patches
  <2>2. ASSUME NEW s \in Resources, state[s] # None PROVE i \notin state[s].patch.items
    BY <2>2 DEF OverlayInv, Owned, PatchesLayered
  <2> QED
    BY <2>1, <2>2 DEF OverlayInv, LayersInv, LaidInv, BaseInv, PatchesLayered
<1>5. Recorded(r, p, ExtractPre(object, p))
  <2>1. ExtractPre(object, p) # None
    BY <1>1, ExtractType, OriginalsAssumption
  <2>2. \A l \in Leaves : Names(p, l) => ExtractPre(object, p)[l] = object.leaf[l]
    BY <1>2 DEF ExtractPre, Names
  <2> QED
    BY <1>3, <2>1, <2>2 DEF Recorded
<1>6. UniqueAppend(object.items, p.items)
        = [i \in Items |-> IF i \in p.items THEN 1 ELSE object.items[i]]
  BY <1>4 DEF UniqueAppend
<1>7. r \in Legacy => Recorded(r, p, None)
  BY DEF PatchesLayered, Recorded, Names
<1> QED
  BY <1>2, <1>5, <1>6, <1>7 DEF MergeArrays, ArrayWith

LEMMA GetForRevert ==
  ASSUME PatchesLayered, OverlayInv, NEW r \in Resources, state[r] # None
  PROVE  LET body == BuildRevert(object, state[r].patch, state[r].pre)
         IN  /\ ~body.dropMap /\ body.items = ArrayWith(state[r].patch, 0)
             /\ \A l \in Leaves :
                  body.leaf[l] = IF ~Names(state[r].patch, l) THEN Keep
                                 ELSE IF state[r].pre[l] # None THEN state[r].pre[l] ELSE Null
<1> DEFINE p == state[r].patch
           stored == state[r].pre
<1>1. /\ object \in Objects /\ Lasts(object) /\ p \in Patches /\ p \in PatchesOf[r]
      /\ Recorded(r, p, stored) /\ Restores(p, stored)
  BY Consequences
     DEF OverlayInv, Owned, LayersInv, Busy, Holds, Sound, RecordInv, LastInv, StoredInv
<1>2. ASSUME NEW l \in Leaves, Names(p, l) PROVE stored # None
  BY <1>1, <1>2 DEF Recorded
<1>3. NamesMap(p) => HasMap(object) /\ \E k \in Nested : stored[k] # None
  <2> SUFFICES ASSUME NamesMap(p) PROVE HasMap(object) /\ \E k \in Nested : stored[k] # None
    OBVIOUS
  <2>1. PICK k \in Nested : k \in Lasting /\ Names(p, k)
    BY <1>1, MapLasts
  <2>2. k \in Leaves
    BY PlacesAssumption
  <2> QED
    BY <1>1, <1>2, <2>1, <2>2 DEF Lasts, Restores, Names, HasMap
<1>4. ASSUME NEW l \in Leaves, Names(p, l)
      PROVE  LevelRecorded(stored, l) /\ (l \in Nested => HasMap(object))
  BY <1>2, <1>3, <1>4 DEF LevelRecorded, NamesMap, Names
<1>5. RemoveFrom(object.items, p.items) = [i \in Items |-> IF i \in p.items THEN 0 ELSE object.items[i]]
  BY <1>1 DEF RemoveFrom, PatchesLayered
<1> QED
  BY <1>2, <1>3, <1>4, <1>5 DEF BuildRevert, ArrayWith, Names

\* What the action holds depends on the others' array alone.
LEMMA InvokingKept ==
  ASSUME Invoking, base'.items = base.items, model'["action"] = model["action"],
         payload'["action"] = payload["action"]
  PROVE  Invoking'
BY DEF Invoking, MergeArrays, UniqueAppend, Sent

-----------------------------------------------------------------------------
(* The steps *)

LEMMA SameObject ==
  ASSUME NEW o \in Objects, NEW p \in Objects,
         \A l \in Leaves : o.leaf[l] = p.leaf[l], \A i \in Items : o.items[i] = p.items[i]
  PROVE  o = p
<1>1. o.leaf = p.leaf /\ o.items = p.items
  BY DEF Objects
<1> QED
  BY <1>1 DEF Objects

\* A resource at rest keeps what it holds as long as what is under its patch stays and, if
\* its operation runs, nobody writes to an array it has read.
LEMMA HoldsOn ==
  ASSUME OverlayInv, NEW r \in Resources,
         op'[r] = op[r], state'[r] = state[r], model'[r] = model[r],
         payload'[r] = payload[r], pre'[r] = pre[r],
         \A p \in PatchesOf[r] : \A l \in Leaves : Names(p, l) => base'.leaf[l] = base.leaf[l],
         state[r] # None \/ op[r] = "apply" => \A s \in Below[r] : state'[s] = state[s],
         op[r] # "idle" => \A p \in PatchesOf[r] : p.items # {} =>
           \A i \in Items : object'.items[i] = object.items[i]
  PROVE  Holds(r)'
<1>1. /\ op[r] # "idle" => model[r] \in PatchesOf[r]
      /\ state[r] # None => state[r].patch \in PatchesOf[r]
      /\ Holds(r)
  BY DEF OverlayInv, Owned, LayersInv, Busy
<1>2. ASSUME NEW p \in PatchesOf[r], NEW stored, Recorded(r, p, stored),
             state[r] # None \/ op[r] = "apply"
      PROVE  Recorded(r, p, stored)'
  <2> SUFFICES ASSUME NEW l \in Leaves, Names(p, l) PROVE Shown(Below[r], l, stored[l])'
    BY <1>2 DEF Recorded
  <2>1. Shown(Below[r], l, stored[l])
    BY <1>2 DEF Recorded
  <2> QED
    BY <1>2, <2>1, ShownKept
<1>3. ASSUME NEW n, op[r] # "idle" PROVE ArrayWith(model[r], n)' = ArrayWith(model[r], n)
  BY <1>1, <1>3 DEF ArrayWith
<1>4. state'[r] # None => Recorded(r, state[r].patch, state[r].pre)'
  BY <1>1, <1>2 DEF Holds
<1>5. op'[r] = "apply" => Applying(r)'
  <2> SUFFICES ASSUME op[r] = "apply" PROVE Applying(r)'
    OBVIOUS
  <2>1. Applying(r) /\ model[r] \in PatchesOf[r]
    BY <1>1 DEF Holds
  <2>2. Recorded(r, model[r], pre[r])'
    BY <1>2, <2>1 DEF Applying, Recorded
  <2>3. ArrayWith(model[r], 1)' = ArrayWith(model[r], 1)
    BY <1>3
  <2> QED
    BY <2>1, <2>2, <2>3 DEF Applying
<1>6. op'[r] = "revert" => Reverting(r)'
  <2> SUFFICES ASSUME op[r] = "revert" PROVE Reverting(r)'
    OBVIOUS
  <2>1. Reverting(r) /\ model[r] \in PatchesOf[r]
    BY <1>1 DEF Holds
  <2>2. ArrayWith(model[r], 0)' = ArrayWith(model[r], 0)
    BY <1>3
  <2> QED
    BY <2>1, <2>2 DEF Reverting
<1> QED
  BY <1>4, <1>5, <1>6 DEF Holds

\* LaidInv is what PatchOverlay asks of the object.
LEMMA LaidIsPromised ==
  ASSUME PatchesLayered, Owned', LaidInv' PROVE Promise!Laid'
<1>1. \A r \in Resources : state'[r] # None => state'[r].patch # None /\ state'[r].patch \in PatchesOf[r]
  BY PatchesAssumption DEF Owned
<1>2. \A r \in Resources : \A l \in Leaves :
        Promise!NamesLeaf(r, l)' <=> (state'[r] # None /\ Names(state'[r].patch, l))
  BY <1>1 DEF Promise!NamesLeaf, Names
<1>3. ASSUME NEW r \in Resources, NEW l \in Leaves,
             Promise!NamesLeaf(r, l)', Promise!Uncovered(r, l)'
      PROVE  object'.leaf[l] = state'[r].patch.leaf[l]
  <2>1. ~Named(Resources \cap Above(r), l)'
    BY <1>2, <1>3 DEF Promise!Uncovered, Named, Above
  <2> QED
    BY <1>2, <1>3, <2>1 DEF LaidInv, Shown
<1>4. ASSUME NEW l \in Leaves, \A r \in Resources : ~Promise!NamesLeaf(r, l)'
      PROVE  object'.leaf[l] = base'.leaf[l]
  <2>1. ~Named(Resources, l)'
    BY <1>2, <1>4 DEF Named
  <2> QED
    BY <2>1 DEF LaidInv, Shown
<1>5. ASSUME NEW i \in Items
      PROVE  (object.items[i] = IF \E r \in Resources : Promise!NamesItem(r, i) THEN 1
                                ELSE base.items[i])'
  BY <1>1 DEF LaidInv, Promise!NamesItem
<1> QED
  BY <1>2, <1>3, <1>4, <1>5 DEF Promise!Laid

\* Steps that touch neither the object nor the state: edits and Gets.
LEMMA GetsKeepLayers ==
  ASSUME PatchesLayered, OverlayInv, UNCHANGED <<object, base, state>>,
         NEW a \in Actors, \A b \in Actors \ {a} : /\ op'[b] = op[b] /\ model'[b] = model[b]
                                                   /\ payload'[b] = payload[b] /\ pre'[b] = pre[b],
         a \in Resources => Holds(a)', (a = "action" /\ op'[a] # "idle") => Invoking'
  PROVE  LayersInv'
<1>1. BaseInv'
  BY DEF OverlayInv, LayersInv, BaseInv
<1>2. LaidInv'
  BY DEF OverlayInv, LayersInv, LaidInv, Shown, Named, Above
<1>3. ASSUME NEW r \in Resources PROVE Holds(r)'
  <2>1. CASE r = a
    BY <2>1
  <2>2. CASE r # a
    BY <2>2, Consequences, HoldsOn
  <2> QED
    BY <2>1, <2>2
<1>4. op'["action"] # "idle" => Invoking'
  BY Consequences, InvokingKept DEF OverlayInv, LayersInv, Busy
<1> QED
  BY <1>1, <1>2, <1>3, <1>4 DEF LayersInv, Busy

LEMMA EditKeepsLayers ==
  ASSUME PatchesLayered, OverlayInv, NEW r \in Resources,
         NEW p \in PatchesOf[r] \cup {None}, Edit(r, p)
  PROVE  LayersInv'
<1>1. UNCHANGED <<object, base, state, op, model, payload, pre>>
  BY DEF Edit, memory
<1>2. r \in Actors /\ r # "action" /\ Holds(r)'
  BY <1>1, Consequences, HoldsOn
<1> QED
  BY <1>1, <1>2, GetsKeepLayers

LEMMA StartKeepsOthers ==
  ASSUME TypeInv, NEW a \in Actors, NEW name, NEW p, NEW body, NEW values,
         Start(a, name, p, body, values)
  PROVE  /\ op'[a] = name /\ model'[a] = p /\ payload'[a] = body /\ pre'[a] = values
         /\ \A b \in Actors \ {a} : /\ op'[b] = op[b] /\ model'[b] = model[b]
                                    /\ payload'[b] = payload[b] /\ pre'[b] = pre[b]
         /\ UNCHANGED <<object, base, state, want>>
BY DEF Start, TypeInv, TypeOK

\* What is recorded stays so in a step that touches neither object nor state.
LEMMA RecordedKept ==
  ASSUME UNCHANGED <<base, state>>, NEW r, NEW p, NEW stored, Recorded(r, p, stored)
  PROVE  Recorded(r, p, stored)'
BY DEF Recorded, Shown, Named, Above

LEMMA ApplyGetKeepsLayers ==
  ASSUME PatchesLayered, OverlayInv, NEW r \in Resources, ApplyGet(r)
  PROVE  LayersInv'
<1>0. r \in Actors /\ r # "action" /\ TypeInv
  BY Consequences
<1>1. /\ op'[r] = "apply" /\ model'[r] = want[r]
      /\ payload'[r] = MergeArrays(object, want[r])
      /\ pre'[r] = IF r \in Legacy THEN None ELSE ExtractPre(object, want[r])
      /\ \A b \in Actors \ {r} : /\ op'[b] = op[b] /\ model'[b] = model[b]
                                 /\ payload'[b] = payload[b] /\ pre'[b] = pre[b]
      /\ UNCHANGED <<object, base, state, want>>
  BY <1>0, StartKeepsOthers DEF ApplyGet
<1>2. want[r] \in PatchesOf[r] /\ state[r] = None
  BY DEF ApplyGet, OverlayInv, Owned, PatchesLayered
<1>3. ASSUME NEW p, NEW stored, Recorded(r, p, stored) PROVE Recorded(r, p, stored)'
  BY <1>1, <1>3, RecordedKept
<1>4. Holds(r)'
  <2>1. Recorded(r, model[r], pre[r])'
    BY <1>1, <1>2, <1>3, GetForApply DEF Recorded
  <2> QED
    BY <1>1, <1>2, <2>1, GetForApply DEF Holds, Applying, ArrayWith
<1> QED
  BY <1>0, <1>1, <1>4, GetsKeepLayers

LEMMA RevertGetKeepsLayers ==
  ASSUME PatchesLayered, OverlayInv, NEW r \in Resources, RevertGet(r)
  PROVE  LayersInv'
<1>0. r \in Actors /\ r # "action" /\ TypeInv
  BY Consequences
<1>1. /\ op'[r] = "revert" /\ model'[r] = state[r].patch
      /\ payload'[r] = BuildRevert(object, state[r].patch, state[r].pre)
      /\ \A b \in Actors \ {r} : /\ op'[b] = op[b] /\ model'[b] = model[b]
                                 /\ payload'[b] = payload[b] /\ pre'[b] = pre[b]
      /\ UNCHANGED <<object, base, state, want>>
  BY <1>0, StartKeepsOthers DEF RevertGet
<1>2. state[r] # None /\ Recorded(r, state[r].patch, state[r].pre)
  BY DEF RevertGet, OverlayInv, LayersInv, Busy, Holds
<1>3. Recorded(r, state[r].patch, state[r].pre)'
  <2>1. ASSUME NEW p, NEW stored, Recorded(r, p, stored) PROVE Recorded(r, p, stored)'
    BY <1>1, <2>1, RecordedKept
  <2> QED
    BY <1>1, <1>2, <2>1 DEF Recorded
<1>4. Holds(r)'
  BY <1>1, <1>2, <1>3, GetForRevert DEF Holds, Reverting, ArrayWith
<1> QED
  BY <1>0, <1>1, <1>4, GetsKeepLayers

\* Where the action writes to the array, the array is the others'.
LEMMA ActionsArray ==
  ASSUME PatchesLayered, OverlayInv, NEW p \in ActionPatches, p.items # {}
  PROVE  object.items = base.items
<1>1. \A r \in Resources : state[r] # None => state[r].patch.items = {}
  BY DEF OverlayInv, Owned, PatchesLayered
<1>2. \A i \in Items : object.items[i] = base.items[i]
  BY <1>1 DEF OverlayInv, LayersInv, LaidInv
<1> QED
  BY <1>2, Consequences DEF Objects

LEMMA InvokeGetKeepsLayers ==
  ASSUME PatchesLayered, OverlayInv, NEW p \in ActionPatches, InvokeGet(p)
  PROVE  LayersInv'
<1>0. "action" \in Actors /\ TypeInv
  BY Consequences
<1>1. /\ op'["action"] = "apply" /\ model'["action"] = p /\ payload'["action"] = MergeArrays(object, p)
      /\ \A b \in Actors \ {"action"} : /\ op'[b] = op[b] /\ model'[b] = model[b]
                                        /\ payload'[b] = payload[b] /\ pre'[b] = pre[b]
      /\ UNCHANGED <<object, base, state, want>>
  BY <1>0, StartKeepsOthers DEF InvokeGet
<1>2. Invoking'
  BY <1>1, ActionsArray DEF Invoking, MergeArrays, Sent
<1>3. "action" \notin Resources
  BY BoundsAssumption
<1> QED
  BY <1>0, <1>1, <1>2, <1>3, GetsKeepLayers

\* Others write where no patch does.
LEMMA OutsideSetKeepsLayers ==
  ASSUME PatchesLayered, OverlayInv, NEW l \in OutsideLeaves, NEW v \in Vals \cup {None},
         OutsideSet(l, v)
  PROVE  LayersInv' /\ (base' = base => object' = object)
<1>1. /\ object' = [object EXCEPT !.leaf[l] = v] /\ base' = [base EXCEPT !.leaf[l] = v]
      /\ UNCHANGED <<want, state, op, model, payload, pre>>
  BY DEF OutsideSet, Outside, memory
<1>2. object \in Objects /\ base \in Objects /\ object' # None
  <2>1. object \in Objects /\ base \in Objects
    BY Consequences
  <2>2. object' \in Objects
    BY <1>1, <2>1, PlacesAssumption DEF Objects
  <2> QED
    BY <2>1, <2>2, OriginalsAssumption
<1>3. /\ \A m \in Leaves : object'.leaf[m] = IF m = l THEN v ELSE object.leaf[m]
      /\ \A m \in Leaves : base'.leaf[m] = IF m = l THEN v ELSE base.leaf[m]
      /\ object'.items = object.items /\ base'.items = base.items
  BY <1>1, <1>2 DEF Objects
<1>4. \A r \in Resources : \A p \in PatchesOf[r] : ~Names(p, l)
  BY PlacesAssumption DEF PatchesLayered, Names
<1>5. BaseInv'
  BY <1>1, <1>2, <1>3 DEF OverlayInv, LayersInv, BaseInv
<1>6. LaidInv'
  <2>1. ASSUME NEW m \in Leaves PROVE Shown(Resources, m, object.leaf[m])'
    <3>1. CASE m = l
      BY <1>1, <1>3, <1>4, <3>1 DEF OverlayInv, Owned, Shown, Named
    <3>2. CASE m # l
      <4>1. object'.leaf[m] = object.leaf[m] /\ base'.leaf[m] = base.leaf[m]
        BY <1>3, <3>2
      <4>2. Shown(Resources, m, object.leaf[m])
        BY DEF OverlayInv, LayersInv, LaidInv
      <4> QED
        BY <1>1, <4>1, <4>2 DEF Shown, Named, Above
    <3> QED
      BY <3>1, <3>2
  <2> QED
    BY <1>1, <1>3, <2>1 DEF OverlayInv, LayersInv, LaidInv
<1>7. \A r \in Resources : Holds(r)'
  BY <1>1, <1>3, <1>4, HoldsOn
<1>8. Busy'
  BY <1>1, <1>3, <1>7, InvokingKept DEF OverlayInv, LayersInv, Busy
<1>9. base' = base => object' = object
  <2>1. l \in Leaves /\ base.leaf[l] = object.leaf[l]
    BY <1>4, PlacesAssumption DEF OverlayInv, Owned, LayersInv, LaidInv, Shown, Named
  <2> QED
    BY <1>1, <1>2, <1>3, <2>1 DEF Objects
<1> QED
  BY <1>5, <1>6, <1>8, <1>9 DEF LayersInv

\* Another resource's Patch leaves alone what a resource holds that stands on other ones.
LEMMA OthersPatch ==
  ASSUME PatchesLayered, OverlayInv, NEW r \in Resources, op[r] # "idle",
         UNCHANGED base,
         \A i \in Items : i \notin model[r].items => object'.items[i] = object.items[i],
         NEW s \in Resources, s # r, op'[s] = op[s], state'[s] = state[s], model'[s] = model[s],
         payload'[s] = payload[s], pre'[s] = pre[s],
         state[s] # None \/ op[s] = "apply" => \A q \in Below[s] : state'[q] = state[q]
  PROVE  Holds(s)'
<1>1. model[r] \in PatchesOf[r] /\ r \in Actors /\ s \in Actors
  BY Consequences DEF OverlayInv, Owned
<1>2. ASSUME op[s] # "idle", NEW p \in PatchesOf[s], p.items # {} PROVE model[r].items = {}
  <2>1. ~Ordered(s, r)
    BY <1>1, <1>2 DEF OverlayInv, Sound, PlacesInv, TurnsInv, TakeTurns
  <2> QED
    BY <1>1, <1>2, <2>1 DEF PatchesLayered
<1> QED
  BY <1>2, HoldsOn

LEMMA ForgetKeepsOthers ==
  ASSUME TypeInv, NEW a \in Actors, Forget(a)
  PROVE  /\ op'[a] = "idle"
         /\ \A b \in Actors \ {a} : /\ op'[b] = op[b] /\ model'[b] = model[b]
                                    /\ payload'[b] = payload[b] /\ pre'[b] = pre[b]
BY DEF Forget, TypeInv, TypeOK

\* A Patch that fails.
LEMMA FailedKeepsLayers ==
  ASSUME PatchesLayered, OverlayInv, NEW a \in Actors, Forget(a), UNCHANGED <<object, base, state>>
  PROVE  LayersInv'
<1>1. /\ op'[a] = "idle"
      /\ \A b \in Actors \ {a} : /\ op'[b] = op[b] /\ model'[b] = model[b]
                                 /\ payload'[b] = payload[b] /\ pre'[b] = pre[b]
  BY Consequences, ForgetKeepsOthers
<1>2. a \in Resources => Holds(a)'
  <2> SUFFICES ASSUME a \in Resources, state[a] # None PROVE Recorded(a, state[a].patch, state[a].pre)'
    BY <1>1 DEF Holds
  <2>1. Recorded(a, state[a].patch, state[a].pre)
    BY DEF OverlayInv, LayersInv, Busy, Holds
  <2> QED
    BY <2>1 DEF Recorded, Shown, Named, Above
<1> QED
  BY <1>1, <1>2, GetsKeepLayers

LEMMA ApplyPatchKeepsLayers ==
  ASSUME PatchesLayered, OverlayInv, TypeInv', NEW r \in Resources, ApplyPatch(r)
  PROVE  /\ LayersInv' /\ UNCHANGED base
         /\ \/ UNCHANGED <<object, state>>
            \/ /\ \A s \in Below[r] : state[s] # None
               /\ \E p \in PatchesOf[r] : /\ state'[r] # None /\ state'[r].patch = p
                                          /\ \A s \in Resources \ {r} : state'[s] = state[s]
<1>0. /\ r \in Actors /\ r # "action" /\ TypeInv /\ model[r] \in PatchesOf[r] /\ op[r] = "apply"
      /\ Applying(r) /\ model[r] \in Patches
  BY Consequences DEF OverlayInv, LayersInv, ApplyPatch, Owned, Busy, Holds
<1>1. Forget(r) /\ UNCHANGED <<want, base>>
  BY DEF ApplyPatch
<1>2. CASE UNCHANGED <<object, state>>
  BY <1>0, <1>1, <1>2, FailedKeepsLayers
<1>3. CASE /\ object' = MergePatch(object, payload[r])
           /\ state' = [state EXCEPT ![r] = [patch |-> model[r], pre |-> pre[r]]]
  <2>1. /\ \A l \in Leaves : object'.leaf[l] = IF Names(model[r], l) THEN model[r].leaf[l]
                                               ELSE object.leaf[l]
        /\ \A i \in Items : object'.items[i] = IF i \in model[r].items THEN 1 ELSE object.items[i]
    BY <1>0, <1>3, AppliedObject
  <2>2. /\ state[r] = None /\ state'[r] = [patch |-> model[r], pre |-> pre[r]]
        /\ \A s \in Resources \ {r} : state'[s] = state[s]
    BY <1>0, <1>3 DEF Applying, TypeInv, TypeOK
  <2>3. state'[r] # None /\ state'[r].patch = model[r] /\ state'[r].pre = pre[r]
    <3>1. state'[r] \in States
      BY <1>0, <2>2 DEF States, TypeInv, TypeOK
    <3> QED
      BY <2>2, <3>1, OriginalsAssumption
  <2>4. /\ op'[r] = "idle"
        /\ \A b \in Actors \ {r} : /\ op'[b] = op[b] /\ model'[b] = model[b]
                                   /\ payload'[b] = payload[b] /\ pre'[b] = pre[b]
    BY <1>0, <1>1, ForgetKeepsOthers
  <2>5. /\ \A s \in Above(r) : state[s] = None
        /\ \A s \in Below[r] : state[s] # None /\ state'[s] = state[s]
    BY <1>0, <2>2, OperationsAreUppermost, BelowIsOrder DEF OverlayInv, OrderInv
  <2>6. BaseInv'
    <3>1. object' # None
      BY <1>0, <1>1, Consequences, OriginalsAssumption DEF TypeInv, ObjectInv
    <3> QED
      BY <1>1, <3>1 DEF OverlayInv, LayersInv, BaseInv
  <2>7. ASSUME NEW l \in Leaves PROVE Shown(Resources, l, object.leaf[l])'
    <3>1. CASE Names(model[r], l)
      <4>1. \A s \in Resources \ {r} : state'[s] # None /\ Names(state'[s].patch, l) => r \in Above(s)
        BY <1>0, <2>2, <2>5, <3>1, OthersAreBelow DEF Above
      <4>2. ~Named(Resources \cap Above(r), l)'
        BY <2>2, <2>5, BelowIsOrder DEF Named, Above
      <4>3. \A s : r \in Above(s) => Named(Resources \cap Above(s), l)'
        BY <2>3, <3>1 DEF Named, Above
      <4>4. Named(Resources, l)'
        BY <2>3, <3>1 DEF Named
      <4> QED
        BY <2>1, <2>3, <3>1, <4>1, <4>2, <4>3, <4>4 DEF Shown
    <3>2. CASE ~Names(model[r], l)
      <4>1. Shown(Resources, l, object.leaf[l]) /\ object'.leaf[l] = object.leaf[l]
        BY <2>1, <3>2 DEF OverlayInv, LayersInv, LaidInv
      <4>2. \A v : Shown(Resources, l, v) <=> Shown(Resources, l, v)'
        BY <1>1, <2>2, <2>3, <3>2, ShownKept
      <4> QED
        BY <4>1, <4>2 DEF Shown
    <3> QED
      BY <3>1, <3>2
  <2>8. LaidInv'
    <3>1. ASSUME NEW s \in Resources, state'[s] # None, NEW i \in state'[s].patch.items
          PROVE  object'.items[i] = 1
      <4>1. CASE s = r
        BY <1>0, <2>1, <2>3, <3>1, <4>1 DEF Patches
      <4>2. CASE s # r
        <5>1. state'[s] = state[s] /\ state[s].patch \in PatchesOf[s] /\ i \in Items
          BY <2>2, <3>1, <4>2, Consequences DEF Patches, OverlayInv, Owned
        <5>2. i \notin model[r].items
          BY <1>0, <3>1, <4>2, <5>1 DEF PatchesLayered
        <5> QED
          BY <2>1, <3>1, <5>1, <5>2 DEF OverlayInv, LayersInv, LaidInv
      <4> QED
        BY <4>1, <4>2
    <3>2. ASSUME NEW i \in Items, \A s \in Resources : state'[s] # None => i \notin state'[s].patch.items
          PROVE  object'.items[i] = base'.items[i]
      BY <1>1, <2>1, <2>2, <2>3, <3>2 DEF OverlayInv, LayersInv, LaidInv
    <3> QED
      BY <2>7, <3>1, <3>2 DEF LaidInv
  <2>9. Holds(r)'
    <3>1. ASSUME NEW l \in Leaves, NEW v, Shown(Below[r], l, v) PROVE Shown(Below[r], l, v)'
      BY <1>1, <2>5, <3>1, ShownKept
    <3>2. Recorded(r, model[r], pre[r])
      BY <1>0 DEF Applying
    <3>3. Recorded(r, state[r].patch, state[r].pre)'
      BY <2>3, <3>1, <3>2 DEF Recorded
    <3> QED
      BY <2>4, <3>3 DEF Holds
  <2>10. ASSUME NEW s \in Resources \ {r} PROVE Holds(s)'
    <3>1. state[s] # None \/ op[s] = "apply" => r \notin Below[s]
      BY <2>2 DEF OverlayInv, OrderInv
    <3> QED
      BY <1>0, <1>1, <2>1, <2>2, <2>4, <3>1, BelowIsOrder, OthersPatch, Consequences
  <2>11. op'["action"] # "idle" => Invoking'
    BY <1>0, <1>1, <2>4, Consequences, InvokingKept DEF OverlayInv, LayersInv, Busy
  <2> QED
    BY <1>0, <1>1, <2>2, <2>3, <2>5, <2>6, <2>8, <2>9, <2>10, <2>11 DEF LayersInv, Busy
<1> QED
  <2>1. PICK outcome \in {"done", "notfound", "failed", "lost"} :
          /\ PatchCall(r, outcome)
          /\ IF outcome = "done" THEN state' = [state EXCEPT ![r] = [patch |-> model[r], pre |-> pre[r]]]
             ELSE state' = state
    BY DEF ApplyPatch
  <2> QED
    BY <1>0, <1>2, <1>3, <2>1, OnlyDoneActs

LEMMA RevertPatchKeepsLayers ==
  ASSUME PatchesLayered, OverlayInv, TypeInv', NEW r \in Resources, RevertPatch(r)
  PROVE  /\ LayersInv' /\ UNCHANGED base
         /\ \/ UNCHANGED <<object, state>>
            \/ /\ \A s \in Above(r) : state[s] = None
               /\ state'[r] = None /\ \A s \in Resources \ {r} : state'[s] = state[s]
<1>0. /\ r \in Actors /\ r # "action" /\ TypeInv /\ model[r] \in PatchesOf[r] /\ op[r] = "revert"
      /\ Reverting(r) /\ model[r] \in Patches
  BY Consequences DEF OverlayInv, LayersInv, RevertPatch, Owned, Busy, Holds
<1>1. Forget(r) /\ UNCHANGED <<want, base>>
  BY DEF RevertPatch
<1>2. CASE UNCHANGED <<object, state>>
  BY <1>0, <1>1, <1>2, FailedKeepsLayers
<1>3. CASE object' = MergePatch(object, payload[r]) /\ state' = [state EXCEPT ![r] = None]
  <2>1. /\ \A l \in Leaves : object'.leaf[l] = IF Names(model[r], l) THEN state[r].pre[l]
                                               ELSE object.leaf[l]
        /\ \A i \in Items : object'.items[i] = IF i \in model[r].items THEN 0 ELSE object.items[i]
    BY <1>0, <1>3, RevertedObject
  <2>2. /\ state[r] # None /\ state[r].patch = model[r] /\ state'[r] = None
        /\ \A s \in Resources \ {r} : state'[s] = state[s]
    BY <1>0, <1>3 DEF Reverting, TypeInv, TypeOK
  <2>3. /\ op'[r] = "idle"
        /\ \A b \in Actors \ {r} : /\ op'[b] = op[b] /\ model'[b] = model[b]
                                   /\ payload'[b] = payload[b] /\ pre'[b] = pre[b]
    BY <1>0, <1>1, ForgetKeepsOthers
  <2>4. \A s \in Above(r) : state[s] = None /\ op[s] # "apply"
    BY <1>0 DEF OverlayInv, OrderInv, Above
  <2>5. BaseInv'
    <3>1. object' # None
      BY <1>0, <1>1, Consequences, OriginalsAssumption DEF TypeInv, ObjectInv
    <3> QED
      BY <1>1, <3>1 DEF OverlayInv, LayersInv, BaseInv
  <2>6. ASSUME NEW l \in Leaves PROVE Shown(Resources, l, object.leaf[l])'
    <3>1. Shown(Resources \ {r}, l, object'.leaf[l])
      <4>1. CASE Names(model[r], l)
        <5>1. Shown(Below[r], l, state[r].pre[l])
          BY <2>2, <4>1 DEF OverlayInv, LayersInv, Busy, Holds, Recorded
        <5>2. Shown(Resources \ {r}, l, state[r].pre[l])
          BY <1>0, <2>4, <4>1, <5>1, ShownBelow
        <5> QED
          BY <2>1, <4>1, <5>2
      <4>2. CASE ~Names(model[r], l)
        <5>1. Shown(Resources, l, object.leaf[l])
          BY DEF OverlayInv, LayersInv, LaidInv
        <5> QED
          BY <2>1, <2>2, <4>2, <5>1 DEF Shown, Named
      <4> QED
        BY <4>1, <4>2
    <3>2. \A v : Shown(Resources \ {r}, l, v) <=> Shown(Resources \ {r}, l, v)'
      BY <1>1, <2>2, ShownKept
    <3>3. \A v : Shown(Resources \ {r}, l, v)' <=> Shown(Resources, l, v)'
      BY <2>2 DEF Shown, Named
    <3> QED
      BY <3>1, <3>2, <3>3 DEF Shown
  <2>7. LaidInv'
    <3>1. ASSUME NEW s \in Resources, state'[s] # None, NEW i \in state'[s].patch.items
          PROVE  object'.items[i] = 1
      <4>1. s # r /\ state'[s] = state[s] /\ state[s].patch \in PatchesOf[s] /\ i \in Items
        BY <2>2, <3>1, Consequences DEF Patches, OverlayInv, Owned
      <4>2. i \notin model[r].items
        BY <1>0, <3>1, <4>1 DEF PatchesLayered
      <4> QED
        BY <2>1, <3>1, <4>1, <4>2 DEF OverlayInv, LayersInv, LaidInv
    <3>2. ASSUME NEW i \in Items, \A s \in Resources : state'[s] # None => i \notin state'[s].patch.items
          PROVE  object'.items[i] = base'.items[i]
      <4>1. CASE i \in model[r].items
        BY <1>0, <1>1, <2>1, <4>1 DEF OverlayInv, LayersInv, BaseInv
      <4>2. CASE i \notin model[r].items
        BY <1>1, <2>1, <2>2, <3>2, <4>2 DEF OverlayInv, LayersInv, LaidInv
      <4> QED
        BY <4>1, <4>2
    <3> QED
      BY <2>6, <3>1, <3>2 DEF LaidInv
  <2>8. Holds(r)'
    BY <2>2, <2>3 DEF Holds
  <2>9. ASSUME NEW s \in Resources \ {r} PROVE Holds(s)'
    <3>1. state[s] # None \/ op[s] = "apply" => r \notin Below[s]
      BY <2>4 DEF Above
    <3> QED
      BY <1>0, <1>1, <2>1, <2>2, <2>3, <3>1, BelowIsOrder, OthersPatch, Consequences
  <2>10. op'["action"] # "idle" => Invoking'
    BY <1>0, <1>1, <2>3, Consequences, InvokingKept DEF OverlayInv, LayersInv, Busy
  <2> QED
    BY <1>1, <2>2, <2>4, <2>5, <2>7, <2>8, <2>9, <2>10 DEF LayersInv, Busy
<1> QED
  <2>1. PICK outcome \in {"done", "notfound", "failed", "lost"} :
          /\ PatchCall(r, outcome)
          /\ IF outcome \in {"done", "notfound"} THEN state' = [state EXCEPT ![r] = None]
             ELSE state' = state
    BY DEF RevertPatch
  <2> QED
    BY <1>0, <1>2, <1>3, <2>1, OnlyDoneActs

LEMMA InvokePatchKeepsLayers ==
  ASSUME PatchesLayered, OverlayInv, InvokePatch
  PROVE  LayersInv' /\ UNCHANGED state /\ (base' = base => object' = object)
<1> DEFINE p == model["action"]
<1>0. /\ "action" \in Actors /\ TypeInv /\ p \in ActionPatches /\ p \in Patches
      /\ Invoking /\ object \in Objects /\ base \in Objects /\ payload["action"] \in Payloads
  BY Consequences, PatchesAssumption
     DEF OverlayInv, LayersInv, InvokePatch, Owned, Busy, PatchesLayered
<1>1. Forget("action") /\ UNCHANGED <<want, state>>
  BY DEF InvokePatch
<1>2. CASE UNCHANGED <<object, base>>
  BY <1>0, <1>1, <1>2, FailedKeepsLayers
<1>3. CASE /\ object' = MergePatch(object, payload["action"])
           /\ base' = MergePatch(base, MergeArrays(base, p))
  <2>1. /\ MergeArrays(base, p) \in Payloads /\ ~MergeArrays(base, p).dropMap
        /\ MergeArrays(base, p).items = payload["action"].items
        /\ \A l \in Leaves : MergeArrays(base, p).leaf[l] = Sent(p, l)
    BY <1>0, MergeArraysType DEF MergeArrays, Invoking
  <2>2. \A l \in Leaves : Sent(p, l) # Keep => Sent(p, l) \in Vals /\ Sent(p, l) \notin {Keep, Null}
    BY <1>0, SentType, ValuesAssumption
  <2>3. /\ \A l \in Leaves : object'.leaf[l] = IF Sent(p, l) = Keep THEN object.leaf[l] ELSE Sent(p, l)
        /\ object'.items = IF payload["action"].items = Keep THEN object.items
                           ELSE payload["action"].items
    BY <1>0, <1>3, <2>2, MergePatchAt DEF Invoking
  <2>4. /\ \A l \in Leaves : base'.leaf[l] = IF Sent(p, l) = Keep THEN base.leaf[l] ELSE Sent(p, l)
        /\ base'.items = IF payload["action"].items = Keep THEN base.items
                         ELSE payload["action"].items
    BY <1>0, <1>3, <2>1, <2>2, MergePatchAt
  <2>5. \A r \in Resources : \A q \in PatchesOf[r] : \A l \in Leaves :
          Names(q, l) => Sent(p, l) = Keep
    BY <1>0 DEF PatchesLayered, Names, Sent
  <2>6. /\ op'["action"] = "idle"
        /\ \A b \in Actors \ {"action"} : /\ op'[b] = op[b] /\ model'[b] = model[b]
                                          /\ payload'[b] = payload[b] /\ pre'[b] = pre[b]
    BY <1>0, <1>1, ForgetKeepsOthers
  <2>7. object' \in Objects /\ object' # None
    BY <1>0, <1>3, MergePatchType, OriginalsAssumption
  <2>8. BaseInv'
    <3>1. ASSUME NEW r \in Resources, NEW q \in PatchesOf[r], q.items # {} PROVE base'.items = base.items
      BY <1>0, <2>4, <3>1 DEF Invoking, MergeArrays, PatchesLayered
    <3> QED
      BY <2>4, <2>7, <3>1 DEF OverlayInv, LayersInv, BaseInv
  <2>9. ASSUME NEW l \in Leaves PROVE Shown(Resources, l, object.leaf[l])'
    <3>1. Shown(Resources, l, object.leaf[l])
      BY DEF OverlayInv, LayersInv, LaidInv
    <3>2. CASE Sent(p, l) = Keep
      <4>1. object'.leaf[l] = object.leaf[l] /\ base'.leaf[l] = base.leaf[l]
        BY <2>3, <2>4, <3>2
      <4> QED
        BY <1>1, <3>1, <4>1 DEF Shown, Named, Above
    <3>3. CASE Sent(p, l) # Keep
      <4>1. object'.leaf[l] = Sent(p, l) /\ base'.leaf[l] = Sent(p, l)
        BY <2>3, <2>4, <3>3
      <4>2. \A s \in Resources : state[s] # None => ~Names(state[s].patch, l)
        BY <2>5, <3>3 DEF OverlayInv, Owned
      <4> QED
        BY <1>1, <4>1, <4>2 DEF Shown
    <3> QED
      BY <3>2, <3>3
  <2>10. LaidInv'
    <3>1. CASE payload["action"].items = Keep
      BY <1>1, <2>3, <2>4, <2>9, <3>1 DEF OverlayInv, LayersInv, LaidInv
    <3>2. CASE payload["action"].items # Keep
      <4>1. \A r \in Resources : state[r] # None => state[r].patch.items = {}
        BY <1>0, <3>2 DEF Invoking, MergeArrays, OverlayInv, Owned, PatchesLayered
      <4> QED
        BY <1>1, <2>3, <2>4, <2>9, <3>2, <4>1 DEF LaidInv
    <3> QED
      BY <3>1, <3>2
  <2>11. ASSUME NEW s \in Resources PROVE Holds(s)'
    <3>1. \A q \in PatchesOf[s] : q.items # {} => object'.items = object.items
      BY <1>0, <2>3 DEF Invoking, MergeArrays, PatchesLayered
    <3> QED
      BY <1>1, <2>4, <2>5, <2>6, <3>1, HoldsOn, Consequences
  <2>12. base' = base => object' = object
    <3> SUFFICES ASSUME base' = base PROVE object' = object
      OBVIOUS
    <3>1. ASSUME NEW l \in Leaves PROVE object'.leaf[l] = object.leaf[l]
      <4>1. Sent(p, l) # Keep => object.leaf[l] = base.leaf[l]
        BY <2>5 DEF OverlayInv, Owned, LayersInv, LaidInv, Shown, Named
      <4> QED
        BY <2>3, <2>4, <4>1
    <3>2. object'.items = object.items
      <4>1. payload["action"].items # Keep => object.items = base.items
        BY <1>0, ActionsArray DEF Invoking, MergeArrays
      <4> QED
        BY <2>3, <2>4, <4>1
    <3> QED
      BY <1>0, <2>7, <3>1, <3>2, SameObject
  <2> QED
    BY <1>1, <2>6, <2>8, <2>10, <2>11, <2>12 DEF LayersInv, Busy
<1> QED
  <2>1. PICK outcome \in {"done", "notfound", "failed", "lost"} :
          /\ PatchCall("action", outcome)
          /\ IF outcome \in {"done", "lost"} THEN base' = MergePatch(base, MergeArrays(base, p))
             ELSE base' = base
    BY DEF InvokePatch
  <2> QED
    BY <1>0, <1>1, <1>2, <1>3, <2>1, OnlyDoneActs

-----------------------------------------------------------------------------
(* The refinement *)

LEMMA InitOverlay == ASSUME PatchesLayered, Init PROVE OverlayInv /\ Promise!Init
<1>1. Sound /\ object \in Originals /\ object # None /\ base = object
  BY InitSound, LayeredWriters, OriginalsAssumption DEF Init
<1>2. \A r \in Resources : r \in Actors /\ op[r] = "idle" /\ state[r] = None /\ want[r] = None
  BY DEF Init, Actors
<1>3. op["action"] = "idle"
  BY DEF Init, Actors
<1>4. BaseInv
  BY <1>1 DEF BaseInv, PatchesLayered
<1>5. LaidInv
  BY <1>1, <1>2 DEF LaidInv, Shown, Named
<1>6. Promise!Init
  BY DEF Promise!Init, Init
<1> QED
  BY <1>1, <1>2, <1>3, <1>4, <1>5, <1>6, SoundOwns DEF OverlayInv, LayersInv, OrderInv, Busy, Holds

LEMMA OverlayStep ==
  ASSUME PatchesLayered, OverlayInv, [Next]_vars
  PROVE  OverlayInv' /\ [Promise!Next]_(Promise!vars)
<1>0. TypeInv' /\ Sound' /\ Owned'
  BY NextSound, LayeredWriters, SoundOwns DEF OverlayInv, Sound
<1> SUFFICES (OrderInv /\ LayersInv)' /\ [Promise!Next]_(Promise!vars)
  BY <1>0 DEF OverlayInv
<1>1. ASSUME LayersInv', UNCHANGED state, base' = base => object' = object
      PROVE  [Promise!Next]_(Promise!vars)
  <2>1. CASE base' = base
    BY <1>1, <2>1 DEF Promise!vars
  <2>2. CASE base' # base
    BY <1>0, <1>1, <2>2, LaidIsPromised DEF Promise!Next, Promise!Others, LayersInv
  <2> QED
    BY <2>1, <2>2
<1>2. CASE UNCHANGED vars
  <2>1. OrderInv'
    BY <1>2 DEF vars, memory, OverlayInv, OrderInv
  <2>2. LayersInv'
    BY <1>2 DEF vars, memory, OverlayInv, LayersInv, BaseInv, LaidInv, Busy, Holds, Applying,
                Reverting, Invoking, Recorded, Shown, Named, Above, ArrayWith, Sent
  <2> QED
    BY <1>1, <1>2, <2>1, <2>2 DEF vars
<1> SUFFICES ASSUME Next PROVE LayersInv' /\ [Promise!Next]_(Promise!vars)
  BY <1>2, NextOrder
<1>3. ASSUME NEW r \in Resources, NEW p \in PatchesOf[r] \cup {None}, Edit(r, p)
      PROVE  LayersInv' /\ [Promise!Next]_(Promise!vars)
  BY <1>1, <1>3, EditKeepsLayers DEF Edit
<1>4. CASE OutsideNext
  <2>1. PICK l \in OutsideLeaves, v \in Vals \cup {None} : OutsideSet(l, v)
    BY <1>4, Consequences DEF OutsideNext, OutsideDelete, OutsideCreate, PatchesLayered
  <2>2. UNCHANGED state
    BY <2>1 DEF OutsideSet, Outside
  <2> QED
    BY <1>1, <2>1, <2>2, OutsideSetKeepsLayers
<1>5. CASE ActionNext
  <2>1. CASE InvokePatch
    BY <1>1, <2>1, InvokePatchKeepsLayers
  <2>2. ASSUME NEW p \in ActionPatches, InvokeGet(p)
        PROVE  LayersInv' /\ [Promise!Next]_(Promise!vars)
    BY <1>1, <2>2, InvokeGetKeepsLayers DEF InvokeGet, Start
  <2> QED
    BY <1>5, <2>1, <2>2 DEF ActionNext
<1>6. ASSUME NEW r \in Resources, ResourceNext(r)
      PROVE  LayersInv' /\ [Promise!Next]_(Promise!vars)
  <2>1. CASE ApplyGet(r)
    BY <1>1, <2>1, ApplyGetKeepsLayers DEF ApplyGet, Start
  <2>2. CASE RevertGet(r)
    BY <1>1, <2>2, RevertGetKeepsLayers DEF RevertGet, Start
  <2>3. CASE TargetGone(r)
    BY <2>3, Consequences DEF TargetGone
  <2>4. CASE ApplyPatch(r)
    <3>1. /\ LayersInv' /\ UNCHANGED base
          /\ \/ UNCHANGED <<object, state>>
             \/ /\ \A s \in Below[r] : state[s] # None
                /\ \E p \in PatchesOf[r] : /\ state'[r] # None /\ state'[r].patch = p
                                           /\ \A s \in Resources \ {r} : state'[s] = state[s]
      BY <1>0, <2>4, ApplyPatchKeepsLayers
    <3>2. ASSUME NEW p \in PatchesOf[r], state'[r] # None, state'[r].patch = p,
                 \A s \in Below[r] : state[s] # None,
                 \A s \in Resources \ {r} : state'[s] = state[s]
          PROVE  Promise!Lay(r, p)
      <4>1. \A s \in Below[r] : s \in Resources /\ state[s].patch # None
        BY <3>2, BelowIsOrder, Consequences, PatchesAssumption
      <4> QED
        BY <3>1, <3>2, <4>1 DEF Promise!Lay
    <3> QED
      BY <1>0, <1>1, <3>1, <3>2, LaidIsPromised DEF Promise!Next, LayersInv
  <2>5. CASE RevertPatch(r)
    <3>1. /\ LayersInv' /\ UNCHANGED base
          /\ \/ UNCHANGED <<object, state>>
             \/ /\ \A s \in Above(r) : state[s] = None
                /\ state'[r] = None /\ \A s \in Resources \ {r} : state'[s] = state[s]
      BY <1>0, <2>5, RevertPatchKeepsLayers
    <3>2. ASSUME \A s \in Above(r) : state[s] = None,
                 state'[r] = None, \A s \in Resources \ {r} : state'[s] = state[s]
          PROVE  Promise!Lift(r)
      BY <3>1, <3>2 DEF Promise!Lift, Above
    <3> QED
      BY <1>0, <1>1, <3>1, <3>2, LaidIsPromised DEF Promise!Next, LayersInv
  <2> QED
    BY <1>6, <2>1, <2>2, <2>3, <2>4, <2>5 DEF ResourceNext
<1> QED
  BY <1>3, <1>4, <1>5, <1>6 DEF Next, UserNext

\* Patches that stay out of each other's way or depend on each other are layers: whatever
\* the order in which resources, actions and others read and write, the object is the one
\* others have made with the applied patches laid over it, a leaf that several of them name
\* shows the uppermost one, and a destroyed patch leaves no trace.
THEOREM PatchesAreLayers == ASSUME PatchesLayered PROVE Spec => OverlayKept
<1>1. Init => OverlayInv /\ Promise!Init
  BY InitOverlay
<1>2. OverlayInv /\ [Next]_vars => OverlayInv' /\ [Promise!Next]_(Promise!vars)
  BY OverlayStep
<1> QED
  BY <1>1, <1>2, PTL DEF Spec, OverlayKept, Promise!Spec
===============================================================================
