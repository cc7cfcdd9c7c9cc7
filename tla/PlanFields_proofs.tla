--------------------------- MODULE PlanFields_proofs ---------------------------
(***************************************************************************)
(* Proofs about PlanFields, for every number of leaves, values, blocks and *)
(* writes of others.  TypeInv says in addition where there is a state and  *)
(* where a plan.  ImmutableInv follows an immutable path round the cycle   *)
(* of commands: from the block into the plan, from there into the state,   *)
(* and through the refreshes to the next comparison with the block.        *)
(* ShapeInv does the same for what is there at all, and RefreshedInv says  *)
(* what a refresh leaves of a drift.                                       *)
(***************************************************************************)
EXTENDS PlanFields, TLAPS

\* Where a command is says whether there is a state to read and a plan to carry out.
Placed ==
  /\ pc = "read" => state # None
  /\ pc \in {"idle", "read", "plan"} => plan = None
  /\ pc \in {"planned", "delete", "patch", "readBack"} => plan # None

TypeInv == TypeOK /\ Placed

-----------------------------------------------------------------------------
(* Lemmas about the helpers *)

\* Overlay and Reconciled of manifests are manifests.
LEMMA OverlayType ==
  ASSUME NEW m \in Values, NEW from \in Values, NEW paths
  PROVE  Overlay(m, from, paths) \in Values
BY DEF Overlay, Values

LEMMA ReconciledType ==
  ASSUME NEW m \in Values, NEW from \in Values
  PROVE  Reconciled(m, from) \in Values
BY DEF Reconciled, Values

\* A refresh changes nothing at an immutable path that goes through no list
\* (preserveImmutableFieldsFromPrior after reconcileDynamicWithPrior).
LEMMA RefreshKeepsImmutable ==
  ASSUME NEW s \in StateType, object \in Values,
         NEW p \in s.roles.immutable, p \notin Listed, NEW l \in p
  PROVE  Refreshed(s)[l] = s.manifest[l]
<1> DEFINE rec == Reconciled(s.manifest, object)
<1>1. s.manifest \in Values /\ p \in Paths /\ l \in Leaves
  BY DEF StateType, Roles, Paths
<1>2. rec \in Values
  BY <1>1, ReconciledType
<1>3. \A k \in Leaves : rec[k] = None <=> s.manifest[k] = None
  BY <1>1 DEF Reconciled
<1>4. Has(rec, p) <=> Has(s.manifest, p)
  BY <1>1, <1>3 DEF Has, Paths
<1>5. CASE Has(s.manifest, p)
  <2>1. \E q \in s.roles.immutable \ Listed : l \in q /\ Has(rec, q) /\ Has(s.manifest, q)
    BY <1>4, <1>5
  <2> QED
    BY <1>1, <2>1 DEF Refreshed, Overlay
<1>6. CASE ~Has(s.manifest, p)
  <2>1. s.manifest[l] = None /\ rec[l] = None
    BY <1>1, <1>3, <1>6 DEF Has
  <2> QED
    BY <1>1, <2>1 DEF Refreshed, Overlay
<1> QED
  BY <1>5, <1>6

\* What ModifyPlan makes of the block's manifest is a manifest and is the block's or
\* the state's (the two guards against a hybrid plan).
LEMMA PlannedIsEither ==
  ASSUME TypeOK, state # None, NEW m \in OpenAPIResults(block.val)
  PROVE  /\ WithComputed(m) \in Values
         /\ WithComputed(m) \in {block.val, state.manifest}
<1>1. block.val \in Values /\ state.manifest \in Values
  BY BlocksAssumption DEF TypeOK, BlockType, StateType
<1>2. m \in {block.val, state.manifest}
  BY DEF OpenAPIResults, WithOpenAPI, IfPrior
<1>3. WithComputed(m) \in {m, state.manifest}
  BY DEF WithComputed, IfPrior
<1> QED
  BY <1>1, <1>2, <1>3

\* Outside the computed paths it is the block's.
LEMMA PlannedKeepsRest ==
  ASSUME TypeOK, state # None, NEW m \in OpenAPIResults(block.val),
         NEW l \in Leaves, \A q \in ComputedPaths(block) : l \notin q
  PROVE  WithComputed(m)[l] = block.val[l]
<1>1. m[l] = block.val[l]
  BY DEF OpenAPIResults, WithOpenAPI, IfPrior
<1>2. Overlay(m, state.manifest, ComputedPaths(block))[l] = m[l]
  BY DEF Overlay
<1> QED
  BY <1>1, <1>2 DEF WithComputed, IfPrior

-----------------------------------------------------------------------------
(* Types *)

\* A server-side apply leaves an object and owners of their types.
LEMMA ApplyType ==
  ASSUME TypeOK, NEW m \in Values, ServerSideApply(m)
  PROVE  object' \in Values /\ owners' \in [Leaves -> SUBSET {"tf", "other"}]
BY DEF TypeOK, Values, ServerSideApply

LEMMA TypeInit == Init => TypeInv
BY LeavesAssumption DEF Init, TypeInv, TypeOK, Placed, Nothing, Values

LEMMA TypeNext == TypeInv /\ [Next]_vars => TypeInv'
<1> SUFFICES ASSUME TypeInv, [Next]_vars PROVE TypeInv'
  OBVIOUS
<1> USE BoundsAssumption DEF TypeInv, TypeOK, Placed
<1>1. ASSUME NEW b \in Blocks, Edit(b) PROVE TypeInv'
  BY <1>1 DEF Edit
<1>2. ASSUME NEW l \in Leaves, NEW v \in Vals \cup {None}, OutsideSet(l, v) PROVE TypeInv'
  <2>1. object' \in Values /\ owners' \in [Leaves -> SUBSET {"tf", "other"}]
    BY <1>2 DEF OutsideSet, Values
  <2> QED
    BY <1>2, <2>1 DEF OutsideSet
<1>3. CASE StartRun
  BY <1>3 DEF StartRun, bounds
<1>4. CASE Read
  <2>1. state \in StateType /\ state.manifest \in Values
    BY <1>4 DEF Read, StateType
  <2>2. Refreshed(state) \in Values
    BY <2>1, OverlayType, ReconciledType DEF Refreshed
  <2>3. state' \in StateType
    BY <1>4, <2>1, <2>2 DEF Read, StateType
  <2> QED
    BY <1>4, <2>3 DEF Read, bounds
<1>5. CASE PlanCreate
  <2>1. plan' \in PlanType
    BY <1>5, BlocksAssumption DEF PlanCreate, PlanWith, PlanType, BlockType
  <2> QED
    BY <1>5, <2>1, BlocksAssumption DEF PlanCreate, PlanWith, bounds
<1>6. CASE ModifyPlan
  <2>1. PICK m \in OpenAPIResults(block.val), action \in {"replace", "update", "noop"} :
          PlanWith(action, WithComputed(m))
    BY <1>6 DEF ModifyPlan
  <2>2. WithComputed(m) \in Values
    BY <1>6, <2>1, PlannedIsEither DEF ModifyPlan
  <2>3. plan' \in PlanType
    BY <2>1, <2>2 DEF PlanWith, PlanType
  <2> QED
    BY <2>1, <2>3, BlocksAssumption DEF PlanWith, bounds
<1>7. CASE Approve
  BY <1>7 DEF Approve, EndRun, bounds
<1>8. CASE Delete
  BY <1>8, LeavesAssumption DEF Delete, bounds, Nothing, Values
<1>9. CASE Patch
  <2>1. plan \in PlanType /\ plan.manifest \in Values
    BY <1>9 DEF Patch, PlanType
  <2>2. object' \in Values /\ owners' \in [Leaves -> SUBSET {"tf", "other"}]
    BY <1>9, <2>1, ApplyType DEF Patch
  <2> QED
    BY <1>9, <2>2 DEF Patch, EndRun, Fault
<1>10. CASE ReadBack
  <2>1. /\ plan \in PlanType /\ plan.block \in Blocks /\ plan.manifest \in Values
        /\ plan.block.roles \in Roles
    BY <1>10, BlocksAssumption DEF ReadBack, PlanType, BlockType
  <2>2. state' \in StateType \cup {None}
    BY <1>10, <2>1 DEF ReadBack, StateType
  <2>3. applied' \in Blocks \cup {None}
    BY <1>10, <2>1 DEF ReadBack
  <2> QED
    BY <1>10, <2>2, <2>3 DEF ReadBack, EndRun, Fault
<1>11. CASE UNCHANGED vars
  BY <1>11 DEF vars, bounds
<1> QED
  BY <1>1, <1>2, <1>3, <1>4, <1>5, <1>6, <1>7, <1>8, <1>9, <1>10, <1>11
     DEF Next, ProviderNext

LEMMA TypeInvariant == Spec => []TypeInv
BY TypeInit, TypeNext, PTL DEF Spec

\* Every variable keeps its type: what a refresh, a plan or an apply makes of a manifest
\* is a manifest.
THEOREM TypeCorrect == Spec => []TypeOK
<1>1. TypeInv => TypeOK
  BY DEF TypeInv
<1> QED
  BY <1>1, TypeInvariant, PTL

-----------------------------------------------------------------------------
(* The plan is the block or the prior manifest *)

LEMMA ValidNext == TypeInv /\ PlanIsValid /\ [Next]_vars => PlanIsValid'
<1> SUFFICES ASSUME TypeInv, PlanIsValid, [Next]_vars, plan' # None, state' # None
             PROVE  plan'.manifest \in {plan'.block.val, state'.manifest}
  BY DEF PlanIsValid
<1>1. CASE ModifyPlan
  <2>1. PICK m \in OpenAPIResults(block.val), action \in {"replace", "update", "noop"} :
          PlanWith(action, WithComputed(m))
    BY <1>1 DEF ModifyPlan
  <2>2. plan'.manifest \in {block.val, state.manifest}
    BY <1>1, <2>1, PlannedIsEither DEF ModifyPlan, PlanWith, TypeInv
  <2> QED
    BY <2>1, <2>2 DEF PlanWith
<1>2. CASE PlanCreate
  BY <1>2 DEF PlanCreate, PlanWith
<1>3. CASE Read \/ Delete \/ ReadBack
  BY <1>3 DEF Read, Delete, ReadBack, EndRun, TypeInv, Placed
<1>4. CASE \/ \E b \in Blocks : Edit(b)
           \/ \E l \in Leaves, v \in Vals \cup {None} : OutsideSet(l, v)
           \/ StartRun \/ Approve \/ Patch \/ UNCHANGED vars
  <2>1. plan' \in {plan, None} /\ state' = state
    BY <1>4 DEF Edit, OutsideSet, StartRun, Approve, Patch, EndRun, vars
  <2> QED
    BY <2>1 DEF PlanIsValid
<1> QED
  BY <1>1, <1>2, <1>3, <1>4 DEF Next, ProviderNext

\* No plan is a mixture of the block and the prior manifest, whichever of the two
\* reconciliations of ModifyPlan takes place and whatever others have written.
THEOREM PlanIsAlwaysValid == Spec => []PlanIsValid
<1>1. Init => PlanIsValid
  BY DEF Init, PlanIsValid
<1> QED
  BY <1>1, TypeInvariant, ValidNext, PTL DEF Spec

-----------------------------------------------------------------------------
(* Drift does not replace *)

\* No immutable path goes through a list or meets a computed one.
Apart ==
  \A b \in Blocks : \A p \in b.roles.immutable :
    p \notin Listed /\ \A q \in ComputedPaths(b) : p \cap q = {}

\* A plan has its block's values at the immutable paths, and the state those of the
\* block that was last applied.
ImmutableInv ==
  /\ plan # None =>
       \A p \in plan.block.roles.immutable : \A l \in p :
         plan.manifest[l] = plan.block.val[l]
  /\ state # None =>
       /\ applied # None /\ state.roles = applied.roles
       /\ \A p \in applied.roles.immutable : \A l \in p :
            state.manifest[l] = applied.val[l]

LEMMA ImmutableNext ==
  ASSUME Apart
  PROVE  TypeInv /\ ImmutableInv /\ [Next]_vars => ImmutableInv'
<1> SUFFICES ASSUME TypeInv, ImmutableInv, [Next]_vars PROVE ImmutableInv'
  OBVIOUS
<1>1. CASE ModifyPlan
  <2>1. PICK m \in OpenAPIResults(block.val), action \in {"replace", "update", "noop"} :
          PlanWith(action, WithComputed(m))
    BY <1>1 DEF ModifyPlan
  <2>2. ASSUME NEW p \in block.roles.immutable, NEW l \in p
        PROVE  WithComputed(m)[l] = block.val[l]
    <3>1. l \in Leaves
      BY <2>2, BlocksAssumption DEF TypeInv, TypeOK, BlockType, Roles, Paths
    <3>2. \A q \in ComputedPaths(block) : l \notin q
      BY <2>2 DEF Apart, TypeInv, TypeOK
    <3> QED
      BY <1>1, <2>1, <3>1, <3>2, PlannedKeepsRest DEF ModifyPlan, TypeInv
  <2> QED
    BY <2>1, <2>2 DEF PlanWith, ImmutableInv
<1>2. CASE PlanCreate
  BY <1>2 DEF PlanCreate, PlanWith, ImmutableInv
<1>3. CASE Read
  <2>1. state \in StateType /\ applied \in Blocks /\ plan = None /\ object \in Values
    BY <1>3 DEF Read, TypeInv, TypeOK, Placed, ImmutableInv
  <2>2. /\ state'.roles = state.roles /\ state'.manifest = Refreshed(state)
        /\ applied' = applied /\ plan' = plan
    BY <1>3, <2>1 DEF Read, StateType
  <2>3. ASSUME NEW p \in applied.roles.immutable, NEW l \in p
        PROVE  state'.manifest[l] = applied.val[l]
    <3>1. p \in state.roles.immutable /\ p \notin Listed
      BY <1>3, <2>1 DEF Read, Apart, TypeInv, Placed, ImmutableInv
    <3>2. Refreshed(state)[l] = state.manifest[l]
      BY <2>1, <2>3, <3>1, RefreshKeepsImmutable
    <3> QED
      BY <1>3, <2>2, <3>2 DEF Read, TypeInv, Placed, ImmutableInv
  <2> QED
    BY <1>3, <2>1, <2>2, <2>3 DEF Read, TypeInv, Placed, ImmutableInv
<1>4. CASE Delete
  BY <1>4 DEF Delete, ImmutableInv
<1>5. CASE ReadBack
  <2>1. CASE UNCHANGED <<state, applied>>
    BY <1>5, <2>1 DEF ReadBack, EndRun, ImmutableInv
  <2>2. CASE /\ state' = [manifest |-> plan.manifest, object |-> object, roles |-> plan.block.roles]
             /\ applied' = plan.block
    <3>1. plan # None /\ plan.block \in Blocks
      BY <1>5 DEF ReadBack, TypeInv, TypeOK, Placed, PlanType
    <3>2. applied' # None
      BY <2>2, <3>1, BlocksAssumption
    <3> QED
      BY <1>5, <2>2, <3>1, <3>2 DEF ReadBack, EndRun, ImmutableInv
  <2> QED
    BY <1>5, <2>1, <2>2 DEF ReadBack
<1>6. CASE \/ \E b \in Blocks : Edit(b)
           \/ \E l \in Leaves, v \in Vals \cup {None} : OutsideSet(l, v)
           \/ StartRun \/ Approve \/ Patch \/ UNCHANGED vars
  <2>1. plan' \in {plan, None} /\ state' = state /\ applied' = applied
    BY <1>6 DEF Edit, OutsideSet, StartRun, Approve, Patch, EndRun, vars
  <2> QED
    BY <2>1 DEF ImmutableInv
<1> QED
  BY <1>1, <1>2, <1>3, <1>4, <1>5, <1>6 DEF Next, ProviderNext

LEMMA ReplaceNext ==
  TypeInv /\ ImmutableInv /\ DriftDoesNotReplace /\ [Next]_vars => DriftDoesNotReplace'
<1> SUFFICES ASSUME TypeInv, ImmutableInv, DriftDoesNotReplace, [Next]_vars,
                    plan'.action = "replace", pc' = "planned"
             PROVE  block' # applied'
  BY DEF DriftDoesNotReplace
<1>1. CASE ModifyPlan
  <2>1. PICK m \in OpenAPIResults(block.val) :
          LET differs == WithComputed(m) # state.manifest
          IN  PlanWith(CASE differs /\ ImmutableChanged             -> "replace"
                         [] differs /\ ~ImmutableChanged            -> "update"
                         [] ~differs /\ block.roles # state.roles   -> "update"
                         [] ~differs /\ block.roles = state.roles   -> "noop", WithComputed(m))
    BY <1>1 DEF ModifyPlan
  <2>2. ImmutableChanged
    BY <2>1 DEF PlanWith
  <2>3. PICK p \in block.roles.immutable : \E l \in p : block.val[l] # state.manifest[l]
    BY <2>2 DEF ImmutableChanged
  <2>4. block # applied
    BY <1>1, <2>3 DEF ModifyPlan, ImmutableInv
  <2> QED
    BY <2>1, <2>4 DEF PlanWith
<1>2. CASE PlanCreate
  BY <1>2 DEF PlanCreate, PlanWith
<1>3. CASE \E b \in Blocks : Edit(b)
  BY <1>3 DEF Edit, TypeInv, Placed
<1>4. CASE StartRun \/ Read \/ Approve \/ Delete \/ Patch \/ ReadBack
  BY <1>4 DEF StartRun, Read, Approve, Delete, Patch, ReadBack, EndRun
<1>5. CASE \/ \E l \in Leaves, v \in Vals \cup {None} : OutsideSet(l, v)
           \/ UNCHANGED vars
  BY <1>5 DEF OutsideSet, vars, DriftDoesNotReplace
<1> QED
  BY <1>1, <1>2, <1>3, <1>4, <1>5 DEF Next, ProviderNext

\* As long as no immutable path goes through a list or meets a computed one, a resource
\* is replaced only after a change of the block, whatever others write to it.
THEOREM DriftNeverReplaces ==
  ASSUME Apart
  PROVE  Spec => []DriftDoesNotReplace
<1>1. Init => ImmutableInv /\ DriftDoesNotReplace
  BY DEF Init, ImmutableInv, DriftDoesNotReplace
<1>2. TypeInv /\ ImmutableInv /\ [Next]_vars => ImmutableInv'
  BY ImmutableNext
<1> QED
  BY <1>1, <1>2, TypeInvariant, ReplaceNext, PTL DEF Spec

-----------------------------------------------------------------------------
(* Plans without changes *)

\* After a refresh the state's manifest has the object's values, except at immutable
\* paths, and where one of the two has nothing.
RefreshedInv ==
  pc \in {"plan", "planned"} /\ state # None =>
    \A l \in Leaves : (\A p \in state.roles.immutable : l \notin p) =>
      state.manifest[l] = None \/ state.object[l] \in {None, state.manifest[l]}

LEMMA RefreshedNext == TypeInv /\ RefreshedInv /\ [Next]_vars => RefreshedInv'
<1> SUFFICES ASSUME TypeInv, RefreshedInv, [Next]_vars PROVE RefreshedInv'
  OBVIOUS
<1>1. CASE Read
  <2>1. state \in StateType /\ state.manifest \in Values /\ object \in Values
    BY <1>1 DEF Read, TypeInv, TypeOK, Placed, StateType
  <2>2. /\ state'.roles = state.roles /\ state'.manifest = Refreshed(state)
        /\ state'.object = object
    BY <1>1, <2>1 DEF Read, StateType
  <2>3. ASSUME NEW l \in Leaves, \A p \in state.roles.immutable : l \notin p
        PROVE  Refreshed(state)[l] = None \/ object[l] \in {None, Refreshed(state)[l]}
    <3>1. Refreshed(state)[l] = Reconciled(state.manifest, object)[l]
      BY <2>3 DEF Refreshed, Overlay
    <3> QED
      BY <3>1 DEF Reconciled
  <2> QED
    BY <2>2, <2>3 DEF RefreshedInv
<1>2. CASE StartRun
  BY <1>2 DEF StartRun, RefreshedInv
<1>3. CASE Delete \/ ReadBack
  BY <1>3 DEF Delete, ReadBack, EndRun, RefreshedInv
<1>4. CASE \/ \E b \in Blocks : Edit(b)
           \/ \E l \in Leaves, v \in Vals \cup {None} : OutsideSet(l, v)
           \/ PlanCreate \/ ModifyPlan \/ Approve \/ Patch \/ UNCHANGED vars
  <2>1. state' = state /\ (pc' \in {"plan", "planned"} => pc \in {"plan", "planned"})
    BY <1>4 DEF Edit, OutsideSet, PlanCreate, ModifyPlan, PlanWith, Approve, Patch, EndRun, vars
  <2> QED
    BY <2>1 DEF RefreshedInv
<1> QED
  BY <1>1, <1>2, <1>3, <1>4 DEF Next, ProviderNext

LEMMA NoOpNext ==
  TypeInv /\ RefreshedInv /\ NoOpMeansNoDrift /\ [Next]_vars => NoOpMeansNoDrift'
<1> SUFFICES ASSUME TypeInv, RefreshedInv, NoOpMeansNoDrift, [Next]_vars,
                    pc' = "planned", plan'.action = "noop"
             PROVE  NoOpMeansNoDrift'
  BY DEF NoOpMeansNoDrift
<1>1. CASE ModifyPlan
  <2>1. PICK m \in OpenAPIResults(block.val) :
          LET differs == WithComputed(m) # state.manifest
          IN  PlanWith(CASE differs /\ ImmutableChanged             -> "replace"
                         [] differs /\ ~ImmutableChanged            -> "update"
                         [] ~differs /\ block.roles # state.roles   -> "update"
                         [] ~differs /\ block.roles = state.roles   -> "noop", WithComputed(m))
    BY <1>1 DEF ModifyPlan
  <2>2. WithComputed(m) = state.manifest /\ block.roles = state.roles
    BY <2>1 DEF PlanWith
  <2>3. ASSUME NEW l \in Leaves,
               \A p \in ComputedPaths(block) \cup block.roles.immutable : l \notin p
        PROVE  block.val[l] = None \/ state.object[l] \in {None, block.val[l]}
    <3>1. state.manifest[l] = block.val[l]
      BY <1>1, <2>2, <2>3, PlannedKeepsRest DEF ModifyPlan, TypeInv
    <3> QED
      BY <1>1, <2>2, <2>3, <3>1 DEF ModifyPlan, RefreshedInv
  <2> QED
    BY <2>1, <2>3 DEF PlanWith, NoOpMeansNoDrift
<1>2. CASE PlanCreate
  BY <1>2 DEF PlanCreate, PlanWith
<1>3. CASE (\E b \in Blocks : Edit(b)) \/ StartRun \/ Read \/ Approve \/ Delete \/ Patch \/ ReadBack
  BY <1>3 DEF Edit, StartRun, Read, Approve, Delete, Patch, ReadBack, EndRun
<1>4. CASE (\E l \in Leaves, v \in Vals \cup {None} : OutsideSet(l, v)) \/ UNCHANGED vars
  <2>1. UNCHANGED <<block, state, plan, pc>>
    BY <1>4 DEF OutsideSet, vars
  <2> QED
    BY <2>1 DEF NoOpMeansNoDrift
<1> QED
  BY <1>1, <1>2, <1>3, <1>4 DEF Next, ProviderNext

\* Computed and immutable fields hide no drift but their own.
THEOREM DriftIsNeverHidden == Spec => []NoOpMeansNoDrift
<1>1. Init => RefreshedInv /\ NoOpMeansNoDrift
  BY DEF Init, RefreshedInv, NoOpMeansNoDrift
<1> QED
  BY <1>1, TypeInvariant, RefreshedNext, NoOpNext, PTL DEF Spec

-----------------------------------------------------------------------------
(* Drift of computed fields *)

\* No computed path goes through a list.
ComputedApart == \A b \in Blocks : ComputedPaths(b) \cap Listed = {}

\* A manifest has something where its block has, unless a computed path at which both
\* have something covers the place.
Shaped(m, b) ==
  \A l \in Leaves :
    \/ m[l] = None <=> b.val[l] = None
    \/ \E q \in ComputedPaths(b) \ Listed : l \in q /\ Has(b.val, q) /\ Has(m, q)

ShapeInv ==
  /\ plan # None => Shaped(plan.manifest, plan.block)
  /\ state # None => /\ applied # None /\ state.roles = applied.roles
                     /\ Shaped(state.manifest, applied)

\* A refresh brings nothing in and takes nothing away.
LEMMA RefreshKeepsShape ==
  ASSUME NEW s \in StateType, object \in Values, NEW l \in Leaves
  PROVE  Refreshed(s)[l] = None <=> s.manifest[l] = None
BY DEF Refreshed, Overlay, Reconciled, StateType

\* What ModifyPlan plans has the shape of the block: the prior manifest is planned only
\* where the two reconciliations account for every difference.
LEMMA PlannedShape ==
  ASSUME TypeOK, state # None, NEW m \in OpenAPIResults(block.val)
  PROVE  Shaped(WithComputed(m), block)
<1> DEFINE over == Overlay(m, state.manifest, ComputedPaths(block))
<1>1. ASSUME NEW l \in Leaves PROVE m[l] = None <=> block.val[l] = None
  <2>1. CASE m = block.val
    BY <2>1
  <2>2. CASE m = [k \in Leaves |-> IF block.val[k] # None /\ state.object[k] # None
                                        /\ \E p \in ComputedPaths(block) : k \in p
                                   THEN state.object[k] ELSE block.val[k]]
    BY <2>2
  <2> QED
    BY <2>1, <2>2 DEF OpenAPIResults, WithOpenAPI, IfPrior
<1>2. \A q \in ComputedPaths(block) : Has(m, q) => Has(block.val, q)
  <2>1. \A q \in ComputedPaths(block) : q \subseteq Leaves
    BY LeavesAssumption, BlocksAssumption DEF ComputedPaths, TypeOK, BlockType, Roles, Paths
  <2> QED
    BY <1>1, <2>1 DEF Has
<1>3. CASE WithComputed(m) = m
  BY <1>1, <1>3 DEF Shaped
<1>4. CASE WithComputed(m) = over /\ over = state.manifest
  <2>1. ASSUME NEW l \in Leaves, ~(\E q \in ComputedPaths(block) \ Listed :
                                     l \in q /\ Has(m, q) /\ Has(state.manifest, q))
        PROVE  over[l] = m[l]
    BY <2>1 DEF Overlay
  <2> QED
    BY <1>1, <1>2, <1>4, <2>1 DEF Shaped
<1> QED
  BY <1>3, <1>4 DEF WithComputed, IfPrior

LEMMA ShapeNext == TypeInv /\ ShapeInv /\ [Next]_vars => ShapeInv'
<1> SUFFICES ASSUME TypeInv, ShapeInv, [Next]_vars PROVE ShapeInv'
  OBVIOUS
<1>1. CASE ModifyPlan
  <2>1. PICK m \in OpenAPIResults(block.val), action \in {"replace", "update", "noop"} :
          PlanWith(action, WithComputed(m))
    BY <1>1 DEF ModifyPlan
  <2>2. Shaped(WithComputed(m), block)
    BY <1>1, <2>1, PlannedShape DEF ModifyPlan, TypeInv
  <2> QED
    BY <2>1, <2>2 DEF PlanWith, ShapeInv
<1>2. CASE PlanCreate
  BY <1>2 DEF PlanCreate, PlanWith, ShapeInv, Shaped
<1>3. CASE Read
  <2>1. state \in StateType /\ applied \in Blocks /\ plan = None /\ object \in Values
    BY <1>3 DEF Read, TypeInv, TypeOK, Placed, ShapeInv
  <2>2. /\ state'.roles = state.roles /\ state'.manifest = Refreshed(state)
        /\ applied' = applied /\ plan' = plan
    BY <1>3, <2>1 DEF Read, StateType
  <2>3. \A q \in ComputedPaths(applied) : q \subseteq Leaves
    BY <2>1, LeavesAssumption, BlocksAssumption DEF ComputedPaths, BlockType, Roles, Paths
  <2>4. \A q \in ComputedPaths(applied) : Has(state.manifest, q) => Has(Refreshed(state), q)
    BY <2>1, <2>3, RefreshKeepsShape DEF Has
  <2>5. Shaped(state.manifest, applied) => Shaped(Refreshed(state), applied)
    BY <2>1, <2>4, RefreshKeepsShape DEF Shaped
  <2> QED
    BY <1>3, <2>1, <2>2, <2>5 DEF Read, TypeInv, Placed, ShapeInv
<1>4. CASE Delete
  BY <1>4 DEF Delete, ShapeInv
<1>5. CASE ReadBack
  <2>1. CASE UNCHANGED <<state, applied>>
    BY <1>5, <2>1 DEF ReadBack, EndRun, ShapeInv
  <2>2. CASE /\ state' = [manifest |-> plan.manifest, object |-> object, roles |-> plan.block.roles]
             /\ applied' = plan.block
    <3>1. plan # None /\ plan.block \in Blocks
      BY <1>5 DEF ReadBack, TypeInv, TypeOK, Placed, PlanType
    <3>2. applied' # None
      BY <2>2, <3>1, BlocksAssumption
    <3> QED
      BY <1>5, <2>2, <3>1, <3>2 DEF ReadBack, EndRun, ShapeInv
  <2> QED
    BY <1>5, <2>1, <2>2 DEF ReadBack
<1>6. CASE \/ \E b \in Blocks : Edit(b)
           \/ \E l \in Leaves, v \in Vals \cup {None} : OutsideSet(l, v)
           \/ StartRun \/ Approve \/ Patch \/ UNCHANGED vars
  <2>1. plan' \in {plan, None} /\ state' = state /\ applied' = applied
    BY <1>6 DEF Edit, OutsideSet, StartRun, Approve, Patch, EndRun, vars
  <2> QED
    BY <2>1 DEF ShapeInv
<1> QED
  BY <1>1, <1>2, <1>3, <1>4, <1>5, <1>6 DEF Next, ProviderNext

\* When the block was applied and nothing but computed fields differs, what is planned is
\* the prior manifest.
LEMMA ComputedIsUndone ==
  ASSUME ComputedApart, TypeOK, ShapeInv, state # None, block = applied,
         NEW m \in OpenAPIResults(block.val),
         \A l \in Leaves : state.manifest[l] # block.val[l] => \E p \in ComputedPaths(block) : l \in p
  PROVE  WithComputed(m) = state.manifest
<1> DEFINE over == Overlay(m, state.manifest, ComputedPaths(block))
<1>1. /\ state.manifest \in Values /\ block \in Blocks
      /\ \A q \in ComputedPaths(block) : q \subseteq Leaves /\ q \notin Listed
  BY LeavesAssumption, BlocksAssumption
     DEF TypeOK, StateType, ComputedPaths, BlockType, Roles, Paths, ComputedApart
<1>2. CASE m = state.manifest
  BY <1>1, <1>2 DEF WithComputed, IfPrior, Overlay, Values
<1>3. CASE m = block.val
  <2>1. ASSUME NEW l \in Leaves PROVE over[l] = state.manifest[l]
    <3>1. CASE state.manifest[l] = block.val[l]
      BY <1>3, <3>1 DEF Overlay
    <3>2. CASE state.manifest[l] # block.val[l]
      <4>1. PICK q \in ComputedPaths(block) : l \in q /\ Has(block.val, q) /\ Has(state.manifest, q)
        <5>1. CASE state.manifest[l] = None <=> block.val[l] = None
          BY <3>2, <5>1 DEF Has
        <5>2. CASE ~(state.manifest[l] = None <=> block.val[l] = None)
          BY <5>2 DEF ShapeInv, Shaped
        <5> QED
          BY <5>1, <5>2
      <4> QED
        BY <1>1, <1>3, <4>1 DEF Overlay
    <3> QED
      BY <3>1, <3>2
  <2>2. over = state.manifest
    BY <1>1, <2>1 DEF Overlay, Values
  <2> QED
    BY <2>2 DEF WithComputed, IfPrior
<1> QED
  BY <1>2, <1>3 DEF OpenAPIResults, WithOpenAPI, IfPrior

LEMMA ComputedNext ==
  ASSUME ComputedApart
  PROVE  TypeInv /\ ShapeInv /\ ComputedDriftIsNoDiff /\ [Next]_vars => ComputedDriftIsNoDiff'
<1> SUFFICES ASSUME TypeInv, ShapeInv, ComputedDriftIsNoDiff, [Next]_vars, pc' = "planned"
             PROVE  ComputedDriftIsNoDiff'
  BY DEF ComputedDriftIsNoDiff
<1>1. CASE ModifyPlan
  <2>1. PICK m \in OpenAPIResults(block.val) :
          LET differs == WithComputed(m) # state.manifest
          IN  PlanWith(CASE differs /\ ImmutableChanged             -> "replace"
                         [] differs /\ ~ImmutableChanged            -> "update"
                         [] ~differs /\ block.roles # state.roles   -> "update"
                         [] ~differs /\ block.roles = state.roles   -> "noop", WithComputed(m))
    BY <1>1 DEF ModifyPlan
  <2>2. ASSUME block = applied,
               \A l \in Leaves : state.manifest[l] # block.val[l] =>
                 \E p \in ComputedPaths(block) : l \in p
        PROVE  plan'.action = "noop"
    <3>1. WithComputed(m) = state.manifest
      BY <1>1, <2>1, <2>2, ComputedIsUndone DEF ModifyPlan, TypeInv
    <3>2. block.roles = state.roles
      BY <1>1, <2>2 DEF ModifyPlan, ShapeInv
    <3> QED
      BY <2>1, <3>1, <3>2 DEF PlanWith
  <2> QED
    BY <2>1, <2>2 DEF PlanWith, ComputedDriftIsNoDiff
<1>2. CASE PlanCreate
  BY <1>2 DEF PlanCreate, PlanWith, ComputedDriftIsNoDiff
<1>3. CASE (\E b \in Blocks : Edit(b)) \/ StartRun \/ Read \/ Approve \/ Delete \/ Patch \/ ReadBack
  BY <1>3 DEF Edit, StartRun, Read, Approve, Delete, Patch, ReadBack, EndRun, TypeInv, Placed
<1>4. CASE (\E l \in Leaves, v \in Vals \cup {None} : OutsideSet(l, v)) \/ UNCHANGED vars
  <2>1. UNCHANGED <<block, state, plan, pc, applied>>
    BY <1>4 DEF OutsideSet, vars
  <2> QED
    BY <2>1 DEF ComputedDriftIsNoDiff
<1> QED
  BY <1>1, <1>2, <1>3, <1>4 DEF Next, ProviderNext

\* As long as no computed path goes through a list, what others write to computed fields
\* plans nothing, with or without the OpenAPI type.
THEOREM ComputedDriftPlansNothing ==
  ASSUME ComputedApart
  PROVE  Spec => []ComputedDriftIsNoDiff
<1>1. Init => ShapeInv /\ ComputedDriftIsNoDiff
  BY DEF Init, ShapeInv, ComputedDriftIsNoDiff
<1> QED
  BY <1>1, TypeInvariant, ShapeNext, ComputedNext, PTL DEF Spec
=============================================================================
