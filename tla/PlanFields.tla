------------------------------ MODULE PlanFields ------------------------------
(***************************************************************************)
(* fields.computed and fields.immutable of kubectl_manifest: how Read,     *)
(* ModifyPlan and apply keep a manifest that shares its fields with other  *)
(* writers from being updated or replaced for what they do.                *)
(*                                                                         *)
(* Abstractions.  A manifest is the values of its leaves; a map or list    *)
(* with no leaf is taken for one that is not there.  A path of fields is   *)
(* the set of leaves below it.  What ManifestResource models of the same   *)
(* handlers (identity, write-only values, flags, waits, retries, deletion  *)
(* with finalizers) is left out here; every command begins with a refresh. *)
(***************************************************************************)
EXTENDS Naturals

CONSTANTS
  Leaves,      \* leaves of the manifest
  Vals, None,  \* their values; nothing there
  Labels,      \* metadata.annotations or metadata.labels, the default of computed
  Listed,      \* paths that go through an index of a list
  Blocks,      \* the blocks the user may write
  MaxEdits,    \* bound on changes of the block
  MaxOutside,  \* bound on writes of others
  MaxFaults    \* bound on calls that fail

Values == [Leaves -> Vals \cup {None}]
Paths == SUBSET Leaves
Roles == [computed : SUBSET Paths, immutable : SUBSET Paths, force : BOOLEAN]
BlockType == [val : Values, roles : Roles]
StateType == [manifest : Values, object : Values, roles : Roles]
PlanType == [action : {"create", "update", "replace", "noop"}, block : Blocks, manifest : Values]

ASSUME LeavesAssumption ==
  /\ None \notin Vals /\ Labels \in Paths /\ Listed \subseteq Paths
ASSUME BlocksAssumption ==
  /\ Blocks \subseteq BlockType /\ None \notin Blocks
  /\ None \notin StateType /\ None \notin PlanType
ASSUME BoundsAssumption == MaxEdits \in Nat /\ MaxOutside \in Nat /\ MaxFaults \in Nat

VARIABLES
  block,    \* the block the user has written
  object,   \* the values in the API server, nowhere any when there is no object
  owners,   \* who owns each leaf: "tf" is this provider's field manager
  state,    \* the Terraform state, or None
  plan,     \* the planned change, or None
  pc,       \* where the running command is
  edits, outside, faults,   \* how much of each bound is used up
  applied   \* ghost: the block of the last apply that succeeded, or None

bounds == <<edits, outside, faults>>
vars == <<block, object, owners, state, plan, pc, bounds, applied>>

TypeOK ==
  /\ block \in Blocks /\ applied \in Blocks \cup {None}
  /\ object \in Values /\ owners \in [Leaves -> SUBSET {"tf", "other"}]
  /\ state \in StateType \cup {None} /\ plan \in PlanType \cup {None}
  /\ pc \in {"idle", "read", "plan", "planned", "delete", "patch", "readBack"}
  /\ edits \in Nat /\ outside \in Nat /\ faults \in Nat

Nothing == [l \in Leaves |-> None]

Init ==
  /\ block \in Blocks /\ applied = None
  /\ object = Nothing /\ owners = [l \in Leaves |-> {}]
  /\ state = None /\ plan = None /\ pc = "idle"
  /\ edits = 0 /\ outside = 0 /\ faults = 0

-----------------------------------------------------------------------------
(* Helpers *)

\* getNestedMapValue, walkMapByTFPath: is there anything at the path?
Has(m, p) == \E l \in p : m[l] # None

\* getNestedMapValue and setNestedMapValue of each path: what another manifest has at
\* it, when both have something.  Neither finds its way through a list.
Overlay(m, from, paths) ==
  [l \in Leaves |->
     IF \E p \in paths \ Listed : l \in p /\ Has(m, p) /\ Has(from, p) THEN from[l] ELSE m[l]]

\* Deviations: what the API server has is not looked at; is taken without the manifest
\* having it; erases the manifest's value when it is null.
ReconciledNever(prior, api) == prior
ReconciledAlways(prior, api) == [l \in Leaves |-> IF api[l] = None THEN prior[l] ELSE api[l]]
ReconciledNulls(prior, api) ==
  [l \in Leaves |-> IF prior[l] = None THEN None ELSE IF api[l] = None THEN "null" ELSE api[l]]

\* deepReconcileMaps: the leaves of prior, with the values of api unless it has none.
Reconciled(prior, api) ==
  [l \in Leaves |-> IF prior[l] = None \/ api[l] = None THEN prior[l] ELSE api[l]]

ComputedPaths(b) == IF b.roles.computed = {} THEN {Labels} ELSE b.roles.computed

-----------------------------------------------------------------------------
(* The user and others *)

Edit(b) ==
  /\ pc = "idle" /\ b # block /\ edits < MaxEdits /\ edits' = edits + 1
  /\ block' = b
  /\ UNCHANGED <<object, owners, state, plan, pc, outside, faults, applied>>

\* A write with another value takes the leaf from whoever owned it.
OutsideSet(l, v) ==
  /\ object # Nothing /\ object[l] # v /\ outside < MaxOutside /\ outside' = outside + 1
  /\ object' = [object EXCEPT ![l] = v]
  /\ owners' = [owners EXCEPT ![l] = IF v = None THEN {} ELSE {"other"}]
  /\ UNCHANGED <<block, state, plan, pc, edits, faults, applied>>

StartRun ==
  /\ pc = "idle" /\ pc' = IF state = None THEN "plan" ELSE "read"
  /\ UNCHANGED <<block, object, owners, state, plan, bounds, applied>>

-----------------------------------------------------------------------------
(* Read *)

\* Deviation: immutable fields are not restored.
RefreshedAll(s) == Reconciled(s.manifest, object)

\* reconcileDynamicWithPrior, preserveImmutableFieldsFromPrior
Refreshed(s) == Overlay(Reconciled(s.manifest, object), s.manifest, s.roles.immutable)

Read ==
  /\ pc = "read"
  /\ state' = [state EXCEPT !.manifest = Refreshed(state), !.object = object]
  /\ pc' = "plan"
  /\ UNCHANGED <<block, object, owners, plan, bounds, applied>>

-----------------------------------------------------------------------------
(* ModifyPlan *)

\* An immutable path has another value in the block than in the state.
ImmutableChanged ==
  \E p \in block.roles.immutable :
    /\ Has(block.val, p) /\ Has(state.manifest, p)
    /\ \E l \in p : block.val[l] # state.manifest[l]

\* Deviation: the result goes into the plan in any case.
AnyResult(result, m) == result

\* Either step puts its result into the plan only when it is all of the prior manifest.
IfPrior(result, m) == IF result = state.manifest THEN result ELSE m

\* The traversal of modifyPlanWithOpenAPI: computed paths as the prior object has them.
WithOpenAPI(m) ==
  IfPrior([l \in Leaves |->
             IF m[l] # None /\ state.object[l] # None
                  /\ \E p \in ComputedPaths(block) : l \in p
             THEN state.object[l] ELSE m[l]], m)

\* modifyPlanWithOpenAPI returns early when the type is not known or not structural or a
\* conversion fails.
OpenAPIResults(m) == {m, WithOpenAPI(m)}

\* Deviation: computed fields are left to modifyPlanWithOpenAPI.
WithoutFallback(m) == m

\* reconcileComputedFieldsInPlan: computed paths as the prior manifest has them.
WithComputed(m) == IfPrior(Overlay(m, state.manifest, ComputedPaths(block)), m)

PlanWith(action, manifest) ==
  /\ plan' = [action |-> action, block |-> block, manifest |-> manifest] /\ pc' = "planned"
  /\ UNCHANGED <<block, object, owners, state, bounds, applied>>

PlanCreate == pc = "plan" /\ state = None /\ PlanWith("create", block.val)

\* Terraform replaces when the manifest was named in RequiresReplace and has a diff.
ModifyPlan ==
  /\ pc = "plan" /\ state # None
  /\ \E m \in OpenAPIResults(block.val) :
       LET manifest == WithComputed(m)
           differs == manifest # state.manifest
       IN  PlanWith(CASE differs /\ ImmutableChanged             -> "replace"
                      [] differs /\ ~ImmutableChanged            -> "update"
                      [] ~differs /\ block.roles # state.roles   -> "update"
                      [] ~differs /\ block.roles = state.roles   -> "noop", manifest)

EndRun == pc' = "idle" /\ plan' = None

Approve ==
  /\ pc = "planned"
  /\ \/ plan.action = "noop" /\ EndRun
     \/ plan.action = "replace" /\ pc' = "delete" /\ UNCHANGED plan
     \/ plan.action \in {"create", "update"} /\ pc' = "patch" /\ UNCHANGED plan
  /\ UNCHANGED <<block, object, owners, state, bounds, applied>>

-----------------------------------------------------------------------------
(* Delete; Create and Update *)

Fault == faults < MaxFaults /\ faults' = faults + 1

Delete ==
  /\ pc = "delete"
  /\ object' = Nothing /\ owners' = [l \in Leaves |-> {}]
  /\ state' = None /\ applied' = None /\ pc' = "patch"
  /\ UNCHANGED <<block, plan, bounds>>

\* A leaf of the manifest that others own has another value.
Conflict(m) == \E l \in Leaves : m[l] # None /\ object[l] # m[l] /\ "other" \in owners[l]

\* Server-side apply: leaves of the manifest are written and owned; one that is not in
\* it any more is given up, and goes when nobody else owns it.
ServerSideApply(m) ==
  /\ object' = [l \in Leaves |->
       IF m[l] # None THEN m[l] ELSE IF owners[l] = {"tf"} THEN None ELSE object[l]]
  /\ owners' = [l \in Leaves |->
       IF m[l] = None THEN owners[l] \ {"tf"}
       ELSE IF object[l] = m[l] THEN owners[l] \cup {"tf"} ELSE {"tf"}]

\* applyManifest; force_conflicts is the block's.
Patch ==
  /\ pc = "patch"
  /\ LET refused == Conflict(plan.manifest) /\ ~plan.block.roles.force
     IN  \/ ~refused /\ ServerSideApply(plan.manifest) /\ pc' = "readBack"
            /\ UNCHANGED <<plan, faults>>
         \/ refused /\ EndRun /\ UNCHANGED <<object, owners, faults>>
         \/ Fault /\ EndRun /\ UNCHANGED <<object, owners>>
  /\ UNCHANGED <<block, state, edits, outside, applied>>

\* The object is read back, the manifest stored as planned.
ReadBack ==
  /\ pc = "readBack" /\ EndRun
  /\ \/ /\ state' = [manifest |-> plan.manifest, object |-> object, roles |-> plan.block.roles]
        /\ applied' = plan.block /\ UNCHANGED faults
     \/ Fault /\ UNCHANGED <<state, applied>>
  /\ UNCHANGED <<block, object, owners, edits, outside>>

-----------------------------------------------------------------------------

ProviderNext ==
  Read \/ PlanCreate \/ ModifyPlan \/ Approve \/ Delete \/ Patch \/ ReadBack

Next ==
  \/ \E b \in Blocks : Edit(b)
  \/ \E l \in Leaves, v \in Vals \cup {None} : OutsideSet(l, v)
  \/ StartRun \/ ProviderNext

Spec == Init /\ [][Next]_vars

\* The user keeps running Terraform, and a handler that was called returns.
FairSpec == Spec /\ WF_vars(StartRun) /\ WF_vars(ProviderNext)

-----------------------------------------------------------------------------
(* Properties *)

\* Terraform accepts the plan: its manifest is the block's or, undoing a change, the
\* prior one, and no mixture, whichever of the two reconciliations took place (the
\* guards against "Provider produced invalid plan").
PlanIsValid ==
  plan # None /\ state # None => plan.manifest \in {plan.block.val, state.manifest}

\* A resource is replaced when the user has changed the block and not because others
\* have changed an immutable field ("external changes to immutable fields don't cause a
\* false RequiresReplace", manifest_resource.go:1481-1482).
DriftDoesNotReplace == pc = "planned" /\ plan.action = "replace" => block # applied

\* When others have changed nothing but computed fields, nothing is planned ("remote
\* changes must never trigger an update diff", manifest_resource.go:1739-1740), with or
\* without the OpenAPI type.
ComputedDriftIsNoDiff ==
  pc = "planned" /\ state # None /\ block = applied =>
    \/ plan.action = "noop"
    \/ \E l \in Leaves : /\ state.manifest[l] # block.val[l]
                         /\ \A p \in ComputedPaths(block) : l \notin p

\* A plan without changes means that no field of the block, except the computed and the
\* immutable ones, was found with another value: the two do not hide drift elsewhere.
NoOpMeansNoDrift ==
  pc = "planned" /\ plan.action = "noop" =>
    \A l \in Leaves :
      block.val[l] = None \/ state.object[l] \in {None, block.val[l]}
        \/ \E p \in ComputedPaths(block) \cup block.roles.immutable : l \in p

\* Once the user, the others and the faults settle, so does the plan, unless another
\* manager holds a field and the block does not force its value.
Settles ==
  <>[](pc = "planned" =>
         plan.action = "noop" \/ (Conflict(plan.manifest) /\ ~plan.block.roles.force))
=============================================================================
