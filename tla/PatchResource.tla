---------------------------- MODULE PatchResource ----------------------------
(***************************************************************************)
(* kubectl_patch resources (kubectl/patch_resource.go) and invocations of  *)
(* the patch action (kubectl/patch_action.go), all working on one object.  *)
(*                                                                         *)
(* Abstractions.  An object is the values of its leaves, some at the top   *)
(* level and the others (Nested) in one map, and one array, of which only  *)
(* the number of times each item occurs is kept.  A map or an array that   *)
(* is empty is taken for one that is not there.  A Get is one atomic step  *)
(* and so is a Patch; anybody may write between the two, since the Patch   *)
(* carries no resourceVersion.  A Get that fails ends its operation with   *)
(* nothing changed and is left out.                                        *)
(***************************************************************************)
EXTENDS Integers

CONSTANTS
  Resources,       \* the kubectl_patch resources of the object
  PatchesOf,       \* the patches the user may write for each of them
  Below,           \* the resources each depends on (depends_on), directly or not
  ActionPatches,   \* the patches of the action
  Leaves, Nested,  \* places of scalars; those inside the map
  Required,        \* leaves the object's schema requires
  Vals,            \* values of scalars
  Items, Whole,    \* items of the array; those holding a whole number
  None,            \* nothing there
  Null, Keep,      \* in a patch or payload: a null, a place it does not name
  Legacy,          \* resources created before pre-patch values were stored
  Originals,       \* the object before it is patched
  MayVanish,       \* may others delete and re-create the object?
  Serial,          \* are the operations run one after the other?
  OutsideLeaves,   \* leaves others write to
  MaxEdits,        \* bound on changes of the configuration
  MaxFaults,       \* bound on Patch calls that fail or whose answer is lost
  MaxOutside       \* bound on what others do to the object

Objects == [leaf : [Leaves -> Vals \cup {None}], items : [Items -> Nat]]
Patches == [leaf : [Leaves -> Vals \cup {Null, Keep}], items : SUBSET Items]
Payloads == [leaf : [Leaves -> Vals \cup {Null, Keep}],
             items : [Items -> Nat] \cup {Keep}, dropMap : BOOLEAN]
PreValues == [Leaves -> Vals \cup {None}] \cup {None}   \* None: not stored, or nil
States == [patch : Patches, pre : PreValues]

\* The object keeps to its schema.
Valid(o) == \A l \in Required : o.leaf[l] # None

ASSUME PlacesAssumption ==
  /\ Nested \subseteq Leaves /\ Required \subseteq Leaves /\ OutsideLeaves \subseteq Leaves
  /\ Whole \subseteq Items /\ Legacy \subseteq Resources
ASSUME PatchesAssumption ==
  /\ PatchesOf \in [Resources -> SUBSET Patches] /\ ActionPatches \subseteq Patches
  /\ None \notin Patches
ASSUME OrderAssumption ==
  /\ Below \in [Resources -> SUBSET Resources]
  /\ \A r \in Resources : r \notin Below[r] /\ \A s \in Below[r] : Below[s] \subseteq Below[r]
ASSUME ValuesAssumption ==
  /\ {None, Null, Keep} \cap Vals = {} /\ Null # Keep
  /\ Keep \notin [Items -> Nat]
ASSUME OriginalsAssumption ==
  /\ Originals \subseteq Objects /\ \A o \in Originals : Valid(o)
  /\ None \notin Objects /\ None \notin [Leaves -> Vals \cup {None}] /\ None \notin States
ASSUME BoundsAssumption ==
  /\ MaxEdits \in Nat /\ MaxFaults \in Nat /\ MaxOutside \in Nat
  /\ Serial \in BOOLEAN /\ MayVanish \in BOOLEAN /\ "action" \notin Resources

Actors == Resources \cup {"action"}

VARIABLES
  object,   \* the object in the API server, or None
  want,     \* the patch each resource's block asks for, or None
  state,    \* each resource in the Terraform state, or None: its patch and the
            \* pre_patch_values of its private state
  op,       \* what each actor is doing: "idle", or between its Get and its Patch
  model,    \* the patch it works with: the block's, the stored one, the action's
  payload,  \* the body of the Patch it will send
  pre,      \* the pre-patch values extracted before it
  edits, faults, outside,   \* how much of each bound is used up
  base      \* ghost: the object as it would be had no resource patched it

memory == <<op, model, payload, pre>>
bounds == <<edits, faults, outside>>
vars == <<object, want, state, memory, bounds, base>>

NoPayload == [leaf |-> [l \in Leaves |-> Keep], items |-> Keep, dropMap |-> FALSE]

TypeOK ==
  /\ object \in Objects \cup {None}
  /\ want \in [Resources -> Patches \cup {None}]
  /\ state \in [Resources -> States \cup {None}]
  /\ op \in [Actors -> {"idle", "apply", "revert"}]
  /\ model \in [Actors -> Patches \cup {None}]
  /\ payload \in [Actors -> Payloads]
  /\ pre \in [Actors -> PreValues]
  /\ edits \in Nat /\ faults \in Nat /\ outside \in Nat
  /\ base \in Objects \cup {None}

Init ==
  /\ object \in Originals /\ base = object
  /\ want = [r \in Resources |-> None] /\ state = [r \in Resources |-> None]
  /\ op = [a \in Actors |-> "idle"] /\ model = [a \in Actors |-> None]
  /\ payload = [a \in Actors |-> NoPayload] /\ pre = [a \in Actors |-> None]
  /\ edits = 0 /\ faults = 0 /\ outside = 0

-----------------------------------------------------------------------------
(* Building the payloads *)

\* MapRemoveNulls: the nulls of a patch are not sent.
Sent(p, l) == IF p.leaf[l] = Null THEN Keep ELSE p.leaf[l]

\* extractPrePatchValues: what the object has where the payload will write.
ExtractPre(o, p) == [l \in Leaves |-> IF Sent(p, l) = Keep THEN None ELSE o.leaf[l]]

\* Deviation: the array is replaced instead of being appended to.
UniqueAppendReplaces(current, new) == [i \in Items |-> IF i \in new THEN 1 ELSE 0]

\* uniqueAppendSlice.  A patch's numbers are float64 and those of a Get int64, so an
\* item with a whole number never equals the one that is there.
UniqueAppend(current, new) ==
  [i \in Items |-> IF i \in new /\ (i \in Whole \/ current[i] = 0)
                   THEN current[i] + 1 ELSE current[i]]

\* Deviation: one occurrence is taken away, whether there is one or not.
RemoveFromOnce(current, gone) ==
  [i \in Items |-> IF i \in gone THEN current[i] - 1 ELSE current[i]]

\* removeFromSlice, which compares the same way.
RemoveFrom(current, gone) ==
  [i \in Items |-> IF i \in gone \ Whole THEN 0 ELSE current[i]]

\* mergeArraysWithCurrent of the patch without its nulls.
MergeArrays(o, p) ==
  [leaf |-> [l \in Leaves |-> Sent(p, l)],
   items |-> IF p.items = {} THEN Keep ELSE UniqueAppend(o.items, p.items),
   dropMap |-> FALSE]

HasMap(o) == \E l \in Nested : o.leaf[l] # None
NamesMap(p) == \E l \in Nested : p.leaf[l] # Keep

\* prePatch of the level l is at: nil for the map when nothing in it was recorded.
LevelRecorded(stored, l) ==
  stored # None /\ (l \in Nested => \E k \in Nested : stored[k] # None)

\* Deviation: every scalar is deleted, whether it was there before or not.
BuildRevertNullifies(o, p, stored) ==
  [leaf |-> [l \in Leaves |-> IF p.leaf[l] = Keep THEN Keep ELSE Null],
   items |-> IF p.items = {} THEN Keep ELSE RemoveFrom(o.items, p.items),
   dropMap |-> FALSE]

\* Deviation: the map is deleted, with what others have in it.
BuildRevertDropsMap(o, p, stored) ==
  [leaf |-> [l \in Leaves |-> IF p.leaf[l] = Keep THEN Keep
                              ELSE IF stored # None /\ stored[l] # None THEN stored[l] ELSE Null],
   items |-> IF p.items = {} THEN Keep ELSE RemoveFrom(o.items, p.items),
   dropMap |-> NamesMap(p)]

\* buildRevertPayload from the patch as the user wrote it, nulls included.
BuildRevert(o, p, stored) ==
  [leaf |-> [l \in Leaves |->
               IF p.leaf[l] = Keep \/ ~LevelRecorded(stored, l) \/ (l \in Nested /\ ~HasMap(o))
               THEN Keep
               ELSE IF stored[l] # None THEN stored[l] ELSE Null],
   items |-> IF p.items = {} THEN Keep ELSE RemoveFrom(o.items, p.items),
   dropMap |-> NamesMap(p) /\ ~HasMap(o) /\ stored # None]

\* What the API server makes of a merge patch (RFC 7396).
MergePatch(o, body) ==
  [leaf |-> [l \in Leaves |->
               IF body.dropMap /\ l \in Nested THEN None
               ELSE CASE body.leaf[l] = Keep -> o.leaf[l]
                      [] body.leaf[l] = Null -> None
                      [] OTHER               -> body.leaf[l]],
   items |-> IF body.items = Keep THEN o.items ELSE body.items]

-----------------------------------------------------------------------------
(* The user, and others *)

Ordered(r, s) == r \in Below[s] \/ s \in Below[r]

\* A block depends on blocks that are there.
Edit(r, p) ==
  /\ op[r] = "idle" /\ p # want[r]
  /\ IF p = None THEN \A s \in Resources : r \in Below[s] => want[s] = None
     ELSE \A s \in Below[r] : want[s] # None
  /\ edits < MaxEdits /\ edits' = edits + 1
  /\ want' = [want EXCEPT ![r] = p]
  /\ UNCHANGED <<object, state, memory, faults, outside, base>>

Outside ==
  /\ outside < MaxOutside /\ outside' = outside + 1
  /\ UNCHANGED <<want, state, memory, edits, faults>>

OutsideSet(l, v) ==
  /\ Outside /\ object # None
  /\ object' = [object EXCEPT !.leaf[l] = v] /\ Valid(object')
  /\ base' = [base EXCEPT !.leaf[l] = v]

OutsideDelete == MayVanish /\ Outside /\ object # None /\ object' = None /\ base' = None

OutsideCreate(o) == Outside /\ object = None /\ object' = o /\ base' = o

-----------------------------------------------------------------------------
(* Create and Update; Delete; Read; the action *)

\* The Get has answered; what follows from it is computed at once.
Start(a, name, p, body, values) ==
  /\ Serial => \A b \in Actors : op[b] = "idle"
  /\ op[a] = "idle" /\ op' = [op EXCEPT ![a] = name]
  /\ model' = [model EXCEPT ![a] = p]
  /\ payload' = [payload EXCEPT ![a] = body]
  /\ pre' = [pre EXCEPT ![a] = values]
  /\ UNCHANGED <<object, want, state, bounds, base>>

Forget(a) ==
  /\ op' = [op EXCEPT ![a] = "idle"]
  /\ model' = [model EXCEPT ![a] = None]
  /\ payload' = [payload EXCEPT ![a] = NoPayload]
  /\ pre' = [pre EXCEPT ![a] = None]

\* Terraform core runs an operation neither beside nor before one it has to wait for: what
\* r depends on is there as configured, what depends on r is gone.
Alone(r) == \A s \in Resources : Ordered(r, s) => op[s] = "idle"
OnTop(r) == Alone(r) /\ \A s \in Below[r] : state[s] # None /\ state[s].patch = want[s]
AtTop(r) == Alone(r) /\ \A s \in Resources : r \in Below[s] => state[s] = None

Fault == faults < MaxFaults /\ faults' = faults + 1
NoFault == UNCHANGED faults

\* The Patch call: it succeeds, its object is gone, or it fails (the schema refuses
\* it, or a fault) with or without effect.
PatchCall(a, outcome) ==
  CASE outcome = "done" -> /\ object # None /\ NoFault
                           /\ object' = MergePatch(object, payload[a]) /\ Valid(object')
    [] outcome = "notfound" -> object = None /\ NoFault /\ UNCHANGED object
    [] outcome = "failed" -> /\ UNCHANGED object
                             /\ \/ Fault
                                \/ /\ object # None /\ ~Valid(MergePatch(object, payload[a]))
                                   /\ NoFault
    [] outcome = "lost" -> /\ object # None /\ Fault
                           /\ object' = MergePatch(object, payload[a]) /\ Valid(object')

\* ModifyPlan compares the patch with the stored one, and with nothing else.
ApplyGet(r) ==
  /\ object # None /\ want[r] # None /\ OnTop(r)
  /\ state[r] # None => state[r].patch # want[r]
  /\ Start(r, "apply", want[r], MergeArrays(object, want[r]),
           IF r \in Legacy THEN None ELSE ExtractPre(object, want[r]))

\* A Create or Update that succeeds stores its patch and the values it extracted;
\* one that fails stores nothing.
ApplyPatch(r) ==
  /\ op[r] = "apply" /\ Forget(r)
  /\ \/ /\ PatchCall(r, "done")
        /\ state' = [state EXCEPT ![r] = [patch |-> model[r], pre |-> pre[r]]]
     \/ /\ \E outcome \in {"notfound", "failed", "lost"} : PatchCall(r, outcome)
        /\ UNCHANGED state
  /\ UNCHANGED <<want, edits, outside, base>>

RevertGet(r) ==
  /\ want[r] = None /\ state[r] # None /\ object # None /\ AtTop(r)
  /\ Start(r, "revert", state[r].patch, BuildRevert(object, state[r].patch, state[r].pre), None)

RevertPatch(r) ==
  /\ op[r] = "revert" /\ Forget(r)
  /\ \/ /\ \E outcome \in {"done", "notfound"} : PatchCall(r, outcome)
        /\ state' = [state EXCEPT ![r] = None]
     \/ /\ \E outcome \in {"failed", "lost"} : PatchCall(r, outcome)
        /\ UNCHANGED state
  /\ UNCHANGED <<want, edits, outside, base>>

\* The object of a Read or a Delete is gone: so is the resource.
TargetGone(r) ==
  /\ op[r] = "idle" /\ state[r] # None /\ object = None
  /\ state' = [state EXCEPT ![r] = None]
  /\ UNCHANGED <<object, want, memory, bounds, base>>

\* The action extracts no pre-patch values and keeps no state.
InvokeGet(p) ==
  /\ object # None
  /\ Start("action", "apply", p, MergeArrays(object, p), None)

InvokePatch ==
  /\ op["action"] = "apply" /\ Forget("action")
  /\ \/ /\ \E outcome \in {"done", "lost"} : PatchCall("action", outcome)
        /\ base' = MergePatch(base, MergeArrays(base, model["action"]))
     \/ /\ \E outcome \in {"notfound", "failed"} : PatchCall("action", outcome)
        /\ UNCHANGED base
  /\ UNCHANGED <<want, state, edits, outside>>

-----------------------------------------------------------------------------

UserNext == \E r \in Resources : \E p \in PatchesOf[r] \cup {None} : Edit(r, p)

OutsideNext ==
  \/ \E l \in OutsideLeaves, v \in Vals \cup {None} : OutsideSet(l, v)
  \/ OutsideDelete
  \/ \E o \in Originals : OutsideCreate(o)

ResourceNext(r) ==
  ApplyGet(r) \/ ApplyPatch(r) \/ RevertGet(r) \/ RevertPatch(r) \/ TargetGone(r)

ActionNext == InvokePatch \/ \E p \in ActionPatches : InvokeGet(p)

Next == UserNext \/ OutsideNext \/ ActionNext \/ \E r \in Resources : ResourceNext(r)

Spec == Init /\ [][Next]_vars

\* The user keeps running Terraform, and a handler that was called returns.
Fairness == \A r \in Resources : WF_vars(ResourceNext(r))

FairSpec == Spec /\ Fairness

-----------------------------------------------------------------------------
(* Properties *)

\* The patch of a resource as PatchOverlay sees it: what it stands for while applied.
Promise == INSTANCE PatchOverlay WITH
  applied <- [r \in Resources |-> IF state[r] = None THEN None ELSE state[r].patch]

\* The object is always the one others have made with the applied patches laid over
\* it, so that a destroyed patch leaves no trace (the comment of revertPatch).
OverlayKept == Promise!Spec

\* Create, Update, Delete and the action change what their patch names and nothing
\* else, whoever else is at work ("it only applies and reverts a targeted patch",
\* docs/resources/patch.md:10).
OthersUntouched ==
  [][\A a \in Actors : (op[a] # "idle" /\ op'[a] = "idle" /\ object' # object) =>
       (/\ \A l \in Leaves : object'.leaf[l] # object.leaf[l] => model[a].leaf[l] # Keep
        /\ \A i \in Items : object'.items[i] # object.items[i] => i \in model[a].items)]_vars

\* The schema never refuses a revert: a required field is restored and not deleted
\* (patch_resource.go:612-614, TestIntegration_Patch_RevertRequiredField).
RevertIsAccepted ==
  \A r \in Resources :
    op[r] = "revert" /\ object # None => Valid(MergePatch(object, payload[r]))

\* Once the user, the others and the faults settle, the patches applied are the ones
\* in the configuration.
Converges ==
  <>[](\A r \in Resources :
         IF want[r] = None THEN state[r] = None
         ELSE object = None \/ (state[r] # None /\ state[r].patch = want[r]))
=============================================================================
