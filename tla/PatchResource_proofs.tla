------------------------- MODULE PatchResource_proofs -------------------------
(***************************************************************************)
(* Proofs about PatchResource, for every number of resources, every shape  *)
(* of the object, all patches and all bounds.  RecordInv follows the       *)
(* original values of required leaves from the Get of a Create or Update   *)
(* to the revert of a Delete.                                              *)
(***************************************************************************)
EXTENDS PatchResource, TLAPS

Arrays == [Items -> Nat]

\* There is an object with the patches exactly when there is one without them, and it
\* keeps to its schema.
ObjectInv ==
  /\ object = None <=> base = None
  /\ object # None => Valid(object)

\* An operation has a patch to work with.
OpInv == \A a \in Actors : op[a] # "idle" => model[a] \in Patches

TypeInv == TypeOK /\ ObjectInv /\ OpInv

-----------------------------------------------------------------------------
(* The payloads *)

LEMMA SentType ==
  ASSUME NEW p \in Patches, NEW l \in Leaves
  PROVE  Sent(p, l) \in Vals \cup {Keep}
BY DEF Patches, Sent

LEMMA MergeArraysType ==
  ASSUME NEW o \in Objects, NEW p \in Patches
  PROVE  MergeArrays(o, p) \in Payloads
<1>1. UniqueAppend(o.items, p.items) \in Arrays
  BY DEF UniqueAppend, Objects, Arrays
<1> QED
  BY <1>1, SentType DEF MergeArrays, Payloads, Arrays

LEMMA ExtractType ==
  ASSUME NEW o \in Objects, NEW p \in Patches
  PROVE  ExtractPre(o, p) \in [Leaves -> Vals \cup {None}]
BY DEF ExtractPre, Objects

LEMMA BuildRevertType ==
  ASSUME NEW o \in Objects, NEW p \in Patches, NEW stored \in PreValues
  PROVE  BuildRevert(o, p, stored) \in Payloads
<1>1. RemoveFrom(o.items, p.items) \in Arrays
  BY DEF RemoveFrom, Objects, Arrays
<1>2. ASSUME NEW l \in Leaves, LevelRecorded(stored, l), stored[l] # None
      PROVE  stored[l] \in Vals
  BY <1>2 DEF LevelRecorded, PreValues
<1>3. \A l \in Leaves : BuildRevert(o, p, stored).leaf[l] \in Vals \cup {Null, Keep}
  BY <1>2 DEF BuildRevert
<1> QED
  BY <1>1, <1>3 DEF BuildRevert, Payloads, Arrays

LEMMA MergePatchType ==
  ASSUME NEW o \in Objects, NEW body \in Payloads
  PROVE  MergePatch(o, body) \in Objects
<1>1. \A l \in Leaves : body.leaf[l] \in Vals \cup {Null, Keep} /\ o.leaf[l] \in Vals \cup {None}
  BY DEF Objects, Payloads
<1>2. body.items \in Arrays \cup {Keep} /\ o.items \in Arrays
  BY DEF Objects, Payloads, Arrays
<1> QED
  BY <1>1, <1>2 DEF MergePatch, Objects, Arrays

\* A body that drops no map, leaf by leaf and item by item.
LEMMA MergePatchAt ==
  ASSUME NEW o \in Objects, NEW body \in Payloads, ~body.dropMap
  PROVE  /\ \A l \in Leaves : /\ body.leaf[l] = Keep => MergePatch(o, body).leaf[l] = o.leaf[l]
                              /\ body.leaf[l] = Null => MergePatch(o, body).leaf[l] = None
                              /\ body.leaf[l] \notin {Keep, Null} =>
                                   MergePatch(o, body).leaf[l] = body.leaf[l]
         /\ body.items = Keep => MergePatch(o, body).items = o.items
         /\ body.items # Keep => MergePatch(o, body).items = body.items
BY ValuesAssumption DEF MergePatch

LEMMA NoPayloadType == NoPayload \in Payloads
BY DEF NoPayload, Payloads

-----------------------------------------------------------------------------
(* Types *)

LEMMA InitTypes == Init => TypeInv
BY NoPayloadType, OriginalsAssumption DEF Init, TypeInv, TypeOK, ObjectInv, OpInv, PreValues

LEMMA EditKeepsTypes ==
  ASSUME TypeInv, NEW r \in Resources, NEW p \in PatchesOf[r] \cup {None}, Edit(r, p)
  PROVE  TypeInv'
<1>1. p \in Patches \cup {None}
  BY PatchesAssumption
<1> QED
  BY <1>1 DEF TypeInv, TypeOK, ObjectInv, OpInv, Edit, memory

LEMMA OutsideKeepsTypes == ASSUME TypeInv, OutsideNext PROVE TypeInv'
<1>1. outside' \in Nat /\ UNCHANGED <<want, state, memory, edits, faults>>
  BY DEF OutsideNext, OutsideSet, OutsideDelete, OutsideCreate, Outside, TypeInv, TypeOK
<1>2. CASE \E l \in OutsideLeaves, v \in Vals \cup {None} : OutsideSet(l, v)
  <2>1. object \in Objects /\ base \in Objects
    BY <1>2 DEF OutsideSet, TypeInv, TypeOK, ObjectInv
  <2>2. object' \in Objects /\ base' \in Objects /\ Valid(object')
    BY <1>2, <2>1, PlacesAssumption DEF OutsideSet, Objects
  <2>3. object' # None /\ base' # None
    BY <2>2, OriginalsAssumption
  <2> QED
    BY <1>1, <2>2, <2>3 DEF TypeInv, TypeOK, ObjectInv, OpInv, memory
<1>3. CASE OutsideDelete
  BY <1>1, <1>3 DEF OutsideDelete, TypeInv, TypeOK, ObjectInv, OpInv, memory
<1>4. CASE \E o \in Originals : OutsideCreate(o)
  BY <1>1, <1>4, OriginalsAssumption DEF OutsideCreate, TypeInv, TypeOK, ObjectInv, OpInv, memory
<1> QED
  BY <1>2, <1>3, <1>4 DEF OutsideNext

LEMMA StartKeepsTypes ==
  ASSUME TypeInv, NEW a \in Actors, NEW name \in {"apply", "revert"}, NEW p \in Patches,
         NEW body \in Payloads, NEW values \in PreValues, Start(a, name, p, body, values)
  PROVE  TypeInv'
BY DEF TypeInv, TypeOK, ObjectInv, OpInv, Start, bounds

\* The Patch call leaves an object that keeps to its schema.
LEMMA PatchCallKeepsObject ==
  ASSUME TypeInv, NEW a \in Actors, NEW outcome \in {"done", "notfound", "failed", "lost"},
         PatchCall(a, outcome)
  PROVE  /\ object' \in Objects \cup {None} /\ (object' = None <=> object = None)
         /\ object' # None => Valid(object')
         /\ faults' \in Nat
         /\ outcome \in {"done", "lost"} => object \in Objects
<1>0. faults \in Nat /\ payload[a] \in Payloads
  BY DEF TypeInv, TypeOK
<1>1. CASE outcome \in {"done", "lost"}
  <2>1. object # None /\ object' = MergePatch(object, payload[a]) /\ Valid(object')
    <3>1. CASE outcome = "done"
      BY <3>1 DEF PatchCall
    <3>2. CASE outcome = "lost"
      BY <3>2 DEF PatchCall
    <3> QED
      BY <1>1, <3>1, <3>2
  <2>2. object \in Objects
    BY <2>1 DEF TypeInv, TypeOK
  <2>3. object' \in Objects
    BY <1>0, <2>1, <2>2, MergePatchType
  <2>4. faults' = faults \/ faults' = faults + 1
    <3>1. CASE outcome = "done"
      BY <3>1 DEF PatchCall, NoFault
    <3>2. CASE outcome = "lost"
      BY <3>2 DEF PatchCall, Fault
    <3> QED
      BY <1>1, <3>1, <3>2
  <2>5. faults' \in Nat
    BY <1>0, <2>4
  <2> QED
    BY <2>1, <2>2, <2>3, <2>5, OriginalsAssumption
<1>2. CASE outcome = "notfound"
  <2>1. object' = object /\ faults' = faults
    BY <1>2 DEF PatchCall, NoFault
  <2> QED
    BY <1>0, <1>2, <2>1 DEF TypeInv, TypeOK, ObjectInv
<1>3. CASE outcome = "failed"
  <2>1. object' = object /\ (faults' = faults \/ faults' = faults + 1)
    BY <1>3 DEF PatchCall, Fault, NoFault
  <2>2. Valid(object') <=> Valid(object)
    BY <2>1
  <2> QED
    BY <1>0, <1>3, <2>1, <2>2 DEF TypeInv, TypeOK, ObjectInv
<1> QED
  BY <1>1, <1>2, <1>3

LEMMA ForgetKeepsTypes ==
  ASSUME TypeInv, NEW a \in Actors, Forget(a)
  PROVE  /\ op' \in [Actors -> {"idle", "apply", "revert"}]
         /\ model' \in [Actors -> Patches \cup {None}]
         /\ payload' \in [Actors -> Payloads] /\ pre' \in [Actors -> PreValues]
         /\ OpInv'
BY NoPayloadType DEF TypeInv, TypeOK, OpInv, Forget, PreValues

LEMMA ResourceKeepsTypes ==
  ASSUME TypeInv, NEW r \in Resources, ResourceNext(r)
  PROVE  TypeInv'
<1>0. r \in Actors
  BY DEF Actors
<1>1. CASE ApplyGet(r)
  <2>1. object \in Objects /\ want[r] \in Patches
    BY <1>1 DEF ApplyGet, TypeInv, TypeOK
  <2>2. (IF r \in Legacy THEN None ELSE ExtractPre(object, want[r])) \in PreValues
    BY <2>1, ExtractType DEF PreValues
  <2> QED
    BY <1>0, <1>1, <2>1, <2>2, MergeArraysType, StartKeepsTypes DEF ApplyGet
<1>2. CASE RevertGet(r)
  <2>1. object \in Objects /\ state[r] \in States
    BY <1>2 DEF RevertGet, TypeInv, TypeOK
  <2>2. state[r].patch \in Patches /\ state[r].pre \in PreValues /\ None \in PreValues
    BY <2>1 DEF States, PreValues
  <2> QED
    BY <1>0, <1>2, <2>1, <2>2, BuildRevertType, StartKeepsTypes DEF RevertGet
<1>3. CASE ApplyPatch(r) \/ RevertPatch(r)
  <2>1. PICK outcome \in {"done", "notfound", "failed", "lost"} : PatchCall(r, outcome)
    BY <1>3 DEF ApplyPatch, RevertPatch
  <2>2. Forget(r) /\ UNCHANGED <<want, edits, outside, base>>
    BY <1>3 DEF ApplyPatch, RevertPatch
  <2>3. op[r] # "idle" => [patch |-> model[r], pre |-> pre[r]] \in States
    BY <1>0 DEF TypeInv, TypeOK, OpInv, States
  <2>4. state' \in [Resources -> States \cup {None}]
    BY <1>3, <2>3 DEF ApplyPatch, RevertPatch, TypeInv, TypeOK
  <2>5. /\ object' \in Objects \cup {None} /\ (object' = None <=> object = None)
        /\ object' # None => Valid(object')
        /\ faults' \in Nat
    BY <1>0, <2>1, PatchCallKeepsObject
  <2>6. /\ op' \in [Actors -> {"idle", "apply", "revert"}]
        /\ model' \in [Actors -> Patches \cup {None}]
        /\ payload' \in [Actors -> Payloads] /\ pre' \in [Actors -> PreValues]
        /\ OpInv'
    BY <1>0, <2>2, ForgetKeepsTypes
  <2>7. TypeOK'
    BY <2>2, <2>4, <2>5, <2>6 DEF TypeInv, TypeOK
  <2>8. ObjectInv'
    BY <2>2, <2>5 DEF TypeInv, ObjectInv
  <2> QED
    BY <2>6, <2>7, <2>8 DEF TypeInv
<1>4. CASE TargetGone(r)
  BY <1>4 DEF TargetGone, TypeInv, TypeOK, ObjectInv, OpInv, memory, bounds
<1> QED
  BY <1>1, <1>2, <1>3, <1>4 DEF ResourceNext

LEMMA ActionKeepsTypes == ASSUME TypeInv, ActionNext PROVE TypeInv'
<1>0. "action" \in Actors
  BY DEF Actors
<1>1. ASSUME NEW p \in ActionPatches, InvokeGet(p) PROVE TypeInv'
  <2>1. object \in Objects /\ p \in Patches /\ None \in PreValues
    BY <1>1, PatchesAssumption DEF InvokeGet, TypeInv, TypeOK, PreValues
  <2> QED
    BY <1>0, <1>1, <2>1, MergeArraysType, StartKeepsTypes DEF InvokeGet
<1>2. CASE InvokePatch
  <2>1. PICK outcome \in {"done", "notfound", "failed", "lost"} :
          /\ PatchCall("action", outcome)
          /\ IF outcome \in {"done", "lost"}
             THEN base' = MergePatch(base, MergeArrays(base, model["action"])) ELSE base' = base
    BY <1>2 DEF InvokePatch
  <2>2. model["action"] \in Patches
    BY <1>0, <1>2 DEF InvokePatch, TypeInv, OpInv
  <2>3. base' \in Objects \cup {None} /\ (base' = None <=> base = None)
    <3>1. CASE outcome \in {"done", "lost"}
      <4>1. base \in Objects
        BY <1>0, <2>1, <3>1, PatchCallKeepsObject, OriginalsAssumption DEF TypeInv, TypeOK, ObjectInv
      <4>2. base' \in Objects
        BY <2>1, <2>2, <3>1, <4>1, MergeArraysType, MergePatchType
      <4> QED
        BY <4>1, <4>2, OriginalsAssumption
    <3>2. CASE outcome \notin {"done", "lost"}
      BY <2>1, <3>2 DEF TypeInv, TypeOK
    <3> QED
      BY <3>1, <3>2
  <2>4. Forget("action") /\ UNCHANGED <<want, state, edits, outside>>
    BY <1>2 DEF InvokePatch
  <2>5. /\ object' \in Objects \cup {None} /\ (object' = None <=> object = None)
        /\ object' # None => Valid(object')
        /\ faults' \in Nat
    BY <1>0, <2>1, PatchCallKeepsObject
  <2>6. /\ op' \in [Actors -> {"idle", "apply", "revert"}]
        /\ model' \in [Actors -> Patches \cup {None}]
        /\ payload' \in [Actors -> Payloads] /\ pre' \in [Actors -> PreValues]
        /\ OpInv'
    BY <1>0, <2>4, ForgetKeepsTypes
  <2>7. TypeOK'
    BY <2>3, <2>4, <2>5, <2>6 DEF TypeInv, TypeOK
  <2>8. ObjectInv'
    BY <2>3, <2>5 DEF TypeInv, ObjectInv
  <2> QED
    BY <2>6, <2>7, <2>8 DEF TypeInv
<1> QED
  BY <1>1, <1>2 DEF ActionNext

LEMMA NextTypes == TypeInv /\ [Next]_vars => TypeInv'
<1> SUFFICES ASSUME TypeInv, [Next]_vars PROVE TypeInv'
  OBVIOUS
<1>1. CASE UNCHANGED vars
  BY <1>1 DEF vars, memory, bounds, TypeInv, TypeOK, ObjectInv, OpInv
<1> QED
  BY <1>1, EditKeepsTypes, OutsideKeepsTypes, ResourceKeepsTypes, ActionKeepsTypes
     DEF Next, UserNext

\* Objects, payloads and pre-patch values keep their types: no merge or revert makes a
\* value up, and no item is taken away more often than it is there.
THEOREM TypeCorrect == Spec => []TypeOK
<1>1. TypeInv => TypeOK
  BY DEF TypeInv
<1> QED
  BY <1>1, InitTypes, NextTypes, PTL DEF Spec

-----------------------------------------------------------------------------
(* What lasts *)

\* The leaves that are there as long as the object is: no patch has a null for them, and
\* the schema requires them or they were there at first and nobody else writes to them.
Lasting ==
  {l \in Leaves :
    /\ \A r \in Resources : \A p \in PatchesOf[r] : p.leaf[l] # Null
    /\ l \in Required \/ (l \notin OutsideLeaves /\ \A o \in Originals : o.leaf[l] # None)}

Lasts(o) == \A l \in Lasting : o.leaf[l] # None

\* What was recorded of the object restores every lasting leaf the patch names.
Restores(p, stored) ==
  stored # None =>
    \A l \in Lasting : p.leaf[l] # Keep => p.leaf[l] # Null /\ stored[l] # None

\* A body that takes no lasting leaf away, whatever the object has become.
Spares(body) == \A l \in Lasting : body.leaf[l] # Null /\ (body.dropMap => l \notin Nested)

LastInv == object # None => Lasts(object)
WantInv == \A r \in Resources : want[r] \in PatchesOf[r] \cup {None}
StoredInv == \A r \in Resources : state[r] # None => Restores(state[r].patch, state[r].pre)
ApplyingInv == \A r \in Resources : op[r] = "apply" => Restores(model[r], pre[r])
SparingInv == \A a \in Actors : Spares(payload[a])

RecordInv == LastInv /\ WantInv /\ StoredInv /\ ApplyingInv /\ SparingInv

LEMMA LastingLeaves == Lasting \subseteq Leaves
BY DEF Lasting

LEMMA OriginalsLast == \A o \in Originals : o # None /\ Lasts(o)
BY OriginalsAssumption DEF Lasts, Lasting, Valid

LEMMA ExtractRestores ==
  ASSUME NEW o \in Objects, Lasts(o), NEW r \in Resources, NEW p \in PatchesOf[r]
  PROVE  Restores(p, ExtractPre(o, p))
BY DEF Lasting, Lasts, Restores, ExtractPre, Sent

\* The nulls of a patch are not sent.
LEMMA MergeArraysSpares == \A o, p : Spares(MergeArrays(o, p))
BY LastingLeaves, ValuesAssumption DEF Spares, MergeArrays, Sent

LEMMA RevertSpares ==
  ASSUME NEW o \in Objects, Lasts(o), NEW p \in Patches, NEW stored \in PreValues,
         Restores(p, stored)
  PROVE  Spares(BuildRevert(o, p, stored))
<1>1. ASSUME NEW l \in Lasting PROVE BuildRevert(o, p, stored).leaf[l] # Null
  <2>0. l \in Leaves
    BY LastingLeaves
  <2>1. CASE p.leaf[l] = Keep \/ ~LevelRecorded(stored, l) \/ (l \in Nested /\ ~HasMap(o))
    BY <2>0, <2>1, ValuesAssumption DEF BuildRevert
  <2>2. CASE ~(p.leaf[l] = Keep \/ ~LevelRecorded(stored, l) \/ (l \in Nested /\ ~HasMap(o)))
    <3>1. stored # None /\ stored[l] # None
      BY <2>2 DEF LevelRecorded, Restores
    <3>2. stored[l] \in Vals
      BY <2>0, <3>1 DEF PreValues
    <3> QED
      BY <2>0, <2>2, <3>1, <3>2, ValuesAssumption DEF BuildRevert
  <2> QED
    BY <2>1, <2>2
<1>2. ASSUME NEW l \in Lasting, l \in Nested PROVE HasMap(o)
  BY <1>2 DEF HasMap, Lasts
<1>3. BuildRevert(o, p, stored).dropMap => ~HasMap(o)
  BY DEF BuildRevert
<1> QED
  BY <1>1, <1>2, <1>3 DEF Spares

LEMMA SparedLasts ==
  ASSUME NEW o \in Objects, Lasts(o), NEW body \in Payloads, Spares(body)
  PROVE  Lasts(MergePatch(o, body))
<1>1. \A l \in Leaves : body.leaf[l] \in Vals \cup {Null, Keep}
  BY DEF Payloads
<1> QED
  BY <1>1, LastingLeaves, ValuesAssumption DEF Lasts, Spares, MergePatch

\* A Patch call has the effect of its body, or none.
LEMMA PatchCallActs ==
  ASSUME NEW a \in Actors, NEW outcome \in {"done", "notfound", "failed", "lost"},
         PatchCall(a, outcome)
  PROVE  \/ object' = object
         \/ object # None /\ object' = MergePatch(object, payload[a])
BY DEF PatchCall

LEMMA PatchedLasts ==
  ASSUME TypeInv, RecordInv, NEW a \in Actors,
         NEW outcome \in {"done", "notfound", "failed", "lost"}, PatchCall(a, outcome)
  PROVE  LastInv'
<1>1. CASE object' = object
  BY <1>1 DEF RecordInv, LastInv, Lasts
<1>2. CASE object # None /\ object' = MergePatch(object, payload[a])
  BY <1>2, SparedLasts DEF TypeInv, TypeOK, RecordInv, LastInv, SparingInv, Lasts
<1> QED
  BY <1>1, <1>2, PatchCallActs

\* A change of one actor's payload.
LEMMA SparingKept ==
  ASSUME TypeInv, RecordInv, NEW a \in Actors, NEW body, Spares(body),
         payload' = [payload EXCEPT ![a] = body]
  PROVE  SparingInv'
BY DEF TypeInv, TypeOK, RecordInv, SparingInv, Spares

LEMMA NoPayloadSpares == Spares(NoPayload)
BY LastingLeaves, ValuesAssumption DEF Spares, NoPayload

LEMMA InitRecord == Init => RecordInv
BY OriginalsLast, NoPayloadSpares
   DEF Init, RecordInv, LastInv, WantInv, StoredInv, ApplyingInv, SparingInv, Actors

LEMMA OutsideKeepsRecord == ASSUME TypeInv, RecordInv, OutsideNext PROVE RecordInv'
<1>1. UNCHANGED <<want, state, op, model, payload, pre>>
  BY DEF OutsideNext, OutsideSet, OutsideDelete, OutsideCreate, Outside, memory
<1>2. LastInv'
  <2>1. ASSUME NEW l \in OutsideLeaves, NEW v \in Vals \cup {None}, OutsideSet(l, v)
        PROVE  Lasts(object)'
    <3> SUFFICES ASSUME NEW k \in Lasting PROVE object'.leaf[k] # None
      BY DEF Lasts
    <3>1. CASE k \in Required
      BY <2>1, <3>1 DEF OutsideSet, Valid
    <3>2. CASE k \notin OutsideLeaves
      <4>1. object # None /\ object \in Objects /\ object' = [object EXCEPT !.leaf[l] = v] /\ k # l
        BY <2>1, <3>2 DEF OutsideSet, TypeInv, TypeOK
      <4> QED
        BY <4>1, LastingLeaves DEF Objects, RecordInv, LastInv, Lasts
    <3> QED
      BY <3>1, <3>2 DEF Lasting
  <2>2. CASE OutsideDelete
    BY <2>2 DEF OutsideDelete, LastInv
  <2>3. ASSUME NEW o \in Originals, OutsideCreate(o) PROVE Lasts(object)'
    BY <2>3, OriginalsLast DEF OutsideCreate, Lasts
  <2> QED
    BY <2>1, <2>2, <2>3 DEF OutsideNext, LastInv
<1> QED
  BY <1>1, <1>2 DEF RecordInv, WantInv, StoredInv, ApplyingInv, SparingInv, Restores, Spares

LEMMA ActionKeepsRecord == ASSUME TypeInv, RecordInv, ActionNext PROVE RecordInv'
<1>0. "action" \in Actors /\ \A r \in Resources : r \in Actors /\ r # "action"
  BY BoundsAssumption DEF Actors
<1>1. \A r \in Resources : op'[r] = op[r] /\ model'[r] = model[r] /\ pre'[r] = pre[r]
  BY <1>0 DEF ActionNext, InvokeGet, InvokePatch, Start, Forget, TypeInv, TypeOK
<1>2. UNCHANGED <<want, state>>
  BY DEF ActionNext, InvokeGet, InvokePatch, Start
<1>3. LastInv'
  <2>1. CASE InvokePatch
    <3>1. PICK outcome \in {"done", "notfound", "failed", "lost"} : PatchCall("action", outcome)
      BY <2>1 DEF InvokePatch
    <3> QED
      BY <1>0, <3>1, PatchedLasts
  <2>2. CASE object' = object
    BY <2>2 DEF RecordInv, LastInv, Lasts
  <2> QED
    BY <2>1, <2>2 DEF ActionNext, InvokeGet, Start
<1>4. SparingInv'
  <2>1. CASE InvokePatch
    BY <1>0, <2>1, NoPayloadSpares, SparingKept DEF InvokePatch, Forget
  <2>2. ASSUME NEW p \in ActionPatches, InvokeGet(p) PROVE SparingInv'
    BY <1>0, <2>2, MergeArraysSpares, SparingKept DEF InvokeGet, Start
  <2> QED
    BY <2>1, <2>2 DEF ActionNext
<1> QED
  BY <1>1, <1>2, <1>3, <1>4 DEF RecordInv, WantInv, StoredInv, ApplyingInv, Restores

LEMMA ResourceKeepsRecord ==
  ASSUME TypeInv, RecordInv, NEW r \in Resources, ResourceNext(r)
  PROVE  RecordInv'
<1>0. r \in Actors /\ Resources \subseteq Actors
  BY DEF Actors
<1>1. CASE ApplyGet(r)
  <2>1. object \in Objects /\ Lasts(object) /\ want[r] \in PatchesOf[r]
    BY <1>1 DEF ApplyGet, TypeInv, TypeOK, RecordInv, LastInv, WantInv
  <2>2. Restores(want[r], ExtractPre(object, want[r])) /\ Restores(want[r], None)
    BY <2>1, ExtractRestores DEF Restores
  <2>3. /\ op' = [op EXCEPT ![r] = "apply"] /\ model' = [model EXCEPT ![r] = want[r]]
        /\ pre' = [pre EXCEPT ![r] = IF r \in Legacy THEN None ELSE ExtractPre(object, want[r])]
        /\ payload' = [payload EXCEPT ![r] = MergeArrays(object, want[r])]
        /\ UNCHANGED <<object, want, state>>
    BY <1>1 DEF ApplyGet, Start
  <2>4. ApplyingInv'
    <3> SUFFICES ASSUME NEW s \in Resources, (op[s] = "apply")' PROVE Restores(model[s], pre[s])'
      BY DEF ApplyingInv
    <3>1. CASE s = r
      BY <1>0, <2>2, <2>3, <3>1 DEF TypeInv, TypeOK, Restores
    <3>2. CASE s # r
      BY <1>0, <2>3, <3>2 DEF TypeInv, TypeOK, RecordInv, ApplyingInv, Restores
    <3> QED
      BY <3>1, <3>2
  <2>5. SparingInv'
    BY <1>0, <2>3, MergeArraysSpares, SparingKept
  <2> QED
    BY <2>3, <2>4, <2>5 DEF RecordInv, LastInv, Lasts, WantInv, StoredInv, Restores
<1>2. CASE RevertGet(r)
  <2>1. /\ object \in Objects /\ Lasts(object) /\ state[r] \in States
        /\ Restores(state[r].patch, state[r].pre)
    BY <1>2 DEF RevertGet, TypeInv, TypeOK, RecordInv, LastInv, StoredInv
  <2>2. Spares(BuildRevert(object, state[r].patch, state[r].pre))
    BY <2>1, RevertSpares DEF States
  <2>3. /\ op' = [op EXCEPT ![r] = "revert"] /\ model' = [model EXCEPT ![r] = state[r].patch]
        /\ pre' = [pre EXCEPT ![r] = None]
        /\ payload' = [payload EXCEPT ![r] = BuildRevert(object, state[r].patch, state[r].pre)]
        /\ UNCHANGED <<object, want, state>>
    BY <1>2 DEF RevertGet, Start
  <2>4. ApplyingInv'
    BY <1>0, <2>3 DEF TypeInv, TypeOK, RecordInv, ApplyingInv, Restores
  <2>5. SparingInv'
    BY <1>0, <2>2, <2>3, SparingKept
  <2> QED
    BY <2>3, <2>4, <2>5 DEF RecordInv, LastInv, Lasts, WantInv, StoredInv, Restores
<1>3. CASE ApplyPatch(r) \/ RevertPatch(r)
  <2>1. Forget(r) /\ UNCHANGED want
    BY <1>3 DEF ApplyPatch, RevertPatch
  <2>2. ApplyingInv'
    BY <1>0, <2>1 DEF Forget, TypeInv, TypeOK, RecordInv, ApplyingInv, Restores
  <2>3. SparingInv'
    BY <1>0, <2>1, NoPayloadSpares, SparingKept DEF Forget
  <2>4. LastInv'
    <3>1. PICK outcome \in {"done", "notfound", "failed", "lost"} : PatchCall(r, outcome)
      BY <1>3 DEF ApplyPatch, RevertPatch
    <3> QED
      BY <1>0, <3>1, PatchedLasts
  <2>5. StoredInv'
    <3> SUFFICES ASSUME NEW s \in Resources, (state[s] # None)'
                 PROVE  Restores(state[s].patch, state[s].pre)'
      BY DEF StoredInv
    <3>1. CASE op[r] = "apply" /\ s = r /\ state' = [state EXCEPT ![r] = [patch |-> model[r], pre |-> pre[r]]]
      BY <3>1 DEF TypeInv, TypeOK, RecordInv, ApplyingInv, Restores
    <3>2. CASE state'[s] = state[s]
      BY <3>2 DEF RecordInv, StoredInv, Restores
    <3>3. CASE state' = [state EXCEPT ![r] = None]
      BY <3>2, <3>3 DEF TypeInv, TypeOK
    <3> QED
      BY <1>3, <3>1, <3>2, <3>3 DEF ApplyPatch, RevertPatch, TypeInv, TypeOK
  <2> QED
    BY <2>1, <2>2, <2>3, <2>4, <2>5 DEF RecordInv, WantInv
<1>4. CASE TargetGone(r)
  <2>1. StoredInv'
    BY <1>4 DEF TargetGone, TypeInv, TypeOK, RecordInv, StoredInv, Restores
  <2> QED
    BY <1>4, <2>1
       DEF TargetGone, memory, RecordInv, LastInv, WantInv, ApplyingInv, SparingInv, Restores, Spares
<1> QED
  BY <1>1, <1>2, <1>3, <1>4 DEF ResourceNext

LEMMA NextRecord == TypeInv /\ RecordInv /\ [Next]_vars => RecordInv'
<1> SUFFICES ASSUME TypeInv, RecordInv, [Next]_vars PROVE RecordInv'
  OBVIOUS
<1>1. CASE UNCHANGED vars
  BY <1>1 DEF vars, memory, RecordInv, LastInv, WantInv, StoredInv, ApplyingInv, SparingInv,
              Lasts, Restores, Spares
<1>2. ASSUME NEW r \in Resources, NEW p \in PatchesOf[r] \cup {None}, Edit(r, p) PROVE RecordInv'
  BY <1>2 DEF Edit, memory, TypeInv, TypeOK, RecordInv, LastInv, WantInv, StoredInv, ApplyingInv,
              SparingInv, Lasts, Restores, Spares
<1> QED
  BY <1>1, <1>2, OutsideKeepsRecord, ActionKeepsRecord, ResourceKeepsRecord DEF Next, UserNext

-----------------------------------------------------------------------------
(* Reverts and the schema *)

\* No patch a user writes has a null for a required leaf.
NoRequiredNull == \A r \in Resources : \A p \in PatchesOf[r] : \A l \in Required : p.leaf[l] # Null

\* The schema refuses no revert, whatever others, other patches and failures have done to
\* the object since the Get of the apply or of the revert: a required field is restored
\* to the value recorded for it and the map it is in is not deleted.
THEOREM RevertsAreAccepted ==
  ASSUME NoRequiredNull PROVE Spec => []RevertIsAccepted
<1>1. TypeInv /\ RecordInv => RevertIsAccepted
  <2> SUFFICES ASSUME TypeInv, RecordInv, NEW r \in Resources, op[r] = "revert", object # None
               PROVE  Valid(MergePatch(object, payload[r]))
    BY DEF RevertIsAccepted
  <2>1. Required \subseteq Lasting
    BY PlacesAssumption DEF Lasting, NoRequiredNull
  <2>2. Lasts(MergePatch(object, payload[r]))
    BY SparedLasts DEF TypeInv, TypeOK, RecordInv, LastInv, SparingInv, Actors
  <2> QED
    BY <2>1, <2>2 DEF Lasts, Valid
<1> QED
  BY <1>1, InitTypes, NextTypes, InitRecord, NextRecord, PTL DEF Spec
-----------------------------------------------------------------------------
(* What an operation leaves alone *)

PatchesBy(a) == IF a = "action" THEN ActionPatches ELSE PatchesOf[a]

\* The arrays f and g differ at most in the items of the patch.
SameBut(p, f, g) == \A i \in Items \ p.items : f[i] = g[i]

\* One of the two waits for the other.
TakeTurns(a, b) == a \in Resources /\ b \in Resources /\ Ordered(a, b)

\* Those who may patch the array at the same time name the same items of it, and so do all
\* who patch it when an object can be replaced by another one, which has the same other
\* items.  And a revert finds the map it has written to, since something in it lasts.
WritersApart ==
  /\ \A a, b \in Actors : (a # b /\ ~TakeTurns(a, b)) \/ MayVanish =>
       \A p \in PatchesBy(a), q \in PatchesBy(b) :
         p.items # {} /\ q.items # {} => p.items = q.items
  /\ MayVanish => \A a \in Actors : \A p \in PatchesBy(a) : p.items # {} =>
       \A o, n \in Originals : SameBut(p, o.items, n.items)
  /\ \/ \A r \in Resources : \A p \in PatchesOf[r] : ~NamesMap(p)
     \/ \E l \in Nested : l \in Required \cup Lasting

PatchedByInv ==
  /\ \A r \in Resources : state[r] # None => state[r].patch \in PatchesOf[r]
  /\ \A a \in Actors : op[a] # "idle" => model[a] \in PatchesBy(a)

TurnsInv == \A a, b \in Actors : TakeTurns(a, b) => op[a] = "idle" \/ op[b] = "idle"

ThereInv == ~MayVanish => object # None

\* The array of an object that may be replaced is an original one but for patched items.
ArrayInv == MayVanish /\ object # None =>
  \A a \in Actors : \A p \in PatchesBy(a) : p.items # {} =>
    \A o \in Originals : SameBut(p, object.items, o.items)

\* The array in a body is the one it will replace but for the items of the patch.
KnowsArray(p, items) ==
  items # Keep =>
    /\ p.items # {}
    /\ object # None => SameBut(p, items, object.items)
    /\ MayVanish => \A o \in Originals : SameBut(p, items, o.items)

KeepsToLeaves(p, body) ==
  ~body.dropMap /\ \A l \in Leaves : body.leaf[l] # Keep => p.leaf[l] # Keep

BodiesInv == \A a \in Actors : op[a] # "idle" =>
  KeepsToLeaves(model[a], payload[a]) /\ KnowsArray(model[a], payload[a].items)

PlacesInv == PatchedByInv /\ TurnsInv /\ ThereInv /\ ArrayInv /\ BodiesInv

LEMMA PatchesByType == \A a \in Actors : PatchesBy(a) \subseteq Patches
BY PatchesAssumption, BoundsAssumption DEF PatchesBy, Actors

LEMMA PatchesByResource == \A r \in Resources : r \in Actors /\ PatchesBy(r) = PatchesOf[r]
BY BoundsAssumption DEF PatchesBy, Actors

\* What is sent right after a Get keeps to the places of its patch.
LEMMA AppendKnowsArray ==
  ASSUME PlacesInv, object \in Objects, object # None, NEW a \in Actors, NEW p \in PatchesBy(a)
  PROVE  /\ KeepsToLeaves(p, MergeArrays(object, p))
         /\ KnowsArray(p, MergeArrays(object, p).items)
<1>1. KeepsToLeaves(p, MergeArrays(object, p))
  BY ValuesAssumption DEF KeepsToLeaves, MergeArrays, Sent
<1>2. SameBut(p, UniqueAppend(object.items, p.items), object.items)
  BY DEF SameBut, UniqueAppend
<1>3. ASSUME p.items # {}, MayVanish, NEW o \in Originals
      PROVE  SameBut(p, UniqueAppend(object.items, p.items), o.items)
  BY <1>2, <1>3 DEF SameBut, PlacesInv, ArrayInv
<1> QED
  BY <1>1, <1>2, <1>3 DEF KnowsArray, MergeArrays

LEMMA RemoveKnowsArray ==
  ASSUME WritersApart, TypeInv, RecordInv, PlacesInv, object # None,
         NEW r \in Resources, NEW p \in PatchesOf[r], NEW stored \in PreValues
  PROVE  /\ KeepsToLeaves(p, BuildRevert(object, p, stored))
         /\ KnowsArray(p, BuildRevert(object, p, stored).items)
<1>0. object \in Objects /\ Valid(object) /\ Lasts(object)
  BY DEF TypeInv, TypeOK, ObjectInv, RecordInv, LastInv
<1>1. ~BuildRevert(object, p, stored).dropMap
  <2>1. CASE ~NamesMap(p)
    BY <2>1 DEF BuildRevert
  <2>2. CASE \E l \in Nested : l \in Required \cup Lasting
    <3>1. HasMap(object)
      BY <1>0, <2>2 DEF HasMap, Valid, Lasts
    <3> QED
      BY <3>1 DEF BuildRevert
  <2> QED
    BY <2>1, <2>2 DEF WritersApart
<1>2. KeepsToLeaves(p, BuildRevert(object, p, stored))
  BY <1>1 DEF KeepsToLeaves, BuildRevert
<1>3. SameBut(p, RemoveFrom(object.items, p.items), object.items)
  BY DEF SameBut, RemoveFrom
<1>4. ASSUME p.items # {}, MayVanish, NEW o \in Originals
      PROVE  SameBut(p, RemoveFrom(object.items, p.items), o.items)
  BY <1>3, <1>4, PatchesByResource DEF SameBut, PlacesInv, ArrayInv
<1> QED
  BY <1>2, <1>3, <1>4 DEF KnowsArray, BuildRevert

\* The end of an operation changes what its patch names and nothing else.
LEMMA PatchKeepsToItsPlaces ==
  ASSUME TypeInv, PlacesInv, NEW a \in Actors, op[a] # "idle", object # None,
         object' = MergePatch(object, payload[a])
  PROVE  /\ \A l \in Leaves : object'.leaf[l] # object.leaf[l] => model[a].leaf[l] # Keep
         /\ SameBut(model[a], object'.items, object.items)
         /\ object'.items # object.items => model[a].items # {}
<1>1. KeepsToLeaves(model[a], payload[a]) /\ KnowsArray(model[a], payload[a].items)
  BY DEF PlacesInv, BodiesInv
<1>2. /\ \A l \in Leaves : payload[a].leaf[l] = Keep => object'.leaf[l] = object.leaf[l]
      /\ object'.items = IF payload[a].items = Keep THEN object.items ELSE payload[a].items
  BY <1>1, MergePatchAt DEF TypeInv, TypeOK, KeepsToLeaves
<1> QED
  BY <1>1, <1>2 DEF KeepsToLeaves, KnowsArray, SameBut

\* A body stays right while another actor's Patch has its effect, or one's own operation ends.
LEMMA ForgetKeepsPlaces ==
  ASSUME WritersApart, TypeInv, TypeInv', PlacesInv, NEW a \in Actors, op[a] # "idle", Forget(a),
         \/ object' = object
         \/ object # None /\ object' = MergePatch(object, payload[a])
  PROVE  /\ TurnsInv' /\ ThereInv' /\ ArrayInv' /\ BodiesInv'
         /\ \A b \in Actors : op'[b] # "idle" => model'[b] \in PatchesBy(b)
<1>1. /\ op'[a] = "idle"
      /\ \A b \in Actors \ {a} : op'[b] = op[b] /\ model'[b] = model[b] /\ payload'[b] = payload[b]
  BY DEF Forget, TypeInv, TypeOK
<1>2. \A b \in Actors : op'[b] # "idle" => model'[b] \in PatchesBy(b)
  BY <1>1 DEF PlacesInv, PatchedByInv
<1>3. TurnsInv'
  BY <1>1 DEF PlacesInv, TurnsInv
<1>4. CASE object' = object
  BY <1>3, <1>1, <1>2, <1>4
     DEF PlacesInv, TurnsInv, ThereInv, ArrayInv, BodiesInv, KeepsToLeaves, KnowsArray, SameBut
<1>5. CASE object # None /\ object' = MergePatch(object, payload[a])
  <2>0. model[a] \in PatchesBy(a) /\ object' # None
    <3>1. object \in Objects /\ payload[a] \in Payloads
      BY <1>5 DEF TypeInv, TypeOK
    <3> QED
      BY <1>5, <3>1, MergePatchType, OriginalsAssumption DEF PlacesInv, PatchedByInv
  <2>1. /\ SameBut(model[a], object'.items, object.items)
        /\ object'.items # object.items => model[a].items # {}
    BY <1>5, PatchKeepsToItsPlaces
  <2>2. ThereInv'
    BY <2>0 DEF ThereInv
  <2>3. ArrayInv'
    <3> SUFFICES ASSUME MayVanish, NEW b \in Actors, NEW p \in PatchesBy(b), p.items # {},
                        NEW o \in Originals
                 PROVE  SameBut(p, object'.items, o.items)
      BY DEF ArrayInv
    <3>1. SameBut(p, object.items, o.items)
      BY <1>5 DEF PlacesInv, ArrayInv
    <3>2. object'.items # object.items => p.items = model[a].items
      BY <2>0, <2>1 DEF WritersApart
    <3> QED
      BY <2>1, <3>1, <3>2 DEF SameBut
  <2>4. BodiesInv'
    <3> SUFFICES ASSUME NEW b \in Actors, op'[b] # "idle"
                 PROVE  (KeepsToLeaves(model[b], payload[b]) /\ KnowsArray(model[b], payload[b].items))'
      BY DEF BodiesInv
    <3>1. /\ b # a /\ op[b] # "idle" /\ model'[b] = model[b] /\ payload'[b] = payload[b]
          /\ model[b] \in PatchesBy(b)
          /\ KeepsToLeaves(model[b], payload[b]) /\ KnowsArray(model[b], payload[b].items)
      BY <1>1 DEF PlacesInv, BodiesInv, PatchedByInv
    <3>2. payload[b].items # Keep /\ object'.items # object.items => model[b].items = model[a].items
      <4>1. ~TakeTurns(a, b)
        BY <3>1 DEF PlacesInv, TurnsInv
      <4> QED
        BY <2>0, <2>1, <3>1, <4>1 DEF WritersApart, KnowsArray
    <3>3. payload[b].items # Keep => SameBut(model[b], payload[b].items, object'.items)
      BY <1>5, <2>1, <3>1, <3>2 DEF SameBut, KnowsArray
    <3> QED
      BY <3>1, <3>3 DEF KeepsToLeaves, KnowsArray
  <2> QED
    BY <1>3, <1>2, <2>2, <2>3, <2>4
<1> QED
  BY <1>4, <1>5

LEMMA GetKeepsPlaces ==
  ASSUME TypeInv, PlacesInv, NEW a \in Actors, NEW name, NEW p \in PatchesBy(a), NEW body, NEW values,
         Start(a, name, p, body, values), KeepsToLeaves(p, body), KnowsArray(p, body.items),
         a \in Resources => Alone(a)
  PROVE  PlacesInv'
<1>1. /\ model'[a] = p /\ payload'[a] = body /\ UNCHANGED <<object, state>>
      /\ \A b \in Actors \ {a} : op'[b] = op[b] /\ model'[b] = model[b] /\ payload'[b] = payload[b]
  BY DEF Start, TypeInv, TypeOK
<1>2. PatchedByInv'
  BY <1>1 DEF PlacesInv, PatchedByInv
<1>3. ThereInv' /\ ArrayInv'
  BY <1>1 DEF PlacesInv, ThereInv, ArrayInv
<1>4. TurnsInv'
  <2>1. \A b, c \in Resources : Ordered(b, c) => Ordered(c, b) /\ b # c
    BY OrderAssumption DEF Ordered
  <2> QED
    BY <1>1, <2>1 DEF PlacesInv, TurnsInv, TakeTurns, Alone
<1>5. BodiesInv'
  <2> SUFFICES ASSUME NEW b \in Actors, op'[b] # "idle"
               PROVE  (KeepsToLeaves(model[b], payload[b]) /\ KnowsArray(model[b], payload[b].items))'
    BY DEF BodiesInv
  <2>1. CASE b = a
    BY <1>1, <2>1 DEF KeepsToLeaves, KnowsArray
  <2>2. CASE b # a
    BY <1>1, <2>2 DEF PlacesInv, BodiesInv, KeepsToLeaves, KnowsArray
  <2> QED
    BY <2>1, <2>2
<1> QED
  BY <1>2, <1>3, <1>5, <1>4 DEF PlacesInv

LEMMA InitPlaces == ASSUME WritersApart, Init PROVE PlacesInv
<1>1. /\ object \in Originals /\ object # None
      /\ \A a \in Actors : op[a] = "idle"
      /\ \A r \in Resources : state[r] = None
  BY OriginalsAssumption DEF Init
<1>2. ArrayInv
  BY <1>1 DEF ArrayInv, WritersApart
<1> QED
  BY <1>1, <1>2 DEF PlacesInv, PatchedByInv, TurnsInv, ThereInv, BodiesInv

LEMMA OutsideKeepsPlaces ==
  ASSUME WritersApart, TypeInv, PlacesInv, OutsideNext
  PROVE  PlacesInv'
<1>1. UNCHANGED <<want, state, op, model, payload, pre>>
  BY DEF OutsideNext, OutsideSet, OutsideDelete, OutsideCreate, Outside, memory
<1>2. PatchedByInv' /\ TurnsInv'
  BY <1>1 DEF PlacesInv, PatchedByInv, TurnsInv
<1>3. CASE \E l \in OutsideLeaves, v \in Vals \cup {None} : OutsideSet(l, v)
  <2>1. object \in Objects /\ object # None /\ object'.items = object.items /\ object' # None
    <3>1. PICK l \in OutsideLeaves, v \in Vals \cup {None} : OutsideSet(l, v)
      BY <1>3
    <3>2. object \in Objects /\ object # None /\ object' = [object EXCEPT !.leaf[l] = v]
      BY <3>1 DEF OutsideSet, TypeInv, TypeOK
    <3>3. object' \in Objects
      BY <3>2, PlacesAssumption DEF Objects
    <3> QED
      BY <3>2, <3>3, OriginalsAssumption DEF Objects
  <2> QED
    BY <1>1, <1>2, <2>1
       DEF PlacesInv, TurnsInv, ThereInv, ArrayInv, BodiesInv, KeepsToLeaves, KnowsArray, SameBut
<1>4. CASE OutsideDelete
  BY <1>1, <1>2, <1>4
     DEF OutsideDelete, PlacesInv, TurnsInv, ThereInv, ArrayInv, BodiesInv, KeepsToLeaves, KnowsArray, SameBut
<1>5. ASSUME NEW o \in Originals, OutsideCreate(o) PROVE PlacesInv'
  <2>1. MayVanish /\ object' = o /\ object' # None
    BY <1>5, OriginalsAssumption DEF OutsideCreate, PlacesInv, ThereInv
  <2>2. ThereInv' /\ ArrayInv'
    BY <2>1 DEF ThereInv, ArrayInv, WritersApart
  <2>3. BodiesInv'
    BY <1>1, <2>1 DEF PlacesInv, BodiesInv, KeepsToLeaves, KnowsArray, SameBut
  <2> QED
    BY <1>2, <2>2, <2>3 DEF PlacesInv
<1> QED
  BY <1>3, <1>4, <1>5 DEF OutsideNext

LEMMA ResourceKeepsPlaces ==
  ASSUME WritersApart, TypeInv, TypeInv', RecordInv, PlacesInv, NEW r \in Resources, ResourceNext(r)
  PROVE  PlacesInv'
<1>0. r \in Actors /\ r # "action" /\ PatchesBy(r) = PatchesOf[r]
  BY PatchesByResource, BoundsAssumption
<1>1. CASE ApplyGet(r)
  <2>1. object \in Objects /\ object # None /\ want[r] \in PatchesOf[r]
    BY <1>1 DEF ApplyGet, TypeInv, TypeOK, RecordInv, WantInv
  <2> QED
    BY <1>0, <1>1, <2>1, AppendKnowsArray, GetKeepsPlaces DEF ApplyGet, OnTop
<1>2. CASE RevertGet(r)
  <2>1. object # None /\ state[r].patch \in PatchesOf[r] /\ state[r].pre \in PreValues
    BY <1>2 DEF RevertGet, TypeInv, TypeOK, States, PlacesInv, PatchedByInv
  <2> QED
    BY <1>0, <1>2, <2>1, RemoveKnowsArray, GetKeepsPlaces DEF RevertGet, AtTop
<1>3. CASE ApplyPatch(r) \/ RevertPatch(r)
  <2>1. PICK outcome \in {"done", "notfound", "failed", "lost"} : PatchCall(r, outcome)
    BY <1>3 DEF ApplyPatch, RevertPatch
  <2>2. Forget(r) /\ op[r] # "idle"
    BY <1>3 DEF ApplyPatch, RevertPatch
  <2>3. /\ TurnsInv' /\ ThereInv' /\ ArrayInv' /\ BodiesInv'
        /\ \A b \in Actors : op'[b] # "idle" => model'[b] \in PatchesBy(b)
    BY <1>0, <2>1, <2>2, PatchCallActs, ForgetKeepsPlaces
  <2>4. \A s \in Resources : state'[s] # None => state'[s].patch \in PatchesOf[s]
    <3>1. model[r] \in PatchesOf[r]
      BY <1>0, <2>2 DEF PlacesInv, PatchedByInv
    <3>2. \/ state' = [state EXCEPT ![r] = [patch |-> model[r], pre |-> pre[r]]]
          \/ state' = [state EXCEPT ![r] = None]
          \/ state' = state
      BY <1>3 DEF ApplyPatch, RevertPatch
    <3> QED
      BY <3>1, <3>2 DEF PlacesInv, PatchedByInv, TypeInv, TypeOK
  <2> QED
    BY <2>3, <2>4 DEF PlacesInv, PatchedByInv
<1>4. CASE TargetGone(r)
  BY <1>4 DEF TargetGone, memory, TypeInv, TypeOK, PlacesInv, PatchedByInv, TurnsInv, ThereInv, ArrayInv,
              BodiesInv, KeepsToLeaves, KnowsArray, SameBut
<1> QED
  BY <1>1, <1>2, <1>3, <1>4 DEF ResourceNext

LEMMA ActionKeepsPlaces ==
  ASSUME WritersApart, TypeInv, TypeInv', PlacesInv, ActionNext
  PROVE  PlacesInv'
<1>0. "action" \in Actors /\ PatchesBy("action") = ActionPatches
  BY DEF Actors, PatchesBy
<1>1. ASSUME NEW p \in ActionPatches, InvokeGet(p) PROVE PlacesInv'
  <2>1. object \in Objects /\ object # None
    BY <1>1 DEF InvokeGet, TypeInv, TypeOK
  <2> QED
    BY <1>0, <1>1, <2>1, AppendKnowsArray, GetKeepsPlaces, BoundsAssumption DEF InvokeGet
<1>2. CASE InvokePatch
  <2>1. PICK outcome \in {"done", "notfound", "failed", "lost"} : PatchCall("action", outcome)
    BY <1>2 DEF InvokePatch
  <2>2. Forget("action") /\ op["action"] # "idle" /\ UNCHANGED state
    BY <1>2 DEF InvokePatch
  <2>3. /\ TurnsInv' /\ ThereInv' /\ ArrayInv' /\ BodiesInv'
        /\ \A b \in Actors : op'[b] # "idle" => model'[b] \in PatchesBy(b)
    BY <1>0, <2>1, <2>2, PatchCallActs, ForgetKeepsPlaces
  <2> QED
    BY <2>2, <2>3 DEF PlacesInv, PatchedByInv
<1> QED
  BY <1>1, <1>2 DEF ActionNext

LEMMA NextPlaces ==
  ASSUME WritersApart PROVE TypeInv /\ RecordInv /\ PlacesInv /\ [Next]_vars => PlacesInv'
<1> SUFFICES ASSUME TypeInv, RecordInv, PlacesInv, [Next]_vars PROVE PlacesInv'
  OBVIOUS
<1>0. TypeInv'
  BY NextTypes
<1>1. CASE UNCHANGED vars
  BY <1>1 DEF vars, memory, PlacesInv, PatchedByInv, TurnsInv, ThereInv, ArrayInv, BodiesInv,
              KeepsToLeaves, KnowsArray, SameBut
<1>2. ASSUME NEW r \in Resources, NEW p \in PatchesOf[r] \cup {None}, Edit(r, p) PROVE PlacesInv'
  BY <1>2 DEF Edit, memory, PlacesInv, PatchedByInv, TurnsInv, ThereInv, ArrayInv, BodiesInv,
              KeepsToLeaves, KnowsArray, SameBut
<1> QED
  BY <1>0, <1>1, <1>2, OutsideKeepsPlaces, ActionKeepsPlaces, ResourceKeepsPlaces DEF Next, UserNext

\* What holds however the writers are ordered.
Sound == TypeInv /\ RecordInv /\ PlacesInv

LEMMA InitSound == ASSUME WritersApart PROVE Init => Sound
BY InitTypes, InitRecord, InitPlaces DEF Sound

LEMMA NextSound == ASSUME WritersApart PROVE Sound /\ [Next]_vars => Sound'
BY NextTypes, NextRecord, NextPlaces DEF Sound

\* The only steps that end an operation are the ones with its Patch.
LEMMA OwnPlacesStep ==
  ASSUME TypeInv, PlacesInv, Next, NEW a \in Actors, op[a] # "idle", op'[a] = "idle",
         object' # object
  PROVE  /\ \A l \in Leaves : object'.leaf[l] # object.leaf[l] => model[a].leaf[l] # Keep
         /\ \A i \in Items : object'.items[i] # object.items[i] => i \in model[a].items
<1>0. \A r \in Resources : r \in Actors
  BY DEF Actors
<1>1. ASSUME NEW b \in Actors, Forget(b),
             NEW outcome \in {"done", "notfound", "failed", "lost"}, PatchCall(b, outcome)
      PROVE  a = b /\ object # None /\ object' = MergePatch(object, payload[a])
  <2>1. a = b
    BY <1>1 DEF Forget, TypeInv, TypeOK
  <2> QED
    BY <1>1, <2>1, PatchCallActs
<1>2. CASE \E r \in Resources : ApplyPatch(r) \/ RevertPatch(r)
  BY <1>0, <1>1, <1>2, PatchKeepsToItsPlaces DEF ApplyPatch, RevertPatch, SameBut
<1>3. CASE InvokePatch
  <2>1. PICK outcome \in {"done", "notfound", "failed", "lost"} : PatchCall("action", outcome)
    BY <1>3 DEF InvokePatch
  <2> QED
    BY <1>1, <1>3, <2>1, PatchKeepsToItsPlaces DEF InvokePatch, Actors, SameBut
<1>4. CASE ~InvokePatch /\ \A r \in Resources : ~ApplyPatch(r) /\ ~RevertPatch(r)
  BY <1>0, <1>4
     DEF Next, UserNext, Edit, OutsideNext, OutsideSet, OutsideDelete, OutsideCreate, Outside,
         ActionNext, InvokeGet, ResourceNext, ApplyGet, RevertGet, TargetGone, Start, memory,
         TypeInv, TypeOK
<1> QED
  BY <1>2, <1>3, <1>4

\* An operation changes what its patch names and nothing else, although its Patch carries
\* an array it has read some time before: whoever writes in between, whatever fails, and
\* even if the object has been replaced by another one.
THEOREM OperationsKeepToTheirPlaces == ASSUME WritersApart PROVE Spec => OthersUntouched
<1>1. Sound /\ [Next]_vars =>
        [\A a \in Actors : (op[a] # "idle" /\ op'[a] = "idle" /\ object' # object) =>
           (/\ \A l \in Leaves : object'.leaf[l] # object.leaf[l] => model[a].leaf[l] # Keep
            /\ \A i \in Items : object'.items[i] # object.items[i] => i \in model[a].items)]_vars
  BY OwnPlacesStep DEF Sound
<1> QED
  BY <1>1, InitSound, NextSound, PTL DEF Spec, OthersUntouched
===============================================================================
