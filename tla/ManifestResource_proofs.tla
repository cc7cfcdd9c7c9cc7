------------------------ MODULE ManifestResource_proofs ------------------------
(***************************************************************************)
(* Proofs about ManifestResource, for every number of names, values and    *)
(* faults.  TypeInv adds to the types what the place a command has reached *)
(* says about its state and plan; without it the updates of records that   *)
(* may be None could not be typed.  SecretsInv adds what keeps the values  *)
(* of manifest_wo out of the state: the first attempt of a call works with *)
(* the manifest as planned, and between calls a secret in the object comes *)
(* with the private state's knowledge of its keys.  FlagInv follows the    *)
(* flag of an error condition through ModifyPlan, TrackInv the objects     *)
(* the provider made, and AppliedInv what is on the cluster when a call    *)
(* reports success.                                                        *)
(***************************************************************************)
EXTENDS ManifestResource, TLAPS

\* Where a command is says what it works on.
Placed ==
  /\ pc \in ReadPoints \cup DeletePoints => state # None
  /\ pc = "readDone" => seen # None
  /\ pc \in {"planned", "start"} \cup ApplyPoints \cup DeletePoints => plan # None
  /\ pc = "planned" =>
       /\ plan.action = "create" => state = None
       /\ plan.action \in {"delete", "replace", "update"} => state # None
       /\ plan.action # "delete" => plan.config \in Configs
  /\ pc \in DeletePoints =>
       /\ plan.action \in {"delete", "replace"}
       /\ plan.action = "replace" => plan.config \in Configs
  /\ pc \in {"start"} \cup ApplyPoints =>
       /\ plan.action \in {"create", "update", "replace"} /\ plan.config \in Configs
       /\ plan.action # "update" => state = None
       /\ plan.action = "update" => state # None
  /\ pc \in {"planned", "start"} \cup ApplyPoints =>
       (plan.action = "update" =>
          plan.config.id.name = state.id.name /\ plan.private.keys = private.keys)

TypeInv == TypeOK /\ Placed

\* No secret at the path of the object with that name.
Bare(n) == cluster[n] # None => cluster[n].wo = None

\* A first attempt works with the manifest as planned, which is without secrets; it
\* leaves one in the object only if the block has one.
FirstAttempt ==
  /\ pc \in ApplyPoints => /\ attempt >= 1
                           /\ respPrivate = WithWo(plan.private, plan.config.wo)
  /\ pc = "patch" /\ attempt = 1 => mwo = None
  /\ pc = "readBack" /\ attempt = 1 =>
       planned = None /\ (plan.config.wo = None => Bare(plan.config.id.name))
  /\ pc \in {"wait", "check", "success"} /\ attempt = 1 =>
       /\ mwo = None
       /\ plan.config.wo = None => owo = None /\ Bare(plan.config.id.name)

\* With no excuse, neither the state nor, unless the private state knows of write-only
\* keys and Read will mask them, the object has a secret.
Keyed == IF pc \in ApplyPoints THEN respPrivate.keys ELSE private.keys
Kept ==
  excuse = {} =>
    /\ state # None =>
         /\ state.mwo = None /\ state.owo = None
         /\ Keyed \/ Bare(state.id.name)
    /\ pc \in ApplyPoints => attempt = 1
    /\ pc = "readDone" => private.keys \/ seen.wo = None

SecretsInv == TypeInv /\ FirstAttempt /\ Kept

\* The parts of the records, and what the helpers make of them.
LEMMA PrivateTypes ==
  /\ EmptyPrivate \in PrivateType /\ None \in SecretOrNone
  /\ \A p \in PrivateType :
       /\ p.keys \in BOOLEAN
       /\ Handled(p) \in PrivateType /\ Handled(p).keys = p.keys
       /\ \A v \in BOOLEAN : [p EXCEPT !.ecm = v] \in PrivateType
  /\ \A p \in PrivateType, w \in SecretOrNone : WithWo(p, w) \in PrivateType
BY DEF EmptyPrivate, PrivateType, SecretOrNone, Handled, WithWo

\* What Create and Update store about manifest_wo: its keys if it is there, and nothing if not.
LEMMA WithWoKeys ==
  ASSUME NEW p \in PrivateType, NEW w
  PROVE  /\ w # None => WithWo(p, w).keys
         /\ w = None => WithWo(p, w) = p
BY DEF PrivateType, WithWo

\* An object stays one when a field of it is changed the way the cluster's actions do.
LEMMA ObjectTypes ==
  \A o \in Objects :
    /\ o.spec \in Specs /\ o.wo \in SecretOrNone
    /\ [o EXCEPT !.deleting = TRUE] \in Objects /\ [o EXCEPT !.failing = ~@] \in Objects
    /\ \A s \in Specs : [o EXCEPT !.spec = s] \in Objects
    /\ \A s \in Specs, w \in SecretOrNone : [o EXCEPT !.spec = s, !.wo = w] \in Objects
BY DEF Objects

\* A block the user may write has an identity, a public part and a value at the path.
LEMMA ConfigTypes ==
  \A c \in Configs :
    /\ c \in ConfigType /\ c # None /\ c.id \in Ids /\ c.id.name \in Names
    /\ c.spec \in Specs /\ c.wo \in SecretOrNone
BY ConfigsAssumption, NoneAssumption DEF ConfigType, Ids

\* A stored resource has an identity, and stays one when a Read refreshes it.
LEMMA StateTypes ==
  \A s \in StateType :
    /\ s.id \in Ids /\ s.id.name \in Names /\ s.mwo \in SecretOrNone
    /\ \A v \in Specs, m, w \in SecretOrNone :
         [s EXCEPT !.spec = v, !.mwo = m, !.owo = w] \in StateType
BY DEF StateType, Ids

\* What ModifyPlan proposes is a plan, and the parts of a plan are typed.
LEMMA PlanTypes ==
  /\ \A x \in Actions, c \in Configs \cup {None}, p \in PrivateType :
       [action |-> x, config |-> c, private |-> p] \in PlanType
  /\ \A p \in PlanType :
       p.action \in Actions /\ p.config \in Configs \cup {None} /\ p.private \in PrivateType
BY DEF PlanType

\* What a dynamic Get returns is an object, or nothing.
LEMMA GetType ==
  ASSUME TypeOK, NEW id \in Ids
  PROVE  DynamicGet(id) \in Objects \cup {None}
BY DEF TypeOK, DynamicGet, Ids

\* What Create and Update put into the state is a stored resource.
LEMMA StoredType ==
  ASSUME TypeOK, plan # None, plan.config \in Configs, NEW s \in SecretOrNone, NEW t \in BOOLEAN
  PROVE  Stored(s, t) \in StateType
BY ConfigTypes DEF TypeOK, Stored, StateType, ConfigType

\* A server-side apply makes an object of what was there.
LEMMA AppliedType ==
  ASSUME TypeOK, plan # None, plan.config \in Configs, NEW o \in Objects \cup {None}
  PROVE  Applied(o) \in Objects /\ Inject \in SecretOrNone
<1>1. Inject \in SecretOrNone /\ plan.config.spec \in Specs
  BY ConfigTypes DEF TypeOK, Inject
<1>2. CASE o = None
  BY <1>1, <1>2 DEF Applied, Objects
<1>3. CASE o # None
  BY <1>1, <1>3, ObjectTypes DEF Applied
<1> QED BY <1>1, <1>2, <1>3

\* What applyManifest holds after reading the object back is a secret or nothing.
LEMMA ReadBackTypes ==
  ASSUME TypeInv, ReadBack
  PROVE  owo' \in SecretOrNone /\ mwo' \in SecretOrNone
<1>1. plan.config.id.name \in Names
  BY ConfigTypes DEF ReadBack, TypeInv, Placed, ApplyPoints
<1>2. cluster[plan.config.id.name] # None => cluster[plan.config.id.name].wo \in SecretOrNone
  BY <1>1, ObjectTypes DEF TypeInv, TypeOK
<1> QED  BY <1>2 DEF ReadBack, TypeInv, TypeOK

\* A deletion leaves a cluster of objects.
LEMMA VanishType ==
  ASSUME TypeOK, NEW n \in Names, Vanish(n)
  PROVE  cluster' \in [Names -> Objects \cup {None}]
BY ObjectTypes DEF TypeOK, Vanish

\* Every step keeps the types and what the place in the code says about state and plan.
LEMMA TypeStep == TypeInv /\ [Next]_vars => TypeInv'
<1> SUFFICES ASSUME TypeInv, [Next]_vars PROVE TypeInv'
  OBVIOUS
<1> USE ConfigsAssumption, NoneAssumption, BoundsAssumption, PrivateTypes, PlanTypes
  DEF vars, tfVars, callVars, bounds, ghosts, Fault, NoFault, EndRun,
      TypeInv, TypeOK, Placed, Points, ReadPoints, ApplyPoints, DeletePoints
<1>1. ASSUME NEW c \in Configs \cup {None}, Edit(c) PROVE TypeInv'
  BY <1>1 DEF Edit
<1>2. ASSUME NEW n \in Names, NEW s \in Specs, OutsideEdit(n, s) PROVE TypeInv'
  <2>1. TypeOK'
    <3>1. cluster[n] \in Objects /\ [cluster[n] EXCEPT !.spec = s] \in Objects
      BY <1>2, ObjectTypes DEF OutsideEdit
    <3>2. cluster' \in [Names -> Objects \cup {None}]
      BY <1>2, <3>1 DEF OutsideEdit
    <3> QED  BY <1>2, <3>1, <3>2 DEF OutsideEdit, Outside
  <2>2. Placed'
    BY <1>2 DEF OutsideEdit, Outside
  <2> QED  BY <2>1, <2>2
<1>3. ASSUME NEW n \in Names, OutsideDelete(n) PROVE TypeInv'
  <2>1. TypeOK'
    <3>1. cluster[n] \in Objects /\ [cluster[n] EXCEPT !.deleting = TRUE] \in Objects
      BY <1>3, ObjectTypes DEF OutsideDelete
    <3>2. cluster' \in [Names -> Objects \cup {None}]
      BY <1>3, <3>1 DEF OutsideDelete
    <3> QED  BY <1>3, <3>1, <3>2 DEF OutsideDelete, Outside
  <2>2. Placed'
    BY <1>3 DEF OutsideDelete, Outside
  <2> QED  BY <2>1, <2>2
<1>4. ASSUME NEW n \in Names, Controller(n) PROVE TypeInv'
  <2>1. TypeOK'
    <3>1. cluster[n] \in Objects /\ [cluster[n] EXCEPT !.failing = ~@] \in Objects
      BY <1>4, ObjectTypes DEF Controller
    <3>2. cluster' \in [Names -> Objects \cup {None}]
      BY <1>4, <3>1 DEF Controller
    <3> QED  BY <1>4, <3>1, <3>2 DEF Controller, Outside
  <2>2. Placed'
    BY <1>4 DEF Controller, Outside
  <2> QED  BY <2>1, <2>2
<1>5. ASSUME NEW n \in Names, Finalize(n) PROVE TypeInv'
  BY <1>5 DEF Finalize
<1>6. ASSUME NEW n \in Names, Import(n) PROVE TypeInv'
  <2>1. TypeOK'
    <3>1. plan' = plan
      BY <1>6 DEF Import
    <3>2. private' \in PrivateType
      BY <1>6 DEF Import, PrivateType, EmptyPrivate
    <3>3. [name |-> n, ns |-> IF Namespaced THEN "default" ELSE ""] \in Ids
      BY DEF Ids
    <3>4. state' \in StateType
      BY <1>6, <3>3, GetType, ObjectTypes DEF Import, StateType, ErrorBlocks, Waits, SecretOrNone
    <3> QED  BY <1>6, <3>1, <3>2, <3>3, <3>4 DEF Import, Excuses
  <2>2. Placed'
    BY <1>6 DEF Import, DynamicGet
  <2> QED  BY <2>1, <2>2
<1>7. CASE StartRun
  BY <1>7 DEF StartRun
<1>8. CASE StartRunNoRefresh
  BY <1>8 DEF StartRunNoRefresh
<1>9. CASE Crash
  <2>1. loose' \subseteq Names
    BY <1>9, StateTypes DEF Crash, LeftAlone
  <2> QED  BY <1>9, <2>1 DEF Crash, Excuses
<1>10. CASE ReadOpenAPI
  <2>1. TypeOK'
    <3>1. DynamicGet(state.id) \in Objects \cup {None}
      BY <1>10, GetType, StateTypes DEF ReadOpenAPI
    <3> QED  BY <1>10, <3>1 DEF ReadOpenAPI
  <2>2. Placed'
    BY <1>10 DEF ReadOpenAPI
  <2> QED  BY <2>1, <2>2
<1>11. CASE ReadBasic
  BY <1>11, StateTypes DEF ReadBasic
<1>12. CASE ReadGone
  BY <1>12 DEF ReadGone
<1>13. CASE ReadError
  BY <1>13 DEF ReadError
<1>14. CASE ReadFinish
  <2>1. TypeOK'
    <3>1. /\ Reconciled(state.mwo, seen.wo) \in SecretOrNone /\ seen.spec \in Specs
          /\ Masked(private.keys, seen.wo) \in SecretOrNone
      BY <1>14, StateTypes, ObjectTypes DEF ReadFinish, Reconciled, Masked
    <3>2. state' \in StateType
      BY <1>14, <3>1, StateTypes DEF ReadFinish
    <3>3. private' \in PrivateType
      BY <1>14 DEF ReadFinish, Flag
    <3> QED  BY <1>14, <3>1, <3>2, <3>3 DEF ReadFinish
  <2>2. Placed'
    BY <1>14 DEF ReadFinish
  <2> QED  BY <2>1, <2>2
<1>15. CASE PlanNothing
  BY <1>15 DEF PlanNothing, Actions
<1>16. CASE PlanCreate
  BY <1>16 DEF PlanCreate, Propose, Actions
<1>17. CASE PlanDelete
  BY <1>17 DEF PlanDelete, Propose, Actions
<1>18. CASE PlanTainted
  BY <1>18 DEF PlanTainted, Propose, Actions
<1>19. CASE PlanChange
  BY <1>19 DEF PlanChange, Propose, Actions, MustReplace, IdChanged, ManifestDiffers
<1>20. CASE Approve
  BY <1>20 DEF Approve
<1>21. CASE Start
  BY <1>21, ConfigTypes DEF Start
<1>22. CASE Patch
  <2>1. TypeOK'
    <3>1. plan # None /\ plan.config \in Configs /\ plan.config.id.name \in Names
      BY <1>22, ConfigTypes DEF Patch
    <3>2. Inject \in SecretOrNone /\ Applied(cluster[plan.config.id.name]) \in Objects
      BY <3>1, AppliedType
    <3>3. /\ cluster' \in [Names -> Objects \cup {None}]
          /\ owed' \subseteq Names /\ loose' \subseteq Names
      BY <1>22, <3>1, <3>2 DEF Patch
    <3> QED  BY <1>22, <3>1, <3>2, <3>3 DEF Patch
  <2>2. Placed'
    BY <1>22 DEF Patch
  <2> QED  BY <2>1, <2>2
<1>23. CASE ReadBack
  BY <1>23, ReadBackTypes DEF ReadBack, AfterWait
<1>24. CASE Wait
  BY <1>24 DEF Wait, AfterWait, After, ErrorOn
<1>25. CASE CheckOnce
  BY <1>25 DEF CheckOnce, After, ErrorOn
<1>26. CASE Retry
  BY <1>26 DEF Retry, Excuses
<1>27. CASE GiveUp
  BY <1>27 DEF GiveUp
<1>28. CASE RespondSuccess
  BY <1>28, StoredType DEF RespondSuccess, Masked, IsCreate
<1>29. CASE RespondErrorCondition
  BY <1>29, StoredType DEF RespondErrorCondition, IsCreate, Excuses
<1>30. CASE DeleteSkip
  BY <1>30 DEF DeleteSkip, Deleted
<1>31. CASE DeleteCall
  <2>1. TypeOK'
    <3>1. state.id.name \in Names
      BY <1>31, StateTypes DEF DeleteCall
    <3>2. cluster' \in [Names -> Objects \cup {None}]
      BY <1>31, <3>1, VanishType DEF DeleteCall
    <3> QED  BY <1>31, <3>1, <3>2 DEF DeleteCall, Vanish
  <2>2. Placed'
    BY <1>31 DEF DeleteCall, Vanish
  <2> QED  BY <2>1, <2>2
<1>32. CASE DeleteError
  <2>1. TypeOK'
    <3>1. state.id.name \in Names
      BY <1>32, StateTypes DEF DeleteError
    <3>2. cluster' \in [Names -> Objects \cup {None}]
      BY <1>32, <3>1, VanishType DEF DeleteError
    <3>3. loose' \subseteq Names
      BY <1>32, <3>1 DEF DeleteError, LeftAlone
    <3> QED  BY <1>32, <3>1, <3>2, <3>3 DEF DeleteError, Vanish
  <2>2. Placed'
    BY <1>32 DEF DeleteError, Vanish
  <2> QED  BY <2>1, <2>2
<1>33. CASE DeleteConfirmed
  <2>1. loose' \subseteq Names
    BY <1>33, StateTypes DEF DeleteConfirmed, LeftAlone
  <2>2. pc = "poll" /\ Deleted /\ UNCHANGED <<config, cluster, bounds, excuse, owed>>
    BY <1>33 DEF DeleteConfirmed
  <2>3. TypeOK'
    BY <2>1, <2>2 DEF Deleted
  <2>4. Placed'
    BY <2>2 DEF Deleted
  <2> QED  BY <2>3, <2>4
<1>34. CASE DeleteTimeout
  <2>1. loose' \subseteq Names
    BY <1>34, StateTypes DEF DeleteTimeout, LeftAlone
  <2>2. TypeOK'
    BY <1>34, <2>1 DEF DeleteTimeout, Deleted
  <2>3. Placed'
    BY <1>34 DEF DeleteTimeout, Deleted
  <2> QED  BY <2>2, <2>3
<1>35. CASE UNCHANGED vars
  BY <1>35
<1> QED
  BY <1>1, <1>2, <1>3, <1>4, <1>5, <1>6, <1>7, <1>8, <1>9, <1>10, <1>11, <1>12, <1>13, <1>14, <1>15,
     <1>16, <1>17, <1>18, <1>19, <1>20, <1>21, <1>22, <1>23, <1>24, <1>25, <1>26, <1>27, <1>28,
     <1>29, <1>30, <1>31, <1>32, <1>33, <1>34, <1>35
  DEF Next, UserNext, ClusterNext, ProviderNext, ReadNext, PlanNext, ApplyNext, DeleteNext

\* After an apply the object has the injected value at the path.
LEMMA AppliedWo ==
  ASSUME NEW o \in Objects \cup {None}
  PROVE  Applied(o).wo = Inject
<1>1. CASE o = None
  BY <1>1 DEF Applied
<1>2. CASE o # None
  BY <1>2 DEF Applied, Objects
<1> QED BY <1>1, <1>2

\* A deletion brings no secret into an object.
LEMMA VanishKeepsBare ==
  ASSUME TypeOK, NEW n \in Names, NEW m \in Names, Bare(m),
         \/ cluster' = [cluster EXCEPT ![n] = None]
         \/ cluster[n] # None /\ cluster' = [cluster EXCEPT ![n].deleting = TRUE]
  PROVE  Bare(m)'
<1>1. CASE m # n
  BY <1>1 DEF TypeOK, Bare
<1>2. CASE m = n
  BY <1>2 DEF TypeOK, Bare, Objects
<1> QED BY <1>1, <1>2

\* Every step keeps what keeps secrets out of the state.
LEMMA SecretsStep == SecretsInv /\ [Next]_vars => FirstAttempt' /\ Kept'
<1> SUFFICES ASSUME SecretsInv, [Next]_vars, TypeInv' PROVE FirstAttempt' /\ Kept'
  BY TypeStep DEF SecretsInv
<1> USE ConfigsAssumption, NoneAssumption
  DEF vars, tfVars, callVars, bounds, ghosts, Fault, NoFault, EndRun,
      SecretsInv, TypeInv, TypeOK, Placed, FirstAttempt, ReadPoints, ApplyPoints, DeletePoints
<1>1. ASSUME NEW c \in Configs \cup {None}, Edit(c) PROVE FirstAttempt' /\ Kept'
  BY <1>1 DEF Edit, Bare, Kept, Keyed
<1>2. ASSUME NEW n \in Names, NEW s \in Specs, OutsideEdit(n, s) PROVE FirstAttempt' /\ Kept'
  BY <1>2 DEF OutsideEdit, Outside, Bare, Kept, Keyed
<1>3. ASSUME NEW n \in Names, OutsideDelete(n) PROVE FirstAttempt' /\ Kept'
  <2>1. FirstAttempt'
    <3>1. \A m \in Names : Bare(m) => Bare(m)'
      BY <1>3, VanishKeepsBare DEF OutsideDelete
    <3>2. pc \in ApplyPoints => plan.config.id.name \in Names
      BY ConfigTypes
    <3>3. pc \in ApplyPoints /\ Bare(plan.config.id.name) => Bare(plan.config.id.name)'
      BY <1>3, <3>1, <3>2 DEF OutsideDelete, Bare
    <3> QED  BY <1>3, <3>3 DEF OutsideDelete
  <2>2. Kept'
    <3>1. state # None => state.id.name \in Names
      BY StateTypes
    <3>2. state # None /\ Bare(state.id.name) => Bare(state.id.name)'
      BY <1>3, <3>1, VanishKeepsBare DEF OutsideDelete, Bare
    <3> QED  BY <1>3, <3>2 DEF OutsideDelete, Kept, Keyed
  <2> QED  BY <2>1, <2>2
<1>4. ASSUME NEW n \in Names, Controller(n) PROVE FirstAttempt' /\ Kept'
  BY <1>4 DEF Controller, Outside, Bare, Kept, Keyed
<1>5. ASSUME NEW n \in Names, Finalize(n) PROVE FirstAttempt' /\ Kept'
  BY <1>5 DEF Finalize, Bare, Kept, Keyed
<1>6. ASSUME NEW n \in Names, Import(n) PROVE FirstAttempt' /\ Kept'
  BY <1>6 DEF Import, Bare, Kept, Keyed
<1>7. CASE StartRun
  BY <1>7 DEF StartRun, Bare, Kept, Keyed
<1>8. CASE StartRunNoRefresh
  BY <1>8 DEF StartRunNoRefresh, Bare, Kept, Keyed
<1>9. CASE Crash
  BY <1>9 DEF Crash, Bare, Kept, Keyed
<1>10. CASE ReadOpenAPI
  BY <1>10 DEF ReadOpenAPI, Bare, DynamicGet, Kept, Keyed
<1>11. CASE ReadBasic
  BY <1>11 DEF ReadBasic, Bare, Kept, Keyed
<1>12. CASE ReadGone
  BY <1>12 DEF ReadGone, Bare, Kept, Keyed
<1>13. CASE ReadError
  BY <1>13 DEF ReadError, Bare, Kept, Keyed
<1>14. CASE ReadFinish
  <2>1. FirstAttempt'
    BY <1>14 DEF ReadFinish, Bare, Masked, Reconciled
  <2>2. Kept'
    <3>1. state \in StateType /\ seen \in Objects
      BY <1>14 DEF ReadFinish
    <3>2. /\ state'.id = state.id
          /\ state'.mwo = Reconciled(state.mwo, seen.wo)
          /\ state'.owo = Masked(private.keys, seen.wo)
      BY <1>14, <3>1 DEF ReadFinish, StateType
    <3>3. private'.keys = private.keys
      BY <1>14 DEF ReadFinish, PrivateType
    <3>4. excuse = {} => state'.mwo = None /\ state'.owo = None
      BY <1>14, <3>1, <3>2 DEF ReadFinish, Kept, Masked, Reconciled
    <3> QED  BY <1>14, <3>1, <3>2, <3>3, <3>4 DEF ReadFinish, Kept, Keyed, Bare
  <2> QED  BY <2>1, <2>2
<1>15. CASE PlanNothing
  BY <1>15 DEF PlanNothing, Bare, Kept, Keyed
<1>16. CASE PlanCreate
  BY <1>16 DEF PlanCreate, Propose, Bare, Kept, Keyed
<1>17. CASE PlanDelete
  BY <1>17 DEF PlanDelete, Propose, Bare, Kept, Keyed
<1>18. CASE PlanTainted
  BY <1>18 DEF PlanTainted, Propose, Bare, Kept, Keyed
<1>19. CASE PlanChange
  BY <1>19
  DEF PlanChange, Propose, Bare, MustReplace, IdChanged, ManifestDiffers, Handled, Kept, Keyed
<1>20. CASE Approve
  BY <1>20 DEF Approve, Bare, Kept, Keyed
<1>21. CASE Start
  <2>1. FirstAttempt'
    BY <1>21 DEF Start, Bare
  <2>2. Kept'
    <3>1. plan \in PlanType /\ plan.config.wo \in SecretOrNone
      BY <1>21, ConfigTypes DEF Start
    <3>2. plan.private.keys \/ plan.config.wo # None => respPrivate'.keys
      BY <1>21, <3>1, PlanTypes, WithWoKeys DEF Start
    <3>3. state # None => plan.private.keys = private.keys
      BY <1>21 DEF Start
    <3> QED  BY <1>21, <3>2, <3>3 DEF Start, Kept, Keyed, Bare
  <2> QED  BY <2>1, <2>2
<1>22. CASE Patch
  <2>1. FirstAttempt'
    <3>1. plan.config \in Configs /\ plan.config.id.name \in Names
      BY <1>22, ConfigTypes DEF Patch
    <3>2. attempt = 1 /\ plan.config.wo = None => Inject = None
      BY <1>22 DEF Patch, Inject
    <3>3. pc' = "readBack" => cluster' = [cluster EXCEPT ![plan.config.id.name] = Applied(@)]
      BY <1>22 DEF Patch
    <3>4. Applied(cluster[plan.config.id.name]).wo = Inject
      BY <3>1, AppliedWo
    <3>5. pc' = "readBack" /\ attempt = 1 /\ plan.config.wo = None => Bare(plan.config.id.name)'
      BY <1>22, <3>1, <3>2, <3>3, <3>4 DEF Patch, Bare
    <3> QED  BY <1>22, <3>5 DEF Patch, Bare
  <2>2. Kept'
    <3>1. plan.config \in Configs /\ plan.config.id.name \in Names
      BY <1>22, ConfigTypes DEF Patch
    <3>2. ASSUME state # None, excuse = {}, ~respPrivate.keys PROVE Bare(state.id.name)'
      <4>1. plan \in PlanType /\ respPrivate = WithWo(plan.private, plan.config.wo)
        BY <1>22 DEF Patch
      <4>2. plan.config.wo = None
        BY <3>2, <4>1, PlanTypes, WithWoKeys
      <4>3. attempt = 1 /\ mwo = None /\ Bare(state.id.name)
        BY <1>22, <3>2 DEF Patch, Kept, Keyed
      <4>4. state.id.name = plan.config.id.name
        BY <1>22, <3>2 DEF Patch
      <4>5. Applied(cluster[plan.config.id.name]).wo = None
        BY <3>1, <4>2, <4>3, AppliedWo DEF Inject
      <4> QED  BY <1>22, <3>1, <4>3, <4>4, <4>5 DEF Patch, Bare
    <3> QED  BY <1>22, <3>2 DEF Patch, Kept, Keyed
  <2> QED  BY <2>1, <2>2
<1>23. CASE ReadBack
  BY <1>23 DEF ReadBack, Bare, AfterWait, Kept, Keyed
<1>24. CASE Wait
  BY <1>24 DEF Wait, Bare, AfterWait, After, ErrorOn, Kept, Keyed
<1>25. CASE CheckOnce
  BY <1>25 DEF CheckOnce, Bare, After, ErrorOn, Kept, Keyed
<1>26. CASE Retry
  BY <1>26 DEF Retry, Bare, Kept, Keyed
<1>27. CASE GiveUp
  BY <1>27 DEF GiveUp, Bare, IsCreate, Kept, Keyed
<1>28. CASE RespondSuccess
  <2>1. FirstAttempt'
    BY <1>28 DEF RespondSuccess, Bare, Stored, Masked, IsCreate
  <2>2. Kept'
    <3>1. plan \in PlanType /\ plan.config \in Configs /\ plan.config.wo \in SecretOrNone
      BY <1>28, ConfigTypes DEF RespondSuccess
    <3>2. CASE attempt # 1
      BY <1>28, <3>2 DEF RespondSuccess, Kept
    <3>3. CASE attempt = 1
      <4>1. mwo = None /\ (plan.config.wo = None => owo = None /\ Bare(plan.config.id.name))
        BY <1>28, <3>3 DEF RespondSuccess
      <4>2. /\ state'.id = plan.config.id /\ state'.mwo = mwo
            /\ state'.owo = Masked(plan.config.wo # None, owo)
        BY <1>28 DEF RespondSuccess, Stored
      <4>3. state'.mwo = None /\ state'.owo = None
        BY <4>1, <4>2 DEF Masked
      <4>4. plan.config.wo # None => private'.keys
        BY <1>28, <3>1, PlanTypes, WithWoKeys DEF RespondSuccess
      <4>5. plan.config.wo = None => Bare(state.id.name)'
        BY <1>28, <4>1, <4>2 DEF RespondSuccess, Bare
      <4> QED  BY <1>28, <4>3, <4>4, <4>5 DEF RespondSuccess, Kept, Keyed, Bare
    <3> QED  BY <3>2, <3>3
  <2> QED  BY <2>1, <2>2
<1>29. CASE RespondErrorCondition
  BY <1>29 DEF RespondErrorCondition, Bare, Stored, IsCreate, Kept, Keyed
<1>30. CASE DeleteSkip
  BY <1>30 DEF DeleteSkip, Deleted, Bare, Kept, Keyed
<1>31. CASE DeleteCall
  <2>1. FirstAttempt'
    BY <1>31 DEF DeleteCall, Vanish, Bare
  <2>2. Kept'
    <3>1. state \in StateType /\ state.id.name \in Names
      BY <1>31, StateTypes DEF DeleteCall
    <3>2. Bare(state.id.name) => Bare(state.id.name)'
      BY <1>31, <3>1, VanishKeepsBare DEF DeleteCall, Vanish, Bare
    <3> QED  BY <1>31, <3>2 DEF DeleteCall, Kept, Keyed
  <2> QED  BY <2>1, <2>2
<1>32. CASE DeleteError
  <2>1. FirstAttempt'
    BY <1>32 DEF DeleteError, Vanish, Bare
  <2>2. Kept'
    <3>1. state \in StateType /\ state.id.name \in Names
      BY <1>32, StateTypes DEF DeleteError
    <3>2. Bare(state.id.name) => Bare(state.id.name)'
      BY <1>32, <3>1, VanishKeepsBare DEF DeleteError, Vanish, Bare
    <3> QED  BY <1>32, <3>2 DEF DeleteError, Kept, Keyed
  <2> QED  BY <2>1, <2>2
<1>33. CASE DeleteConfirmed
  BY <1>33 DEF DeleteConfirmed, Deleted, Bare, Kept, Keyed
<1>34. CASE DeleteTimeout
  BY <1>34 DEF DeleteTimeout, Deleted, Bare, Kept, Keyed
<1>35. CASE UNCHANGED vars
  BY <1>35 DEF Bare, Kept, Keyed
<1> QED
  BY <1>1, <1>2, <1>3, <1>4, <1>5, <1>6, <1>7, <1>8, <1>9, <1>10, <1>11, <1>12, <1>13, <1>14, <1>15,
     <1>16, <1>17, <1>18, <1>19, <1>20, <1>21, <1>22, <1>23, <1>24, <1>25, <1>26, <1>27, <1>28,
     <1>29, <1>30, <1>31, <1>32, <1>33, <1>34, <1>35
  DEF Next, UserNext, ClusterNext, ProviderNext, ReadNext, PlanNext, ApplyNext, DeleteNext

-----------------------------------------------------------------------------

\* The types hold, and nothing is under way, before the first command.
LEMMA TypeInit == Init => TypeInv
BY NoneAssumption, BoundsAssumption, PrivateTypes
DEF Init, TypeInv, TypeOK, Placed, Points, ReadPoints, ApplyPoints, DeletePoints

\* Every variable keeps its type, and every handler finds what it works with: the
\* state and the plan it dereferences are there.
THEOREM TypeCorrect == Spec => []TypeOK
<1>1. TypeInv => TypeOK
  BY DEF TypeInv
<1> QED  BY <1>1, TypeInit, TypeStep, PTL DEF Spec

\* A value of manifest_wo is in the Terraform state only with an excuse: a retry, an
\* error condition, a crash or an import since the last Create or Update that succeeded
\* at its first attempt.
THEOREM SecretsStayOutOfState == Spec => []SecretsStayOut
<1>1. Init => SecretsInv
  BY TypeInit DEF Init, SecretsInv, FirstAttempt, Kept, ApplyPoints
<1>2. SecretsInv /\ [Next]_vars => SecretsInv'
  BY TypeStep, SecretsStep DEF SecretsInv
<1>3. SecretsInv => SecretsStayOut
  BY DEF SecretsInv, Kept, SecretsStayOut
<1> QED  BY <1>1, <1>2, <1>3, PTL DEF Spec

-----------------------------------------------------------------------------

\* Gone, or on its way out.
Doomed(n) == cluster[n] = None \/ cluster[n].deleting

\* The deletion that is polled for was accepted, and nobody creates the object anew.
Polled == pc = "poll" => Doomed(state.id.name)

\* Every step keeps the polled object gone or on its way out.
LEMMA PolledStep == TypeInv /\ Polled /\ [Next]_vars => Polled'
<1> SUFFICES ASSUME TypeInv, Polled, [Next]_vars, pc' = "poll" PROVE Doomed(state.id.name)'
  BY DEF Polled
<1>1. CASE DeleteCall
  <2>1. state.id.name \in Names
    BY <1>1, StateTypes DEF DeleteCall, TypeInv, TypeOK, Placed, DeletePoints
  <2> QED  BY <1>1, <2>1 DEF DeleteCall, Vanish, tfVars, TypeInv, TypeOK, Objects, Doomed
<1>2. CASE ClusterNext
  <2>1. state' = state /\ pc = "poll" /\ state.id.name \in Names /\ Doomed(state.id.name)
    BY <1>2, StateTypes
    DEF ClusterNext, OutsideEdit, OutsideDelete, Controller, Finalize, tfVars, Polled,
        TypeInv, TypeOK, Placed, DeletePoints
  <2>2. ASSUME NEW n \in Names, NEW s \in Specs, OutsideEdit(n, s) PROVE Doomed(state.id.name)'
    BY <2>1, <2>2 DEF OutsideEdit, TypeInv, TypeOK, Objects, Doomed
  <2>3. ASSUME NEW n \in Names, OutsideDelete(n) PROVE Doomed(state.id.name)'
    BY <2>1, <2>3 DEF OutsideDelete, TypeInv, TypeOK, Objects, Doomed
  <2>4. ASSUME NEW n \in Names, Controller(n) PROVE Doomed(state.id.name)'
    BY <2>1, <2>4 DEF Controller, TypeInv, TypeOK, Objects, Doomed
  <2>5. ASSUME NEW n \in Names, Finalize(n) PROVE Doomed(state.id.name)'
    BY <2>1, <2>5 DEF Finalize, TypeInv, TypeOK, Doomed
  <2> QED  BY <1>2, <2>2, <2>3, <2>4, <2>5 DEF ClusterNext
<1>3. CASE UNCHANGED vars
  BY <1>3
  DEF vars, tfVars, Polled, Doomed
<1>4. CASE Next /\ ~DeleteCall /\ ~ClusterNext
  BY <1>4
  DEF Next, UserNext, Edit, Import, StartRunNoRefresh, Crash, StartRun, ProviderNext, ReadNext,
      ReadOpenAPI, ReadBasic, ReadGone, ReadError, ReadFinish, PlanNext, PlanNothing, PlanCreate,
      PlanDelete, PlanTainted, PlanChange, Approve, Propose, ApplyNext, Start, Patch, ReadBack,
      CheckOnce, Wait, After, AfterWait, ErrorOn, Retry, GiveUp, RespondSuccess,
      RespondErrorCondition, DeleteNext, DeleteSkip, DeleteError, DeleteConfirmed, DeleteTimeout,
      Deleted, EndRun
<1> QED  BY <1>1, <1>2, <1>3, <1>4

\* A Delete that lets go of the state does so with the object gone or on its way out.
LEMMA LetGoStep ==
  TypeInv /\ Polled /\ [Next]_vars =>
    (pc \in DeletePoints /\ state # None /\ state' = None =>
       state.skip \/ Doomed(state.id.name))
<1> SUFFICES ASSUME TypeInv, Polled, [Next]_vars,
                    pc \in DeletePoints, state # None, state' = None, ~state.skip
             PROVE  pc = "poll"
  BY DEF Polled
<1> QED
  BY DEF Next, UserNext, Edit, Import, StartRunNoRefresh, Crash, ClusterNext, OutsideEdit,
     OutsideDelete, Controller, Finalize, StartRun, ProviderNext, ReadNext, ReadOpenAPI, ReadBasic,
     ReadGone, ReadError, ReadFinish, PlanNext, PlanNothing, PlanCreate, PlanDelete, PlanTainted,
     PlanChange, Approve, Propose, ApplyNext, Start, Patch, ReadBack, CheckOnce, Wait, Retry,
     GiveUp, RespondSuccess, RespondErrorCondition, DeleteNext, DeleteSkip, DeleteCall, DeleteError,
     DeleteConfirmed, DeleteTimeout, vars, tfVars, DeletePoints

\* Delete forgets an object that delete.skip does not spare only when it is gone or on
\* its way out, whichever way the poll ended.
THEOREM DeleteLetsGoOfNothing == Spec => DeletedIsGone
<1>1. Init => Polled
  BY DEF Init, Polled
<1>2. TypeInv /\ Polled /\ [Next]_vars =>
        [(pc \in DeletePoints /\ state # None /\ state' = None) =>
           (state.skip \/ cluster[state.id.name] = None \/ cluster[state.id.name].deleting)]_vars
  BY LetGoStep DEF Doomed
<1> QED  BY <1>1, <1>2, TypeInit, TypeStep, PolledStep, PTL DEF Spec, DeletedIsGone

\* A Read that finds the object keeps the resource, and its identity.
LEMMA RefreshedState ==
  ASSUME TypeInv, ReadFinish
  PROVE  state' # None /\ state'.id = state.id
<1>1. /\ state \in StateType /\ seen.spec \in Specs
      /\ Reconciled(state.mwo, seen.wo) \in SecretOrNone
      /\ Masked(private.keys, seen.wo) \in SecretOrNone
  BY StateTypes, ObjectTypes
  DEF ReadFinish, TypeInv, TypeOK, Placed, ReadPoints, Reconciled, Masked, SecretOrNone
<1>2. state' \in StateType
  BY <1>1, StateTypes DEF ReadFinish
<1>3. state'.id = state.id
  BY <1>1 DEF ReadFinish, StateType
<1> QED  BY <1>2, <1>3, NoneAssumption

\* Read lets go of the state only when the object is not there.
THEOREM ReadForgetsNothing == Spec => ForgottenOnlyIfGone
<1>1. TypeInv /\ [Next]_vars =>
        [(pc \in ReadPoints /\ state # None /\ state' = None) => cluster[state.id.name] = None]_vars
  <2> SUFFICES ASSUME TypeInv, Next, pc \in ReadPoints, state # None, state' = None PROVE ReadGone
    BY DEF ReadGone
  <2>1. ~ReadFinish
    BY RefreshedState
  <2> QED
    BY <2>1
    DEF Next, UserNext, Edit, Import, StartRunNoRefresh, Crash, ClusterNext, OutsideEdit,
      OutsideDelete, Controller, Finalize, StartRun, ProviderNext, ReadNext, ReadOpenAPI,
      ReadBasic, ReadGone, ReadError, ReadFinish, PlanNext, PlanNothing, Approve, ApplyNext,
      Patch, ReadBack, CheckOnce, Wait, After, AfterWait, ErrorOn, Retry, GiveUp, RespondSuccess,
      RespondErrorCondition, DeleteNext, DeleteSkip, DeleteCall, DeleteError, DeleteConfirmed,
      DeleteTimeout, Deleted, EndRun, PlanCreate, PlanDelete, PlanTainted, PlanChange, Propose, Start, ReadPoints, tfVars
<1> QED  BY <1>1, TypeInit, TypeStep, PTL DEF Spec, ForgottenOnlyIfGone

-----------------------------------------------------------------------------

\* The flag of an error condition is dealt with when there is a plan: it is not in the
\* planned private state, and a plan that updates a flagged object in place changes
\* nothing of its manifest.
FlagInv ==
  /\ pc \in {"planned", "start"} \cup ApplyPoints \cup DeletePoints => ~plan.private.ecm
  /\ pc \in ApplyPoints => ~respPrivate.ecm
  /\ pc \in {"planned", "start"} \cup ApplyPoints /\ plan.action = "update" /\ private.ecm =>
       plan.config.id = state.id /\ plan.config.spec = state.spec

\* Every step keeps it.
LEMMA FlagStep == TypeInv /\ FlagInv /\ [Next]_vars => FlagInv'
<1> SUFFICES ASSUME TypeInv, FlagInv, [Next]_vars PROVE FlagInv'
  OBVIOUS
<1>1. CASE PlanCreate \/ PlanDelete \/ PlanTainted
  BY <1>1 DEF PlanCreate, PlanDelete, PlanTainted, Propose, EmptyPrivate, FlagInv,
              ApplyPoints, DeletePoints
<1>2. CASE PlanChange
  <2>1. private \in PrivateType /\ ~Handled(private).ecm
    BY DEF TypeInv, TypeOK, PrivateType, Handled
  <2>2. /\ plan'.private = Handled(private) /\ plan'.config = config /\ pc' = "planned"
        /\ plan'.action = "update" => ~MustReplace
        /\ UNCHANGED <<private, state>>
    BY <1>2 DEF PlanChange, Propose, tfVars
  <2> QED
    BY <2>1, <2>2 DEF FlagInv, MustReplace, ManifestDiffers, ApplyPoints, DeletePoints
<1>3. CASE Start
  <2>1. ~WithWo(plan.private, plan.config.wo).ecm
    BY <1>3, PlanTypes DEF Start, FlagInv, WithWo, TypeInv, TypeOK, Placed, PrivateType
  <2> QED
    BY <1>3, <2>1 DEF Start, FlagInv, tfVars, ApplyPoints, DeletePoints
<1>4. CASE Next /\ ~PlanCreate /\ ~PlanDelete /\ ~PlanTainted /\ ~PlanChange /\ ~Start
  <2>1. \/ pc' \notin {"planned", "start"} \cup ApplyPoints \cup DeletePoints
        \/ /\ pc \in {"planned", "start"} \cup ApplyPoints \cup DeletePoints
           /\ plan' = plan /\ respPrivate' = respPrivate
           /\ pc' \in ApplyPoints => pc \in ApplyPoints
           /\ pc' \in {"planned", "start"} \cup ApplyPoints /\ plan.action = "update" =>
                pc \notin DeletePoints /\ UNCHANGED <<private, state>>
    BY <1>4
    DEF Next, UserNext, Edit, Import, StartRunNoRefresh, Crash, ClusterNext, OutsideEdit,
      OutsideDelete, Controller, Finalize, StartRun, ProviderNext, ReadNext, ReadOpenAPI,
      ReadBasic, ReadGone, ReadError, ReadFinish, PlanNext, PlanNothing, Approve, ApplyNext,
      Patch, ReadBack, CheckOnce, Wait, After, AfterWait, ErrorOn, Retry, GiveUp, RespondSuccess,
      RespondErrorCondition, DeleteNext, DeleteSkip, DeleteCall, DeleteError, DeleteConfirmed,
      DeleteTimeout, Deleted, EndRun, TypeInv, Placed, tfVars, callVars, ReadPoints, ApplyPoints, DeletePoints
  <2> QED
    BY <2>1 DEF FlagInv, ApplyPoints, DeletePoints
<1>5. CASE UNCHANGED vars
  BY <1>5 DEF vars, tfVars, callVars, FlagInv
<1> QED  BY <1>1, <1>2, <1>3, <1>4, <1>5

\* A flagged object is never updated in place to another manifest.
THEOREM FlaggedIsReplaced == Spec => []FlaggedIsNotUpdated
<1>1. Init => FlagInv
  BY DEF Init, FlagInv, ApplyPoints, DeletePoints
<1>2. FlagInv => FlaggedIsNotUpdated
  BY DEF FlagInv, FlaggedIsNotUpdated
<1> QED  BY <1>1, <1>2, TypeInit, TypeStep, FlagStep, PTL DEF Spec

\* A success stores a private state without the flag, so that the replacement the flag
\* asked for is not asked for again.
THEOREM FlagEnds == Spec => FlagEndsWithSuccess
<1>1. Init => FlagInv
  BY DEF Init, FlagInv, ApplyPoints, DeletePoints
<1>2. TypeInv /\ FlagInv /\ [Next]_vars =>
        [(pc = "success" /\ state' # state) => ~private'.ecm]_vars
  <2> SUFFICES ASSUME FlagInv, Next, pc = "success", state' # state PROVE ~private'.ecm
    OBVIOUS
  <2>1. RespondSuccess
    BY DEF Next, UserNext, Edit, Import, StartRunNoRefresh, Crash, ClusterNext, OutsideEdit,
      OutsideDelete, Controller, Finalize, StartRun, ProviderNext, ReadNext, ReadOpenAPI,
      ReadBasic, ReadGone, ReadError, ReadFinish, PlanNext, PlanNothing, Approve, ApplyNext,
      Patch, ReadBack, CheckOnce, Wait, After, AfterWait, ErrorOn, Retry, GiveUp, RespondSuccess,
      RespondErrorCondition, DeleteNext, DeleteSkip, DeleteCall, DeleteError, DeleteConfirmed,
      DeleteTimeout, Deleted, EndRun, PlanCreate, PlanDelete, PlanTainted, PlanChange, Propose, Start, tfVars
  <2> QED
    BY <2>1 DEF RespondSuccess, FlagInv, ApplyPoints
<1> QED  BY <1>1, <1>2, TypeInit, TypeStep, FlagStep, PTL DEF Spec, FlagEndsWithSuccess

-----------------------------------------------------------------------------

\* There, and not on its way out.
Live(n) == cluster[n] # None /\ ~cluster[n].deleting

\* What the provider owes is in the state, or the Create that made it still runs.
TrackInv ==
  \A n \in owed : Live(n) =>
    \/ state # None /\ state.id.name = n
    \/ pc \in ApplyPoints /\ plan.config.id.name = n

\* Only a Patch of the name brings an object to life.
LEMMA LivesOn ==
  ASSUME TypeInv, [Next]_vars, NEW n \in Names, Live(n)'
  PROVE  Live(n) \/ (Patch /\ plan.config.id.name = n /\ cluster[n] = None)
<1> USE DEF Live, TypeInv, TypeOK, Objects
<1>1. CASE ClusterNext
  <2>1. ASSUME NEW m \in Names, NEW s \in Specs, OutsideEdit(m, s) PROVE Live(n)
    BY <2>1 DEF OutsideEdit
  <2>2. ASSUME NEW m \in Names, OutsideDelete(m) PROVE Live(n)
    BY <2>2 DEF OutsideDelete
  <2>3. ASSUME NEW m \in Names, Controller(m) PROVE Live(n)
    BY <2>3 DEF Controller
  <2>4. ASSUME NEW m \in Names, Finalize(m) PROVE Live(n)
    BY <2>4 DEF Finalize
  <2> QED  BY <1>1, <2>1, <2>2, <2>3, <2>4 DEF ClusterNext
<1>2. CASE Patch
  BY <1>2 DEF Patch, Applied
<1>3. CASE DeleteCall \/ DeleteError
  <2>1. cluster' = cluster \/ Vanish(state.id.name)
    BY <1>3 DEF DeleteCall, DeleteError
  <2>2. state.id.name \in Names
    BY <1>3, StateTypes DEF DeleteCall, DeleteError, Placed, DeletePoints
  <2> QED  BY <2>1, <2>2 DEF Vanish
<1>4. CASE Next /\ ~ClusterNext /\ ~Patch /\ ~DeleteCall /\ ~DeleteError
  <2>1. cluster' = cluster
    BY <1>4
    DEF Next, UserNext, Edit, Import, StartRunNoRefresh, Crash, StartRun, ProviderNext, ReadNext,
        ReadOpenAPI, ReadBasic, ReadGone, ReadError, ReadFinish, PlanNext, PlanNothing, PlanCreate,
        PlanDelete, PlanTainted, PlanChange, Propose, Approve, ApplyNext, Start, ReadBack,
        CheckOnce, Wait, Retry, GiveUp, RespondSuccess, RespondErrorCondition, DeleteNext,
        DeleteSkip, DeleteConfirmed, DeleteTimeout
  <2> QED  BY <2>1
<1>5. CASE UNCHANGED vars
  BY <1>5 DEF vars
<1> QED  BY <1>1, <1>2, <1>3, <1>4, <1>5

\* A Delete lets go of what is gone or on its way out, or of what delete.skip spares.
LEMMA DeletedIsDoomed ==
  ASSUME TypeInv, Polled, DeleteSkip \/ DeleteConfirmed \/ DeleteTimeout, NEW n \in Names,
         n \in owed', Live(n)'
  PROVE  n \in owed /\ Live(n) /\ state # None /\ state.id.name # n
BY DEF DeleteSkip, DeleteConfirmed, DeleteTimeout, Polled, Doomed, Live, TypeInv, TypeOK, Placed,
       DeletePoints, ghosts

\* Every step keeps track of what is owed.
LEMMA TrackStep == TypeInv /\ Polled /\ TrackInv /\ [Next]_vars => TrackInv'
<1> SUFFICES ASSUME TypeInv, Polled, TrackInv, [Next]_vars PROVE TrackInv'
  OBVIOUS
<1> SUFFICES ASSUME NEW n \in Names, n \in owed', Live(n)'
             PROVE  \/ state' # None /\ state'.id.name = n
                    \/ pc' \in ApplyPoints /\ plan'.config.id.name = n
  <2>1. TypeInv'
    BY TypeStep
  <2>2. owed' \subseteq Names
    BY <2>1 DEF TypeInv, TypeOK
  <2> QED  BY <2>2 DEF TrackInv
<1>0. Live(n) \/ (Patch /\ plan.config.id.name = n /\ cluster[n] = None)
  BY LivesOn
<1>1. CASE Patch
  <2>1. /\ pc' \in ApplyPoints /\ plan' = plan /\ state' = state
        /\ owed' \subseteq owed \cup {plan.config.id.name}
    BY <1>1 DEF Patch, ApplyPoints, tfVars
  <2> QED  BY <1>0, <2>1 DEF TrackInv
<1>2. CASE DeleteSkip \/ DeleteConfirmed \/ DeleteTimeout
  <2>1. n \in owed /\ Live(n) /\ state.id.name # n /\ pc \in DeletePoints
    BY <1>2, DeletedIsDoomed DEF DeleteSkip, DeleteConfirmed, DeleteTimeout, DeletePoints
  <2> QED  BY <2>1 DEF TrackInv, DeletePoints, ApplyPoints
<1>3. CASE GiveUp
  <2>1. n \in owed /\ Live(n) /\ pc \in ApplyPoints /\ state' = state
    BY <1>0, <1>3 DEF GiveUp, Patch, ApplyPoints, tfVars
  <2>2. CASE IsCreate
    BY <1>3, <2>1, <2>2 DEF GiveUp, TrackInv
  <2>3. CASE ~IsCreate
    BY <1>3, <2>1, <2>3 DEF GiveUp, TrackInv, IsCreate, TypeInv, Placed
  <2> QED  BY <2>2, <2>3
<1>4. CASE RespondSuccess \/ RespondErrorCondition
  <2>1. n \in owed /\ Live(n) /\ pc \in ApplyPoints
    BY <1>0, <1>4 DEF RespondSuccess, RespondErrorCondition, Patch, ApplyPoints
  <2>2. plan.config.id.name = n
    BY <2>1 DEF TrackInv, TypeInv, Placed
  <2>3. state'.id = plan.config.id
    BY <1>4 DEF RespondSuccess, RespondErrorCondition, Stored
  <2>4. state' # None
    <3>1. /\ plan # None /\ plan.config \in Configs /\ owo \in SecretOrNone
          /\ Masked(plan.config.wo # None, owo) \in SecretOrNone
      BY <2>1 DEF TypeInv, TypeOK, Placed, Masked, SecretOrNone
    <3>2. Stored(Masked(plan.config.wo # None, owo), IsCreate /\ mwo # None) \in StateType
      BY <3>1, StoredType DEF TypeInv
    <3>3. Stored(owo, IsCreate) \in StateType
      BY <3>1, StoredType DEF TypeInv, IsCreate
    <3> QED  BY <1>4, <3>2, <3>3, NoneAssumption DEF RespondSuccess, RespondErrorCondition
  <2> QED  BY <2>2, <2>3, <2>4
<1>5. CASE Crash
  <2>1. n \in owed /\ state # None /\ state.id.name = n /\ state' = state
    BY <1>5 DEF Crash, tfVars, TypeInv, TypeOK
  <2> QED  BY <2>1
<1>6. CASE ReadGone \/ ReadFinish \/ (\E m \in Names : Import(m))
  <2>1. n \in owed /\ Live(n) /\ pc \notin ApplyPoints
    BY <1>0, <1>6 DEF ReadGone, ReadFinish, Import, Patch, ApplyPoints, ghosts
  <2>2. state # None /\ state.id.name = n
    BY <2>1 DEF TrackInv
  <2>3. ReadFinish
    BY <1>6, <2>1, <2>2 DEF ReadGone, Import, Live
  <2>4. state'.id = state.id /\ state' # None
    BY <2>3, RefreshedState
  <2> QED  BY <2>2, <2>4
<1>7. CASE /\ Next /\ ~Patch /\ ~DeleteSkip /\ ~DeleteConfirmed /\ ~DeleteTimeout /\ ~GiveUp
           /\ ~RespondSuccess /\ ~RespondErrorCondition /\ ~Crash /\ ~ReadGone /\ ~ReadFinish
           /\ ~(\E m \in Names : Import(m))
  <2>1. /\ owed' = owed /\ state' = state
        /\ pc \in ApplyPoints => pc' \in ApplyPoints /\ plan' = plan
    BY <1>7
    DEF Next, UserNext, Edit, StartRunNoRefresh, ClusterNext, OutsideEdit, OutsideDelete,
        Controller, Finalize, StartRun, ProviderNext, ReadNext, ReadOpenAPI, ReadBasic, ReadError,
        PlanNext, PlanNothing, PlanCreate, PlanDelete, PlanTainted, PlanChange, Propose, Approve,
        ApplyNext, Start, ReadBack, CheckOnce, Wait, After, AfterWait, ErrorOn, Retry, DeleteNext,
        DeleteCall, DeleteError, EndRun, tfVars, callVars, ghosts, ReadPoints, ApplyPoints,
        DeletePoints
  <2> QED  BY <1>0, <1>7, <2>1 DEF TrackInv
<1>8. CASE UNCHANGED vars
  BY <1>0, <1>8 DEF vars, tfVars, ghosts, TrackInv, Live
<1> QED  BY <1>1, <1>2, <1>3, <1>4, <1>5, <1>6, <1>7, <1>8

\* An object the provider created stays the one in the state until it is gone or on its
\* way out, through failures, error conditions, replacements and the changes of others;
\* a Create that failed for good, a crash and delete.skip excepted.
THEOREM CreatedStaysTracked == Spec => []CreatedIsTracked
<1>1. Init => Polled /\ TrackInv
  BY DEF Init, Polled, TrackInv
<1>2. TrackInv => CreatedIsTracked
  BY DEF TrackInv, CreatedIsTracked, Live, ApplyPoints
<1> QED  BY <1>1, <1>2, TypeInit, TypeStep, PolledStep, TrackStep, PTL DEF Spec
-----------------------------------------------------------------------------

\* Without a manifest_wo there is never a secret in the manifest of the call, at
\* whatever attempt.
PlainInv ==
  pc \in ApplyPoints /\ plan.config.wo = None =>
    mwo = None /\ (pc = "readBack" => planned = None)

\* An object on its way out is the one that is polled for, or nobody waits for its end.
LooseInv ==
  \A n \in Names : cluster[n] # None /\ cluster[n].deleting =>
    n \in loose \/ (pc = "poll" /\ state.id.name = n)

\* From its Patch on, a call's object is as planned, and there unless an old one was on
\* its way out under that name.
AppliedPoints == {"readBack", "wait", "check", "success"}
DoneInv ==
  pc \in AppliedPoints =>
    LET o == cluster[plan.config.id.name]
    IN  /\ o # None => o.spec = plan.config.spec /\ o.wo = plan.config.wo
        /\ plan.config.id.name \notin loose => o # None

AppliedInv == PlainInv /\ (outside = 0 => LooseInv /\ DoneInv)

\* Every step keeps the manifest free of secrets when there is no manifest_wo.
LEMMA PlainStep == TypeInv /\ PlainInv /\ [Next]_vars => PlainInv'
<1> SUFFICES ASSUME TypeInv, PlainInv, [Next]_vars PROVE PlainInv'
  OBVIOUS
<1> USE DEF PlainInv, ApplyPoints
<1>1. CASE Start
  BY <1>1 DEF Start
<1>2. CASE Patch
  BY <1>2 DEF Patch, Inject
<1>3. CASE ReadBack
  BY <1>3 DEF ReadBack, AfterWait
<1>4. CASE Next /\ ~Start /\ ~Patch /\ ~ReadBack
  <2>1. \/ pc' \notin ApplyPoints
        \/ /\ pc \in ApplyPoints /\ plan' = plan /\ mwo' = mwo /\ planned' = planned
           /\ pc' = "readBack" => pc = "readBack"
    BY <1>4
    DEF Next, UserNext, Edit, Import, StartRunNoRefresh, Crash, ClusterNext, OutsideEdit,
        OutsideDelete, Controller, Finalize, StartRun, ProviderNext, ReadNext, ReadOpenAPI,
        ReadBasic, ReadGone, ReadError, ReadFinish, PlanNext, PlanNothing, PlanCreate, PlanDelete,
        PlanTainted, PlanChange, Approve, Propose, ApplyNext, CheckOnce, Wait, After, AfterWait,
        ErrorOn, Retry, GiveUp, RespondSuccess, RespondErrorCondition, DeleteNext, DeleteSkip,
        DeleteCall, DeleteError, DeleteConfirmed, DeleteTimeout, Deleted, EndRun, callVars,
        ReadPoints
  <2> QED  BY <2>1
<1>5. CASE UNCHANGED vars
  BY <1>5 DEF vars, callVars
<1> QED  BY <1>1, <1>2, <1>3, <1>4, <1>5

\* Steps that neither touch the cluster nor end a poll keep the rest, if they do not
\* skip the Patch.
LEMMA AppliedRest ==
  ASSUME TypeInv, LooseInv, DoneInv, [Next]_vars, outside' = 0, ~ClusterNext, ~Patch,
         ~DeleteNext, ~Crash
  PROVE  LooseInv' /\ DoneInv'
<1> USE DEF LooseInv, DoneInv, AppliedPoints
<1>1. CASE Next
  <2>1. /\ cluster' = cluster /\ loose' = loose /\ pc # "poll"
        /\ pc' \in AppliedPoints => pc \in AppliedPoints /\ plan' = plan
    BY <1>1
    DEF Next, UserNext, Edit, Import, StartRunNoRefresh, StartRun, ProviderNext, ReadNext,
        ReadOpenAPI, ReadBasic, ReadGone, ReadError, ReadFinish, PlanNext, PlanNothing, PlanCreate,
        PlanDelete, PlanTainted, PlanChange, Approve, Propose, ApplyNext, Start, ReadBack,
        CheckOnce, Wait, After, AfterWait, ErrorOn, Retry, GiveUp, RespondSuccess,
        RespondErrorCondition, EndRun, callVars, ghosts, ReadPoints
  <2> QED  BY <2>1
<1>2. CASE UNCHANGED vars
  BY <1>2 DEF vars, tfVars, ghosts
<1> QED  BY <1>1, <1>2

\* The end of a Delete, or of the process, leaves alone what is still on its way out.
LEMMA AppliedDelete ==
  ASSUME TypeInv, LooseInv, DoneInv, DeleteNext \/ Crash
  PROVE  LooseInv' /\ DoneInv'
<1> USE DEF LooseInv, DoneInv, AppliedPoints
<1>1. CASE DeleteCall
  <2>1. state.id.name \in Names
    BY <1>1, StateTypes DEF DeleteCall, TypeInv, TypeOK, Placed, DeletePoints
  <2>2. \A n \in Names \ {state.id.name} : cluster'[n] = cluster[n]
    BY <1>1, <2>1 DEF DeleteCall, Vanish, TypeInv, TypeOK
  <2> QED  BY <1>1, <2>2 DEF DeleteCall, tfVars, ghosts
<1>2. CASE DeleteError
  <2>1. state.id.name \in Names
    BY <1>2, StateTypes DEF DeleteError, TypeInv, TypeOK, Placed, DeletePoints
  <2>2. \A n \in Names \ {state.id.name} : cluster'[n] = cluster[n]
    BY <1>2, <2>1 DEF DeleteError, Vanish, TypeInv, TypeOK
  <2>3. (cluster' = cluster /\ loose' = loose) \/ loose' = loose \cup {state.id.name}
    BY <1>2 DEF DeleteError, LeftAlone
  <2> QED  BY <1>2, <2>2, <2>3 DEF DeleteError, EndRun
<1>3. CASE DeleteSkip \/ DeleteConfirmed \/ DeleteTimeout
  <2>1. /\ cluster' = cluster /\ pc' \notin AppliedPoints /\ loose \subseteq loose'
        /\ pc = "poll" => state.id.name \in loose' \/ cluster[state.id.name] = None
    BY <1>3
    DEF DeleteSkip, DeleteConfirmed, DeleteTimeout, Deleted, EndRun, LeftAlone, DynamicGet
  <2> QED  BY <2>1
<1>4. CASE Crash
  BY <1>4 DEF Crash, EndRun, LeftAlone
<1> QED  BY <1>1, <1>2, <1>3, <1>4 DEF DeleteNext

\* A Patch makes the object as planned; a new one is not on its way out.
LEMMA AppliedPatch ==
  ASSUME TypeInv, PlainInv, LooseInv, Patch
  PROVE  LooseInv' /\ DoneInv'
<1> DEFINE c == plan.config
           n == c.id.name
<1> USE DEF LooseInv, DoneInv, AppliedPoints
<1>1. c \in Configs /\ n \in Names /\ pc = "patch" /\ plan' = plan
  BY ConfigTypes DEF Patch, TypeInv, Placed, ApplyPoints
<1>2. pc' \in {"readBack", "backoff"}
  BY DEF Patch
<1>3. CASE UNCHANGED <<cluster, loose>> /\ pc' = "backoff"
  BY <1>1, <1>3
<1>4. CASE /\ cluster' = [cluster EXCEPT ![n] = Applied(@)]
           /\ loose' = IF cluster[n] = None THEN loose \ {n} ELSE loose
  <2>1. cluster[n] \in Objects \cup {None}
    BY <1>1 DEF TypeInv, TypeOK
  <2>2. Inject = c.wo
    BY <1>1 DEF Inject, PlainInv, ApplyPoints
  <2>3. /\ Applied(cluster[n]).spec = c.spec /\ Applied(cluster[n]).wo = c.wo
        /\ Applied(cluster[n]).deleting =>
             cluster[n] # None /\ cluster[n].deleting
    BY <2>1, <2>2 DEF Applied, Objects
  <2>4. Applied(cluster[n]) # None
    BY <1>1, <2>1, AppliedType, NoneAssumption DEF TypeInv, Placed, ApplyPoints
  <2>5. cluster'[n] = Applied(cluster[n]) /\ \A m \in Names \ {n} : cluster'[m] = cluster[m]
    BY <1>1, <1>4 DEF TypeInv, TypeOK
  <2>6. LooseInv'
    BY <1>1, <1>4, <2>3, <2>5
  <2>7. DoneInv'
    BY <1>1, <2>3, <2>4, <2>5
  <2> QED  BY <2>6, <2>7
<1> QED  BY <1>3, <1>4, <1>2 DEF Patch

\* The last finalizer takes only what nobody waits for, or what is polled for.
LEMMA AppliedFinalize ==
  ASSUME TypeInv, LooseInv, DoneInv, NEW m \in Names, Finalize(m)
  PROVE  LooseInv' /\ DoneInv'
<1>1. /\ cluster[m].deleting /\ cluster' = [cluster EXCEPT ![m] = None]
      /\ cluster[m] # None /\ UNCHANGED <<pc, plan, state, loose>>
  BY DEF Finalize, tfVars, ghosts
<1>2. LooseInv'
  BY <1>1 DEF LooseInv, TypeInv, TypeOK
<1>3. DoneInv'
  <2> SUFFICES ASSUME pc \in AppliedPoints, plan.config.id.name = m PROVE m \in loose
    BY <1>1 DEF DoneInv, TypeInv, TypeOK, Placed
  <2> QED  BY <1>1 DEF LooseInv, AppliedPoints
<1> QED  BY <1>2, <1>3

\* Every step keeps what makes a success mean that the manifest is applied.
LEMMA AppliedStep == TypeInv /\ AppliedInv /\ [Next]_vars => AppliedInv'
<1> SUFFICES ASSUME TypeInv, AppliedInv, [Next]_vars PROVE AppliedInv'
  OBVIOUS
<1> SUFFICES ASSUME outside' = 0 PROVE LooseInv' /\ DoneInv'
  BY PlainStep DEF AppliedInv
<1>1. \/ outside = 0
      \/ \E n \in Names : OutsideDelete(n) \/ Controller(n) \/ \E s \in Specs : OutsideEdit(n, s)
  BY DEF Next, UserNext, Edit, Import, StartRunNoRefresh, Crash, ClusterNext, Finalize, StartRun,
         ProviderNext, ReadNext, ReadOpenAPI, ReadBasic, ReadGone, ReadError, ReadFinish, PlanNext,
         PlanNothing, PlanCreate, PlanDelete, PlanTainted, PlanChange, Approve, Propose, ApplyNext,
         Start, Patch, ReadBack, CheckOnce, Wait, Retry, GiveUp, RespondSuccess,
         RespondErrorCondition, DeleteNext, DeleteSkip, DeleteCall, DeleteError, DeleteConfirmed,
         DeleteTimeout, vars, bounds
<1>2. ~\E n \in Names : OutsideDelete(n) \/ Controller(n) \/ \E s \in Specs : OutsideEdit(n, s)
  BY DEF OutsideEdit, OutsideDelete, Controller, Outside, TypeInv, TypeOK
<1>3. PlainInv /\ LooseInv /\ DoneInv
  BY <1>1, <1>2 DEF AppliedInv
<1>4. CASE ClusterNext
  BY <1>2, <1>3, <1>4, AppliedFinalize DEF ClusterNext
<1>5. CASE Patch
  BY <1>3, <1>5, AppliedPatch
<1>6. CASE DeleteNext \/ Crash
  BY <1>3, <1>6, AppliedDelete
<1> QED  BY <1>3, <1>4, <1>5, <1>6, AppliedRest

\* A Create or Update that reports success has left the manifest as planned on the
\* cluster, at whatever attempt, in an object that is not on its way out; but for what
\* others did, and for a deletion under the same name that nobody saw the end of.
THEOREM SuccessIsApplied == Spec => []SuccessMeansApplied
<1>1. Init => AppliedInv
  BY DEF Init, AppliedInv, PlainInv, LooseInv, DoneInv, AppliedPoints, ApplyPoints
<1>2. TypeInv /\ AppliedInv => SuccessMeansApplied
  <2> SUFFICES ASSUME TypeInv, AppliedInv, pc = "success", outside = 0
               PROVE  SuccessMeansApplied
    BY DEF SuccessMeansApplied
  <2>1. plan.config.id.name \in Names
    BY ConfigTypes DEF TypeInv, Placed, ApplyPoints
  <2> QED  BY <2>1 DEF AppliedInv, LooseInv, DoneInv, AppliedPoints, SuccessMeansApplied
<1> QED  BY <1>1, <1>2, TypeInit, TypeStep, AppliedStep, PTL DEF Spec
=============================================================================
