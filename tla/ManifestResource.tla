--------------------------- MODULE ManifestResource ---------------------------
(***************************************************************************)
(* The life of one kubectl_manifest resource: Create, Read, Update,        *)
(* Delete, ImportState and ModifyPlan of kubectl/manifest_resource.go,     *)
(* driven by a Terraform run and working on a Kubernetes cluster.          *)
(*                                                                         *)
(* Abstractions.  A manifest is its identity (name and namespace), one     *)
(* value for everything else the user writes in it (spec), and the value   *)
(* at the one path that manifest_wo sets (None when nothing is there).     *)
(* The values of a write-only path are only ever written by this           *)
(* provider's field manager, so a server-side apply without the path       *)
(* removes it.  The SHA-256 of manifest_wo is taken to be injective.       *)
(* Every call to the API server is one atomic step; the outcomes of a call *)
(* are its success, its failure with no effect, and its failure after it   *)
(* took effect.                                                            *)
(***************************************************************************)
EXTENDS Naturals, FiniteSets

CONSTANTS
  Names,              \* names of objects of the manifest's apiVersion and kind
  Specs,              \* values of the public part of a manifest
  Secrets,            \* values of the write-only path
  None,               \* nothing: no object, no state, no value at the path
  Configs,            \* the configurations the user may write
  Namespaced,         \* is the kind namespaced?
  RetryCount,         \* apply_retry_count; 0 leaves the number of retries open
  MaxAttempts,        \* bound on the attempts of one call when RetryCount = 0
  MaxEdits,           \* bound on changes of the configuration
  MaxFaults,          \* bound on failed calls, timeouts and crashes
  MaxOutside          \* bound on what others do to the objects

Ids == [name : Names, ns : {"", "default"}]
SecretOrNone == Secrets \cup {None}
Objects == [spec : Specs, wo : SecretOrNone, failing : BOOLEAN, deleting : BOOLEAN]
ErrorBlocks == {"none", "match", "badregex"}
Waits == {"none", "rollout", "fields"}    \* wait.rollout alone, or wait.conditions / wait.fields
ConfigType == [id : Ids, spec : Specs, wo : SecretOrNone, err : ErrorBlocks,
               wait : Waits, skip : BOOLEAN]
PrivateType == [keys : BOOLEAN, sum : SecretOrNone, ecm : BOOLEAN, imported : BOOLEAN]
StateType == [id : Ids, spec : Specs, err : ErrorBlocks, wait : Waits, skip : BOOLEAN,
              mwo : SecretOrNone, owo : SecretOrNone, tainted : BOOLEAN]
Actions == {"create", "update", "replace", "delete", "noop"}
PlanType == [action : Actions, config : Configs \cup {None}, private : PrivateType]

ASSUME ConfigsAssumption == Configs \subseteq ConfigType
ASSUME NoneAssumption ==
  /\ None \notin Secrets /\ None \notin Names /\ None \notin Configs
  /\ None \notin Objects /\ None \notin StateType /\ None \notin PlanType
ASSUME BoundsAssumption ==
  /\ RetryCount \in Nat /\ MaxAttempts \in Nat \ {0}
  /\ MaxEdits \in Nat /\ MaxFaults \in Nat /\ MaxOutside \in Nat
  /\ Namespaced \in BOOLEAN

VARIABLES
  config,       \* the resource block the user has written, None to destroy it
  cluster,      \* the object of each name in the API server, or None
  state,        \* the resource's value in the Terraform state, or None
  private,      \* its private state: fields_wo_keys (are there any),
                \* manifest_wo_checksum, error_condition_met and IsImported
  plan,         \* the planned change of the running Terraform command, or None
  pc,           \* where the command is
  attempt,      \* which attempt of backoff.Retry runs
  mwo,          \* what model.Manifest holds at the write-only path
  planned,      \* what plannedManifest holds there
  owo,          \* what model.Object holds there
  seen,         \* the object a Read has got
  respPrivate,  \* resp.Private of the running Create or Update
  edits, faults, outside,   \* how much of each bound is used up
  excuse,       \* ghost: why the state might hold a secret
  owed,         \* ghost: names this provider created and still has to track
  loose         \* ghost: names whose deletion the provider asked for, and did not see the end of

tfVars == <<state, private>>
callVars == <<attempt, mwo, planned, owo, seen, respPrivate>>
ghosts == <<excuse, owed, loose>>
bounds == <<edits, faults, outside>>
vars == <<config, cluster, state, private, plan, pc, callVars, bounds, ghosts>>

EmptyPrivate == [keys |-> FALSE, sum |-> None, ecm |-> FALSE, imported |-> FALSE]
Excuses == {"retry", "ece", "crash", "import"}

\* The points of the code a command can be at; the handler in brackets.
ReadPoints == {"read", "readV2", "readDone"}
ApplyPoints == {"patch", "readBack", "wait", "check", "backoff", "success", "ece"}
DeletePoints == {"delete", "poll"}
Points == {"idle", "plan", "planned", "start"} \cup ReadPoints \cup ApplyPoints \cup DeletePoints

TypeOK ==
  /\ config \in Configs \cup {None}
  /\ cluster \in [Names -> Objects \cup {None}]
  /\ state \in StateType \cup {None}
  /\ private \in PrivateType
  /\ plan \in PlanType \cup {None}
  /\ pc \in Points
  /\ attempt \in Nat
  /\ mwo \in SecretOrNone /\ planned \in SecretOrNone /\ owo \in SecretOrNone
  /\ seen \in Objects \cup {None}
  /\ respPrivate \in PrivateType
  /\ edits \in Nat /\ faults \in Nat /\ outside \in Nat
  /\ excuse \subseteq Excuses
  /\ owed \subseteq Names /\ loose \subseteq Names

Init ==
  /\ config \in Configs
  /\ cluster = [n \in Names |-> None]
  /\ state = None /\ private = EmptyPrivate
  /\ plan = None /\ pc = "idle"
  /\ attempt = 0 /\ mwo = None /\ planned = None /\ owo = None
  /\ seen = None /\ respPrivate = EmptyPrivate
  /\ edits = 0 /\ faults = 0 /\ outside = 0
  /\ excuse = {} /\ owed = {} /\ loose = {}

-----------------------------------------------------------------------------
(* Helpers *)

\* A call to the API server fails, a wait or a process runs out of time.
Fault == faults < MaxFaults /\ faults' = faults + 1
NoFault == UNCHANGED faults

\* The command ends and its memory with it.
EndRun ==
  /\ pc' = "idle" /\ plan' = None /\ attempt' = 0
  /\ mwo' = None /\ planned' = None /\ owo' = None /\ seen' = None
  /\ respPrivate' = EmptyPrivate

\* getResourceInterface, the deletion poll and the OpenAPI read ask for the
\* object without a namespace when the manifest gives none; the API server then
\* has no such object of a namespaced kind.
DynamicGet(id) == IF Namespaced /\ id.ns = "" THEN None ELSE cluster[id.name]

\* checkErrorOnConditions against an object: the error it returns, if any.  The block
\* speaks of a field that an object has only while it is failing, and a field that is
\* not there is skipped, with its regular expression.
ErrorOn(err, o) ==
  IF o = None \/ err = "none" THEN "nil"
  ELSE CASE ~o.failing       -> "nil"
         [] err = "match"    -> "ece"
         [] err = "badregex" -> "error"

\* The manifest that is applied: deepMergeMaps of manifest_wo into it.
Inject == IF plan.config.wo # None THEN plan.config.wo ELSE mwo

\* The object after a server-side apply of the model's manifest.
Applied(o) ==
  IF o = None
  THEN [spec |-> plan.config.spec, wo |-> Inject, failing |-> FALSE, deleting |-> FALSE]
  ELSE [o EXCEPT !.spec = plan.config.spec, !.wo = Inject]

\* What the Set of a Create's or Update's model stores, with secret s in object.
Stored(s, tainted) ==
  [id |-> plan.config.id, spec |-> plan.config.spec, err |-> plan.config.err,
   wait |-> plan.config.wait, skip |-> plan.config.skip,
   mwo |-> mwo, owo |-> s, tainted |-> tainted]

\* Deviation: the masked value is replaced by a marker instead of being removed.
MaskedByMarker(keys, v) == IF keys THEN "(sensitive)" ELSE v

\* maskFieldsWoPaths of a value, when there are write-only keys to mask.
Masked(keys, v) == IF keys THEN None ELSE v

IsCreate == plan.action # "update"

\* A deletion that was asked for runs on with nobody waiting for its end.
LeftAlone(n) == loose' = loose \cup {n}

-----------------------------------------------------------------------------
(* The user and the rest of the cluster *)

Edit(c) ==
  /\ pc = "idle" /\ edits < MaxEdits /\ c # config
  /\ config' = c /\ edits' = edits + 1
  /\ UNCHANGED <<cluster, tfVars, plan, pc, callVars, faults, outside, ghosts>>

Outside == outside < MaxOutside /\ outside' = outside + 1

OutsideEdit(n, s) ==
  /\ Outside /\ cluster[n] # None /\ cluster[n].spec # s
  /\ cluster' = [cluster EXCEPT ![n].spec = s]
  /\ UNCHANGED <<config, tfVars, plan, pc, callVars, edits, faults, ghosts>>

OutsideDelete(n) ==
  /\ Outside /\ cluster[n] # None
  /\ \/ cluster' = [cluster EXCEPT ![n] = None]
     \/ ~cluster[n].deleting /\ cluster' = [cluster EXCEPT ![n].deleting = TRUE]
  /\ UNCHANGED <<config, tfVars, plan, pc, callVars, edits, faults, ghosts>>

\* A controller reports that the object has failed, or has recovered.
Controller(n) ==
  /\ Outside /\ cluster[n] # None
  /\ cluster' = [cluster EXCEPT ![n].failing = ~@]
  /\ UNCHANGED <<config, tfVars, plan, pc, callVars, edits, faults, ghosts>>

\* The last finalizer of an object that is being deleted is removed.
Finalize(n) ==
  /\ cluster[n] # None /\ cluster[n].deleting
  /\ cluster' = [cluster EXCEPT ![n] = None]
  /\ UNCHANGED <<config, tfVars, plan, pc, callVars, bounds, ghosts>>

-----------------------------------------------------------------------------
(* Terraform: a command starts, with or without a refresh, or dies *)

StartRun ==
  /\ pc = "idle"
  /\ pc' = IF state = None THEN "plan" ELSE "read"
  /\ UNCHANGED <<config, cluster, tfVars, plan, callVars, bounds, ghosts>>

\* -refresh=false
StartRunNoRefresh ==
  /\ pc = "idle" /\ state # None
  /\ pc' = "plan"
  /\ UNCHANGED <<config, cluster, tfVars, plan, callVars, bounds, ghosts>>

\* The process dies: no response reaches Terraform, which keeps what it had.
Crash ==
  /\ pc \in ApplyPoints \cup DeletePoints \cup {"start"}
  /\ Fault /\ EndRun
  /\ excuse' = excuse \cup {"crash"}
  /\ owed' = owed \ (IF state = None THEN Names ELSE Names \ {state.id.name})
  /\ IF pc = "poll" THEN LeftAlone(state.id.name) ELSE UNCHANGED loose
  /\ UNCHANGED <<config, cluster, tfVars, edits, outside>>

-----------------------------------------------------------------------------
(* ImportState *)

Import(n) ==
  /\ pc = "idle" /\ state = None /\ config # None /\ config.id.name = n
  /\ LET id == [name |-> n, ns |-> IF Namespaced THEN "default" ELSE ""]
         o == DynamicGet(id)
     IN  /\ o # None
         /\ state' = [id |-> id, spec |-> o.spec, err |-> "none", wait |-> "none",
                      skip |-> FALSE, mwo |-> o.wo, owo |-> o.wo, tainted |-> FALSE]
  /\ private' = [EmptyPrivate EXCEPT !.imported = TRUE]
  /\ excuse' = excuse \cup {"import"}
  /\ UNCHANGED <<config, cluster, plan, pc, callVars, bounds, owed, loose>>

-----------------------------------------------------------------------------
(* Read *)

\* Deviation: the OpenAPI read's 404 is taken for the absence of the object.
ReadOpenAPITrusts404 ==
  /\ pc = "read" /\ NoFault
  /\ \/ /\ DynamicGet(state.id) # None
        /\ seen' = DynamicGet(state.id) /\ pc' = "readDone" /\ UNCHANGED tfVars
     \/ /\ DynamicGet(state.id) = None
        /\ pc' = "plan" /\ state' = None /\ private' = EmptyPrivate /\ UNCHANGED seen
  /\ UNCHANGED <<config, cluster, plan, attempt, mwo, planned, owo, respPrivate,
                 edits, outside, ghosts>>

\* A failure of any kind of the OpenAPI read falls back to the basic read.
ReadOpenAPI ==
  /\ pc = "read"
  /\ \/ /\ DynamicGet(state.id) # None /\ NoFault
        /\ seen' = DynamicGet(state.id) /\ pc' = "readDone"
     \/ /\ DynamicGet(state.id) = None /\ NoFault
        /\ pc' = "readV2" /\ UNCHANGED seen
     \/ Fault /\ pc' = "readV2" /\ UNCHANGED seen
  /\ UNCHANGED <<config, cluster, tfVars, plan, attempt, mwo, planned, owo, respPrivate,
                 edits, outside, ghosts>>

ReadBasic ==
  /\ pc = "readV2" /\ NoFault
  /\ cluster[state.id.name] # None
  /\ seen' = cluster[state.id.name] /\ pc' = "readDone"
  /\ UNCHANGED <<config, cluster, tfVars, plan, attempt, mwo, planned, owo, respPrivate,
                 edits, outside, ghosts>>

\* Not found: the resource is removed from the state.
ReadGone ==
  /\ pc = "readV2" /\ NoFault
  /\ cluster[state.id.name] = None
  /\ state' = None /\ private' = EmptyPrivate /\ pc' = "plan"
  /\ UNCHANGED <<config, cluster, plan, callVars, edits, outside, ghosts>>

ReadError ==
  /\ pc = "readV2" /\ Fault /\ EndRun
  /\ UNCHANGED <<config, cluster, tfVars, edits, outside, ghosts>>

\* reconcileDynamicWithPrior at the write-only path: only what the prior manifest
\* has there is kept, with the API's value unless that is null.
Reconciled(prior, api) == IF prior = None THEN None ELSE IF api = None THEN prior ELSE api

\* The flag a Read leaves: any error of checkErrorOnConditions sets it, an object
\* that could not be read clears it.
Flag(o) == ErrorOn(state.err, o) # "nil"

ReadFinish ==
  /\ pc = "readDone"
  /\ state' = [state EXCEPT !.spec = seen.spec, !.mwo = Reconciled(state.mwo, seen.wo),
                            !.owo = Masked(private.keys, seen.wo)]
  /\ \/ NoFault /\ private' = [private EXCEPT !.ecm = Flag(DynamicGet(state.id))]
     \/ state.err # "none" /\ Fault /\ private' = [private EXCEPT !.ecm = Flag(None)]
  /\ pc' = "plan" /\ seen' = None
  /\ UNCHANGED <<config, cluster, plan, attempt, mwo, planned, owo, respPrivate,
                 edits, outside, ghosts>>

-----------------------------------------------------------------------------
(* ModifyPlan, and what Terraform makes of it *)

Propose(action, c, p) ==
  /\ plan' = [action |-> action, config |-> c, private |-> p] /\ pc' = "planned"
  /\ UNCHANGED <<config, cluster, tfVars, callVars, bounds, ghosts>>

\* Name or namespace changed; an import may have another namespace than the block.
IdChanged ==
  \/ config.id.name # state.id.name
  \/ config.id.ns # state.id.ns /\ ~private.imported

ManifestDiffers == config.id # state.id \/ config.spec # state.spec \/ state.mwo # None

\* Deviation: error_condition_met is not looked at.
MustReplaceUnflagged == IdChanged /\ ManifestDiffers

\* resp.RequiresReplace names the manifest; Terraform follows it if the manifest has a
\* diff, and disregards it otherwise.
MustReplace == (IdChanged \/ private.ecm) /\ ManifestDiffers

HasChange == ManifestDiffers \/ config.wo # private.sum

Differs ==
  HasChange \/ config.err # state.err \/ config.wait # state.wait \/ config.skip # state.skip

\* Deviation: error_condition_met is not cleared.
HandledImportOnly(p) == [p EXCEPT !.imported = FALSE]

\* The flags that ModifyPlan has dealt with are cleared in the planned private state.
Handled(p) == [p EXCEPT !.ecm = FALSE, !.imported = FALSE]

PlanNothing ==
  /\ pc = "plan" /\ config = None /\ state = None /\ EndRun
  /\ UNCHANGED <<config, cluster, tfVars, bounds, ghosts>>

PlanCreate ==
  /\ pc = "plan" /\ config # None /\ state = None
  /\ Propose("create", config, EmptyPrivate)

PlanDelete ==
  /\ pc = "plan" /\ config = None /\ state # None
  /\ Propose("delete", None, EmptyPrivate)

\* Terraform plans the replacement of a tainted resource as a creation, without
\* its private state.
PlanTainted ==
  /\ pc = "plan" /\ config # None /\ state # None /\ state.tainted
  /\ Propose("replace", config, EmptyPrivate)

PlanChange ==
  /\ pc = "plan" /\ config # None /\ state # None /\ ~state.tainted
  /\ \/ MustReplace /\ Propose("replace", config, Handled(private))
     \/ ~MustReplace /\ Differs /\ Propose("update", config, Handled(private))
     \/ ~MustReplace /\ ~Differs /\ Propose("noop", config, Handled(private))

\* The plan is carried out; one without changes ends the command.
Approve ==
  /\ pc = "planned"
  /\ \/ plan.action = "noop" /\ EndRun
     \/ /\ plan.action \in {"create", "update"} /\ pc' = "start"
        /\ UNCHANGED <<plan, callVars>>
     \/ /\ plan.action \in {"delete", "replace"} /\ pc' = "delete"
        /\ UNCHANGED <<plan, callVars>>
  /\ UNCHANGED <<config, cluster, tfVars, bounds, ghosts>>

-----------------------------------------------------------------------------
(* Create and Update *)

\* Deviations: the keys, or the checksum, are not stored.
WithWoNoKeys(p, wo) == IF wo # None THEN [p EXCEPT !.sum = wo] ELSE p
WithWoNoSum(p, wo) == IF wo # None THEN [p EXCEPT !.keys = TRUE] ELSE p

\* fields_wo_keys and manifest_wo_checksum are stored before anything is applied,
\* and only when there is a manifest_wo.
WithWo(p, wo) == IF wo # None THEN [p EXCEPT !.keys = TRUE, !.sum = wo] ELSE p

Start ==
  /\ pc = "start"
  /\ respPrivate' = WithWo(plan.private, plan.config.wo)
  /\ attempt' = 1 /\ mwo' = None /\ pc' = "patch"
  /\ UNCHANGED <<config, cluster, tfVars, plan, planned, owo, seen, bounds, ghosts>>

\* applyManifest up to the Patch: plannedManifest is saved, manifest_wo injected.
Patch ==
  /\ pc = "patch"
  /\ planned' = mwo /\ mwo' = Inject
  /\ LET n == plan.config.id.name
         Write == /\ cluster' = [cluster EXCEPT ![n] = Applied(@)]
                  /\ IF cluster[n] = None
                     THEN owed' = owed \cup {n} /\ loose' = loose \ {n}
                     ELSE UNCHANGED <<owed, loose>>
     IN  \/ NoFault /\ Write /\ pc' = "readBack"
         \/ Fault /\ UNCHANGED <<cluster, owed, loose>> /\ pc' = "backoff"
         \/ Fault /\ Write /\ pc' = "backoff"
  /\ UNCHANGED <<config, tfVars, plan, attempt, owo, seen, respPrivate,
                 edits, outside, excuse>>

\* What follows when there is nothing (more) to wait for: one check of the error
\* block, unless a wait for fields or conditions already ran with it.
AfterWait ==
  IF plan.config.err # "none" /\ plan.config.wait # "fields" THEN "check" ELSE "success"

\* readManifest, then model.Manifest = plannedManifest.
ReadBack ==
  /\ pc = "readBack"
  /\ LET o == cluster[plan.config.id.name]
     IN  \/ /\ o # None /\ NoFault
            /\ owo' = o.wo /\ mwo' = planned
            /\ pc' = IF plan.config.wait # "none" THEN "wait" ELSE AfterWait
         \/ o = None /\ NoFault /\ pc' = "backoff" /\ UNCHANGED <<owo, mwo>>
         \/ Fault /\ pc' = "backoff" /\ UNCHANGED <<owo, mwo>>
  /\ UNCHANGED <<config, cluster, tfVars, plan, attempt, planned, seen, respPrivate,
                 edits, outside, ghosts>>

\* Where applyManifest's result sends the call.
After(result) == CASE result = "nil" -> "success" [] result = "ece" -> "ece" [] OTHER -> "backoff"

\* The wait ends: with the waiter's success, which needs no look at the error
\* block; with what the error block found; with the waiter's failed Get; with the
\* deadline.  WaitWithErrorCheck models the wait itself.
Wait ==
  /\ pc = "wait"
  /\ LET o == DynamicGet(plan.config.id)
     IN  \/ o # None /\ NoFault /\ pc' = AfterWait
         \/ /\ ErrorOn(plan.config.err, o) # "nil" /\ NoFault
            /\ pc' = After(ErrorOn(plan.config.err, o))
         \/ o = None /\ NoFault /\ pc' = "backoff"
         \/ Fault /\ pc' = "backoff"
  /\ UNCHANGED <<config, cluster, tfVars, plan, attempt, mwo, planned, owo, seen,
                 respPrivate, edits, outside, ghosts>>

\* One look at the error block, which an unreadable object passes.
CheckOnce ==
  /\ pc = "check"
  /\ \/ /\ NoFault
        /\ pc' = After(ErrorOn(plan.config.err, DynamicGet(plan.config.id)))
     \/ Fault /\ pc' = After(ErrorOn(plan.config.err, None))
  /\ UNCHANGED <<config, cluster, tfVars, plan, attempt, mwo, planned, owo, seen,
                 respPrivate, edits, outside, ghosts>>

\* backoff.Retry: WithMaxRetries counts the retries, so that apply_retry_count, which the
\* schema calls the number of attempts, is one less than the attempts.
CanRetry == IF RetryCount = 0 THEN attempt < MaxAttempts ELSE attempt <= RetryCount

Retry ==
  /\ pc = "backoff" /\ CanRetry
  /\ attempt' = attempt + 1 /\ pc' = "patch"
  /\ excuse' = excuse \cup {"retry"}
  /\ UNCHANGED <<config, cluster, tfVars, plan, mwo, planned, owo, seen, respPrivate,
                 bounds, owed, loose>>

\* The retries or the time for them are used up.  A failed Create leaves no state,
\* a failed Update the prior one; either way the response's private state is kept
\* with it.
GiveUp ==
  /\ pc = "backoff" /\ EndRun
  /\ IF IsCreate
     THEN /\ UNCHANGED tfVars
          /\ owed' = owed \ {plan.config.id.name}
     ELSE /\ private' = respPrivate
          /\ UNCHANGED <<state, owed>>
  /\ UNCHANGED <<config, cluster, bounds, excuse, loose>>

\* A manifest that differs from the planned one is kept, but fails Terraform's
\* consistency check, which taints a resource that was just created.
RespondSuccess ==
  /\ pc = "success" /\ EndRun
  /\ state' = Stored(Masked(plan.config.wo # None, owo), IsCreate /\ mwo # None)
  /\ private' = respPrivate
  /\ excuse' = IF attempt = 1 THEN {} ELSE excuse
  /\ UNCHANGED <<config, cluster, bounds, owed, loose>>

\* Deviation: nothing is stored when an error condition matched.
RespondErrorConditionUntracked ==
  /\ pc = "ece" /\ EndRun
  /\ private' = IF IsCreate THEN EmptyPrivate ELSE [respPrivate EXCEPT !.ecm = TRUE]
  /\ UNCHANGED <<config, cluster, state, bounds, ghosts>>

\* An error condition matched: no retry; the resource is stored, object unmasked,
\* and flagged.  Terraform taints what a failed Create stored.
RespondErrorCondition ==
  /\ pc = "ece" /\ EndRun
  /\ state' = Stored(owo, IsCreate)
  /\ private' = [respPrivate EXCEPT !.ecm = TRUE]
  /\ excuse' = excuse \cup {"ece"}
  /\ UNCHANGED <<config, cluster, bounds, owed, loose>>

-----------------------------------------------------------------------------
(* Delete *)

\* The state is gone; a replacement goes on with the Create.
Deleted ==
  /\ state' = None /\ private' = EmptyPrivate
  /\ IF plan.action = "replace"
     THEN pc' = "start" /\ UNCHANGED <<plan, callVars>>
     ELSE EndRun

DeleteSkip ==
  /\ pc = "delete" /\ state.skip /\ Deleted
  /\ owed' = owed \ {state.id.name}
  /\ UNCHANGED <<config, cluster, bounds, excuse, loose>>

\* The object goes at once or waits for its finalizers.
Vanish(n) ==
  \/ cluster' = [cluster EXCEPT ![n] = None]
  \/ cluster[n] # None /\ cluster' = [cluster EXCEPT ![n].deleting = TRUE]

DeleteCall ==
  /\ pc = "delete" /\ ~state.skip
  /\ Vanish(state.id.name) /\ pc' = "poll"
  /\ UNCHANGED <<config, tfVars, plan, callVars, bounds, ghosts>>

\* Deviation: a refused deletion counts as done.
DeleteErrorIgnored ==
  /\ pc = "delete" /\ ~state.skip
  /\ Fault /\ Deleted
  /\ (UNCHANGED cluster \/ Vanish(state.id.name))
  /\ UNCHANGED <<config, edits, outside, ghosts>>

DeleteError ==
  /\ pc = "delete" /\ ~state.skip
  /\ Fault /\ EndRun
  /\ \/ UNCHANGED <<cluster, loose>>
     \/ Vanish(state.id.name) /\ LeftAlone(state.id.name)
  /\ UNCHANGED <<config, tfVars, edits, outside, excuse, owed>>

\* Deviation: the poll does not wait for the finalizers.
DeleteConfirmedAtOnce ==
  /\ pc = "poll" /\ Deleted
  /\ UNCHANGED <<config, cluster, bounds, ghosts>>

\* The poll no longer finds the object; at the wrong scope it never does.
DeleteConfirmed ==
  /\ pc = "poll" /\ DynamicGet(state.id) = None /\ Deleted
  /\ IF Namespaced /\ state.id.ns = "" THEN LeftAlone(state.id.name) ELSE UNCHANGED loose
  /\ UNCHANGED <<config, cluster, bounds, excuse, owed>>

\* The poll cannot be set up, or the timeout passes: Delete succeeds all the same.
DeleteTimeout ==
  /\ pc = "poll" /\ Fault /\ Deleted
  /\ LeftAlone(state.id.name)
  /\ UNCHANGED <<config, cluster, edits, outside, excuse, owed>>

-----------------------------------------------------------------------------

UserNext ==
  \/ \E c \in Configs \cup {None} : Edit(c)
  \/ \E n \in Names : Import(n)
  \/ StartRunNoRefresh \/ Crash

ClusterNext ==
  \/ \E n \in Names, s \in Specs : OutsideEdit(n, s)
  \/ \E n \in Names : OutsideDelete(n) \/ Controller(n) \/ Finalize(n)

ReadNext == ReadOpenAPI \/ ReadBasic \/ ReadGone \/ ReadError \/ ReadFinish
PlanNext == PlanNothing \/ PlanCreate \/ PlanDelete \/ PlanTainted \/ PlanChange \/ Approve
ApplyNext ==
  \/ Start \/ Patch \/ ReadBack \/ CheckOnce \/ Wait
  \/ Retry \/ GiveUp \/ RespondSuccess \/ RespondErrorCondition
DeleteNext == DeleteSkip \/ DeleteCall \/ DeleteError \/ DeleteConfirmed \/ DeleteTimeout

ProviderNext == ReadNext \/ PlanNext \/ ApplyNext \/ DeleteNext

Next == UserNext \/ ClusterNext \/ StartRun \/ ProviderNext

Spec == Init /\ [][Next]_vars

\* The user keeps running Terraform, a handler that was called returns, and the
\* cluster removes finalizers.  Nothing else has to happen.
Fairness ==
  /\ WF_vars(StartRun)
  /\ WF_vars(ProviderNext)
  /\ \A n \in Names : WF_vars(Finalize(n))

FairSpec == Spec /\ Fairness

-----------------------------------------------------------------------------
(* Properties *)

\* Values of manifest_wo are not in the stored state ("Values are not persisted in
\* Terraform state", docs/resources/manifest.md:778), neither in manifest nor in
\* object, unless since the last Create or Update that succeeded at its first
\* attempt a call was retried, ended with an error condition, died, or the state
\* was imported.  Relates the injected model, the masking in Create, Update and
\* Read, and the keys kept in the private state.
SecretsStayOut ==
  state # None /\ (state.mwo # None \/ state.owo # None) => excuse # {}

\* Every object the provider created is the one in the Terraform state whenever no
\* command runs, except those of a Create that failed for good, of a crash, or of
\* delete.skip: an apply that ends with an error condition keeps its object tracked
\* (manifest_resource.go:713-721), and so does a replacement.
CreatedIsTracked ==
  pc = "idle" =>
    \A n \in owed : cluster[n] # None /\ ~cluster[n].deleting =>
                      state # None /\ state.id.name = n

\* Delete lets go of the state only when the object is gone or on its way out, or
\* when delete.skip says so: not when the API server refused the deletion.
DeletedIsGone ==
  [][(pc \in DeletePoints /\ state # None /\ state' = None) =>
       (state.skip \/ cluster[state.id.name] = None \/ cluster[state.id.name].deleting)]_vars

\* Read lets go of the state only when the object does not exist: an OpenAPI read
\* that asks at the wrong scope and gets a 404 is not taken for its absence.
ForgottenOnlyIfGone ==
  [][(pc \in ReadPoints /\ state # None /\ state' = None) =>
       (cluster[state.id.name] = None)]_vars

\* An object on which an error condition was found is not updated in place to a changed
\* manifest: the next apply replaces it (the warning of manifest_resource.go:848-851).
FlaggedIsNotUpdated ==
  pc \in ApplyPoints \cup {"start"} /\ plan.action = "update" /\ private.ecm =>
    plan.config.id = state.id /\ plan.config.spec = state.spec

\* The flag does not outlive the replacement it asked for, which would replace the
\* resource again and again (manifest_resource.go:1269).
FlagEndsWithSuccess == [][(pc = "success" /\ state' # state) => ~private'.ecm]_vars

\* A Create or Update that is about to report success, at whatever attempt, has left the
\* planned manifest on the cluster, with the block's write-only value or with none, in an
\* object that stays: what a replacement deleted before is gone, not on its way out under
\* the new object's name ("Wait for deletion to complete", manifest_resource.go:2747).  Changes that others
\* make excepted, and the deletions that nobody saw the end of: refused or unanswered
\* ones, timed out polls, polls at the wrong scope, and crashes.
SuccessMeansApplied ==
  pc = "success" /\ outside = 0 =>
    LET o == cluster[plan.config.id.name]
    IN  /\ o # None => o.spec = plan.config.spec /\ o.wo = plan.config.wo
        /\ plan.config.id.name \notin loose => o # None /\ ~o.deleting

\* Whatever happens, once the user, the cluster and the faults settle, so does the
\* plan: in the end every run finds nothing to change.
Settles == <>[](pc = "planned" => plan.action = "noop")

\* The manual's promise about manifest_wo ("Values are not persisted in Terraform
\* state", docs/resources/manifest.md:778) when nothing but a retried attempt happened.
RetryKeepsSecretsOut ==
  state # None /\ excuse \subseteq {"retry"} => state.mwo = None /\ state.owo = None

\* A plan without changes leaves no new value of manifest_wo unapplied: it compares
\* with the checksum of the last apply (manifest_resource.go:1349-1351).
NoOpMeansSecretApplied ==
  pc = "planned" /\ plan.action = "noop" /\ cluster[plan.config.id.name] # None =>
    cluster[plan.config.id.name].wo = plan.config.wo
=============================================================================
