# A TLA+ model of terraform-provider-kubectl

This directory models the part of the provider that keeps state, talks to a cluster in
more than one step, or converts values back and forth: the `kubectl_manifest` resource,
the roles and the values of its fields, its waits; the `kubectl_patch` resource and
action; and what all of them share, the configuration of the provider, its clients and
the discovery of kinds. TLC checks the models on small instances, and the proof system
TLAPS checks theorems about them for every value of the constants.
Paths are relative to the repository; `manifest_resource.go` and the like are in
`kubectl/`.

## The system

Terraform core starts the provider as a process and calls its handlers. Within one
command it calls, for each resource, `Read` (unless `-refresh=false`), `ModifyPlan`, and
then `Create`, `Update` or `Delete` (both `Delete` and `Create` for a replacement);
handlers of different resources run concurrently. Between commands there are only the
Terraform state, the *private state* Terraform stores with it, the user's configuration
and the Kubernetes objects. Controllers, finalizers, other users and other Terraform
resources work on the objects all the time.

### Inventory

| Component | State | Operations | Interactions | What is hard |
|---|---|---|---|---|
| `kubectl_manifest` (`manifest_resource.go`) | Terraform state (manifest, object, wait, error, delete), private state (`fields_wo_keys`, `manifest_wo_checksum`, `error_condition_met`, `IsImported`) | Create, Read, Update, Delete, ImportState, ModifyPlan | server-side apply, Get, Delete; waits; REST client | retries over a model that is mutated, responses that fail half way, flags handed from handler to handler, deletion with finalizers |
| write-only values (`manifest_model.go`) | none of its own | merge, mask, checksum, reconcile | called by the resource | secrets must pass through without being stored |
| waits and error conditions (`api/waiter.go`, `waitWithErrorCheck`) | goroutine, ticker, deadline, channel | Wait, checkErrorOnConditions | Gets of an object that changes | the race in the `select` |
| `kubectl_patch` resource (`patch_resource.go`) | the patch, `pre_patch_values` in private state | Create, Read, Update, Delete, ModifyPlan | Get, then a merge patch of an object others own | read-modify-write without a version, restoring what was there |
| `kubectl_patch` action (`patch_action.go`) | none | Invoke | as above | as above, and beside the resources |
| conversions (`conversion.go`, `payload/`, `morph/`) | none | between Terraform, Go and JSON values | everywhere | numbers, nulls, unknowns |
| client caches (`cache.go`, `clients.go`) | values behind `sync.Once` | the `get...` functions | each other, all resources | a first error is kept; concurrent first calls |
| REST client discovery (`api/client.go`) | a goroutine and a timer | GetRestClientFromUnstructured | discovery | a late answer nobody receives; defaulting the namespace |
| OpenAPI foundry (`api/foundry_*.go`, `api/schema.go`, `openapi_helpers.go`) | index of types, a mutex | GetTypeByGVK, TFTypeFromOpenAPI | caches, CRDs | recursion in schemas |
| provider configuration (`provider.go`, `util/kubernetes.go`) | the configuration data | Configure | environment, kubeconfig | precedence |
| YAML and functions (`yaml/`, `function_*.go`) | none | decode, split, encode | none | document boundaries |
| data source (`manifest_data_source.go`) | none | Read | Get | conversion only |

What makes them correct, component by component:

* *manifest*: values of `manifest_wo` stay out of the state; an object the provider
  created stays tracked; the state lets go of an object only when it is gone; an object
  in an error condition is replaced, once; what others write to computed or immutable
  fields neither updates nor replaces it, and other drift is not overlooked; Terraform
  accepts the plan; the plan settles.
* *waits*: no success before the waited-for state was seen, no error condition reported
  that does not hold, an answer by the deadline, no goroutine left behind.
* *patches*: a patch is a layer over an object that others own, and over the patches it
  depends on: applied it changes what it names, destroyed it leaves no trace, and the
  object's schema accepts both.
* *configuration*: the provider works with the cluster its block names.
* *caches and discovery*: no operation hangs, and none fails for what went wrong in
  another one; a kind that is there is found.
* *conversions*: a value that goes there and back is the same value, no way back shows
  what it must not, and the two ways of reading an object do not differ.

`PROJECT.json` lists the hazards of this code line by line with the properties that
watch them.

## The modules

| Module | What it is |
|---|---|
| `ManifestResource` | the life of one `kubectl_manifest` resource on a cluster |
| `PlanFields` | the fields of one `kubectl_manifest` resource, shared with other writers |
| `Conversion` | Terraform values and untyped Go values, there and back |
| `Payload`, on `Conversion` | the types of an OpenAPI schema, and values of these types |
| `Morph`, on `Payload` | fitting a value to a type; unknown values and nulls |
| `ManifestPlaces` | the values of a manifest as trees of places, and the properties stated of them |
| `ManifestTrees`, on `ManifestPlaces` | what the provider does with these values, place by place, abstractly |
| `ManifestValues`, on `Morph` and `ManifestPlaces` | the values of one manifest from the block to the API server, back into the state and into the next plan, which implement it |
| `WaitPromise` | what a wait promises, abstractly |
| `WaitWithErrorCheck` | the waiters, the goroutine and the `select`, which implement it |
| `PatchOverlay` | patches as layers over an object, abstractly |
| `PatchResource` | `kubectl_patch` resources and actions, which implement it where patches stay out of each other's way or depend on each other |
| `ProviderConfiguration` | which cluster and user the provider works with |
| `ClientCache` | the graph of the values behind `sync.Once` |
| `Discovery` | the goroutine, the channel and the timer that look for a kind |
| `Clients` | concurrent operations of one process that share these three |
| `MCManifestResource`, `MCPlanFields`, `MCManifestValues`, `MCWaitWithErrorCheck`, `MCPatchResource`, `MCClients` | their instances for TLC: the configurations, objects, values and patches of each run |
| `ManifestResource_proofs`, `PlanFields_proofs`, `WaitWithErrorCheck_proofs`, `PatchResource_proofs`, `PatchOverlay_proofs`, `ClientCache_proofs`, `Clients_proofs`, `ManifestTrees_proofs` | theorems about them |

Three modules model the manifest resource, each with the detail the other two leave out.
`ManifestResource` has the failures, retries and private state around a manifest of one
public value. `PlanFields` has the leaves of that value, whom they belong to and what
they are for, in runs that refresh and calls that are not retried. `ManifestValues` has
the value itself: its maps and lists, its Go and Terraform types, and each conversion it
goes through; its calls succeed. `WaitWithErrorCheck` is the inside of one action of
`ManifestResource`, `Wait`, whose disjuncts are the results `WaitPromise` allows.
`PatchResource` shares no object with them: a patch is for objects managed elsewhere.

`Clients` composes `ClientCache`, `ProviderConfiguration` and an instance of `Discovery`.
It is what lies below the handlers: it takes a handler as the list of clients it asks for
and calls it makes, and has all handlers run beside each other.

An operator named as a deviation in its comment (`MaskedByMarker`, `WithWoNoKeys`, ...)
is not part of the model. It is a definition as a plausible bug would have it, and
`PROJECT.json` pairs it with a property that notices the bug.

### ManifestResource

`config`, `cluster`, `state`, `private` are what lasts between commands. `pc` is the place
a running command has reached; `plan` its planned change with the planned private state;
`mwo`, `planned` and `owo` what the variables `model.Manifest`, `plannedManifest` and
`model.Object` hold at the write-only path; `attempt` the attempt of `backoff.Retry`;
`respPrivate` the response's private state.

A handler is split where another process or a failure can come in, that is at its calls
to the API server:

* `Read`: `ReadOpenAPI`, then `ReadBasic`, `ReadGone` or `ReadError` if that failed, then
  `ReadFinish` (masking, reconciliation, the check of the error block, the flag).
* `ModifyPlan` and the action Terraform derives from it: `PlanCreate`, `PlanDelete`,
  `PlanTainted`, `PlanChange`, `Approve`.
* `Create` and `Update`, which are the same code but for the timeout and what Terraform
  does with a failure: `Start`, then per attempt `Patch`, `ReadBack`, `Wait` or
  `CheckOnce`, then `Retry`, `GiveUp`, `RespondSuccess` or `RespondErrorCondition`.
* `Delete`: `DeleteSkip`, or `DeleteCall`, `DeleteError`, `DeleteConfirmed`, `DeleteTimeout`.
* `ImportState`: `Import`.

A manifest is its name and namespace, one value for the rest of its public part, and the
value at one write-only path. A call to the API server succeeds, fails, or fails after it
took effect. Two different ways of finding an object are kept apart because the code has
both: `GetRestClientFromUnstructured` puts a namespaced object without a namespace into
`default`; `getResourceInterface`, the OpenAPI read and the deletion poll ask at cluster
scope (`DynamicGet`).

Terraform core is modelled from how the provider uses it, and marked external: a failed
Create leaves no state, or tainted state if the response has one; a failed Update keeps
the prior state unless the response has another, and keeps the response's private state;
a tainted resource is replaced without its private state; a manifest that differs from
the planned one fails the consistency check of a creation; a path in `RequiresReplace`
whose planned value equals the prior one is disregarded (`MustReplace`). A private
state that a plan without changes has modified is dropped with that plan.

Ghost variables: `excuse` remembers which events since the last clean apply may have
left a secret in the state; `owed` the objects the provider has created and not
excusably lost; `loose` the names of which it has asked for the deletion and not seen
the end (refused or unanswered deletions, polls that time out or ask at the wrong scope,
crashes).

### PlanFields

A manifest is the values of its leaves, and a path of `fields.computed` or
`fields.immutable` the set of leaves below it. `object` and `owners` are the API server's:
server-side apply (`ServerSideApply`, external) writes and owns the leaves of the
manifest, gives up those that are no longer in it, and is refused without
`force_conflicts` when others own a leaf that has another value. `state` has the manifest,
the object and the roles as they were stored.

* `Read`: `deepReconcileMaps` takes the object's values for the leaves the manifest has
  (`Reconciled`), then `preserveImmutableFieldsFromPrior` puts back the immutable ones
  (`Refreshed`).
* `ModifyPlan`: the comparison of immutable paths (`ImmutableChanged`), then
  `modifyPlanWithOpenAPI`, which may also end early (`OpenAPIResults`), then
  `reconcileComputedFieldsInPlan` (`WithComputed`), each with its guard against a hybrid
  plan (`IfPrior`); the action follows from what differs.
* `Approve`, `Delete`, `Patch`, `ReadBack`: the apply, with the planned manifest stored.

The code walks paths in two ways. `walkMapByTFPath` enters lists; `getNestedMapValue` and
`setNestedMapValue` do not. `Listed` is the set of paths that go through the index of a
list (`webhooks[0]...`), which `Overlay` therefore leaves out. What the parser of the HCL
library makes of the spelling `webhooks.0...` is not modelled.

### ManifestValues

A value is a tuple that begins with its kind; the comments of `Conversion` and `Payload`
list the kinds. Terraform's values of type `dynamic` come as literals (objects and tuples)
or as typed collections (maps, lists, sets), Go's as maps, slices, strings, Booleans,
`int64` and `float64`; which of them a conversion returns is the point of the model.

* `Conversion`: `Encode` and `Decode` are `encodeAttrValue` and `decodeAny`, `Preserving`
  is the decoding that keeps the containers of a reference value.
* `Payload`: `TypeFromSchema` is `getTypeFromSchema`, `ToTF` is `ToTFValue`, `FromTF` is
  `FromTFValue`. A conversion may fail (`Error`) or panic (`Panic`).
* `Morph`: `ValueToType`, `DeepUnknown` and `UnknownToNull`.
* `ManifestValues`: the walks over Go maps (`Merge`, `LeafPaths`, `DeleteAt`, `Reconcile`,
  `Lookup`, `SetAt`), and the handlers that string them together. `Read` has both readers
  (`ReadBasic`, and `ReadManifest` with a schema), the reconciliation with the state and
  the masking; `ModifyPlan` has `ByOpenAPI`, which is `modifyPlanWithOpenAPI`, and
  `WithComputed`; `Apply` the merge of `manifest_wo`, the payload, and what is stored.
  `DataObject` is what the data source shows.

The API server is external: `Json` is what a payload becomes on the way, `Admitted` merges
it into the object and adds defaults. Others merge values into the object and remove
fields from it (`OthersMerge`, `OthersRemove`). A key is a string; `Dots` gives the
pieces of a key with dots in it, since the code joins and splits paths there (`Pieces`).

Two ghosts beside it: `sent` is what the last apply has sent, `seen` what the last Read has
read, as long as it is still the object.

`ManifestTrees` is the same system without types and without recursion. A value has a
*tree*, a function from places (the sequences of keys and indices that lead to them) to
what is there: `AMap`, `AList`, `ANull` or a scalar (`ManifestPlaces`). Each walk of the code is then one
definition over places: `Overlaid` is `deepMergeMaps`, `Places` are the paths of
`extractLeafPaths`, `Pruned` is the masking, and `Reconciled` is `deepReconcileMaps` with
`deepReconcileSlices`, which goes on at the places that are `Common` and ends where something
is `Taken`. What a reader may make of an object is `Shows`: all that is there, and beside it
only nulls and maps full of nulls. What others may do is `IsObject`: anything, but they do not
copy the secret to another place. `ManifestValues` lays its values out as trees
(`TreeOf`, where a number is the same as its numeral; the configurations give it for the
constant `Tree`) and has the instance `Trees`, with the paths that masking removes for the
one variable it does not have; that it implements `Trees!Spec` is the property `TreesKept`.

### Clients and what it composes

`ProviderConfiguration` has no state. `Resolve` is `Configure`: the settings that come of
the attributes of the block and the environment. `Target` is `InitializeConfiguration`
with client-go's reading of files: the server and the user that these lead to, or
`NoTarget`.

`ClientCache` has for each of the nine values behind a `sync.Once` whether it is new,
being made, made or failed. `Depends` lists what each is made from, in the order its
function asks for it. What one operation makes at a time is a chain: `focus` is its last
link, `caller` leads back to the operation.

`Discovery` is `GetRestClientFromUnstructured`: `routine` is what its goroutine does, a
first look, a second one, or the send of its answer on a channel without a buffer;
`timer` the caller's 60 seconds; `hung` has those whose call is not answered.

`Clients` gives each operation a handler, the handler its stages (`Handlers`), and the
stage its steps (`Steps`): a client that is asked for (`Get`, `AskNext`, `MakeLocal`,
`MakeRestConfig`, `MakeFromCluster`), or a use of it (`Map`, `Mapping`, `Lookup`,
`Convert`, `Call`, `Discover`, `Discovered`, `TimedOut`). `OnError` is what the handler
makes of a step that fails: `Read` falls back to the basic reader, `ModifyPlan` leaves
the plan as it is, a wait goes on without the type, a write fails. `served` is what the
API server lists, `view` what the OpenAPI document, the list of CRDs and the mapper
remember of it, each from the moment it was fetched; `Publish` establishes a CRD.

### WaitWithErrorCheck

One process for the caller (`main`), one for the waiter, and a clock. The clock moves by
itself, so that any step can be late by any amount. `FieldWaiter`, `RolloutWaiter`,
`ConditionsWaiterV2` and `ConditionsWaiter` have one and the same loop: deadline, Get,
test, sleep. `asked` is the wait block, a set of things: a rollout, conditions, fields,
and a field that cannot be parsed. `ready` has those that the object shows.

One block may be several waits in a row. `StartRollout` comes first, and its success goes
on (`WaitDone`); then `StartMatchers` makes one waiter of the conditions and fields, which
leaves the fields out when there are conditions, as `NewResourceWaiterFromConfig` does;
without either, `StartCheck` leads to the single check of the error block. `StartFails`
has the errors before a wait: no client, or a path or pattern that is not accepted.

`err` is the error block, a sequence of entries in the order in which
`checkErrorOnConditions` goes through them, and `failing` has the entries that apply to
the object. The first of these decides (`Decides`): a `"match"` is an error condition, a
`"badregex"`, for a field that is there, an error of another kind. An entry for a field
that is not there is passed over.

`WaitPromise` has the same blocks and no waiters: `Look` sees one thing, the rollout
before the others, and a success needs all that is `Awaited`.

### PatchResource

The actors are the patch resources of one object and the action. An operation is two
steps: the Get with all that is computed from it, and the Patch. The object has scalars
(*leaves*) at the top level and in one map, and one array whose items are counted. The
payload and the revert payload (`MergeArrays`, `BuildRevert`) follow
`mergeArraysWithCurrent` and `buildRevertPayload` value by value, including what they do
with maps of which nothing was recorded. `MergePatch` is RFC 7396. `base` is a ghost:
the object as it would be without the resources' patches; the action has no revert, so
what it writes becomes part of `base`.

`Below` gives for each resource those it depends on, by `depends_on` or by reference. The
order in which Terraform core then runs their operations is external: a resource is
applied when those it depends on are as configured (`OnTop`), destroyed when those that
depend on it are gone (`AtTop`), and never at the same time as either (`Alone`).
`PatchOverlay` has the same order for its layers: an upper patch hides a lower one.

## What is checked

Passing runs:

| Run | Instance | Shows |
|---|---|---|
| `Lifecycle` | 2 names, 2 public values and 1 secret one, four blocks (with and without a secret, an error block that matches or has a bad pattern, waits, namespace, `delete.skip`), 2 edits, 2 failures, 1 outside event; 667 000 states | types; secrets kept out; created objects tracked; a success means that the plan is on the cluster, in an object that stays; nothing let go of that is there |
| `Settling` | fair; 2 names, 2 public and 2 secret values, blocks with and without an error block, 1 edit, 2 failures, 1 outside event; 113 000 states | a flagged object is not updated in place; the flag ends with a success; the plan settles |
| `Fields` | fair; two labels, a plain, a computed and an immutable leaf, 2 values, five blocks (with and without `fields`, one or two labels, with and without force), 2 edits, 2 writes of others, 1 failure; 306 000 states | plans Terraform accepts; no replacement and no update for what others may write; no other drift overlooked; the plan settles |
| `Values` | 6 manifests (literals, typed collections, numbers, untyped fields, nulls and a set, a placeholder), 4 values of `manifest_wo` (none, a map, a key with a dot, a list), with and without a schema, 4 writes of others, 1 edit, 1 write, 3 runs; 43 600 states | secrets masked; the overlay wins and only it; drift is shown and nothing else; both readers agree; an applied manifest is in the object and has no diff; the plan is no hybrid; the data source shows the object; refinement of `ManifestTrees` |
| `Connect` | fair; 3 operations, 2 kinds (one whose CRD may appear), 1 fault; a patch in each of 4 608 combinations of block and environment, and every handler beside one or two others; 197 000 states | no circular wait; an operation fails only for its own reasons; the block decides about the cluster; an operation of a kind that is served works; every operation ends |
| `Wait` | fair; eight wait blocks (none, each thing alone, conditions with fields, a rollout with either or both or with a field that does not parse), three error blocks (none, a bad pattern before or behind an entry that may match), deadline 2 of 4 seconds, 1 failed call; 421 000 states | implements `WaitPromise`; an answer comes; no goroutine stays |
| `PatchOverlay` | three resources, one of which depends on another and patches two of its places again, and an action; 8 edits, 3 outside events, everything interleaved; 6 200 states | refinement of `PatchOverlay`; reverts keep to the schema |
| `PatchShared` | fair; overlapping patches, two for one resource, a null, an item with a whole number, a resource without pre-patch values, 1 failure, an object that is deleted and created again; 19 000 states | what an operation changes is what its patch names; the applied patches end up as configured |

Two names are the least for a change of name, which is a replacement, and two values for
a change of value; two writes of others allow one to a field that has a role beside one
to a field that has none; two failures allow a retry that fails too and an operation that
fails after another; with two patches there is everything that concurrency of a Get and
a Patch can do to one object; a third one stays apart from the two that lie on each other,
and eight edits lay and lift all three of them and lay two again. Three runs of `Values` allow a creation, a plan after an edit
or a write of others, and the plan after that; the manifests are one for each kind of
value that some conversion treats in its own way. Two operations are the least to wait
for each other, a third one makes a chain of it; the blocks and environments of `Connect`
take every value that some branch of `Configure` or `InitializeConfiguration` tells apart;
one fault is what an operation can fail of that another one met. The bounds `MaxEdits`, `MaxFaults`, `MaxOutside`,
`MaxAttempts` (the attempts when `apply_retry_count` is 0) and `MaxTime` are constants
in the guards, and so are `MaxFaults`, `MaxWrites` and `MaxRuns`. Deadlock is checked for
`ManifestResource` and `PlanFields`, where a command can always start, and for
`WaitWithErrorCheck` and `Clients`, where the end is an explicit step (`Done`, `Ended`). It
is not for `PatchResource`, which rests when everything is as configured, nor for
`ManifestValues`, which rests when its runs are used up.

The runs with expectation `violation` each hold one sentence of the documentation or of
a comment against the code, and TLC finds the behaviour that contradicts it. They are
listed with their quotations under `findings` in `PROJECT.json`. In short:

* **Secrets.** A second attempt of `applyManifest` takes the injected manifest for the
  planned one, and the secret is stored in `manifest` (`SecretRetry`); a failed Update
  keeps the checksum of a value it did not apply, so that it never will be
  (`SecretUpdateFails`).
* **Keys with dots.** `extractLeafPaths` joins keys with dots and the masking splits them
  there, so that the value under `tls.key` is not masked (`DottedKey`).
* **Patches.** Concurrent patches of one array lose items (`PatchLostItem`).

The models exhibit further behaviours of the code that bound what the passing properties
can say; no run is kept for them.

In the life of a manifest (`ManifestResource`):

* an error condition stores `object` without masking it (`RespondErrorCondition`):
  `SecretsStayOut` has an excuse for it;
* removing `manifest_wo` leaves its checksum (`WithWo`), so that every later plan is an
  update: `Settling` keeps a write-only value in every block;
* `apply_retry_count` counts retries (`CanRetry`, `backoff.WithMaxRetries` at
  `manifest_resource.go:701`), although `docs/index.md:46` and the schema (`provider.go:167`)
  call it the number of attempts with a default of 1: a Create or Update makes one attempt
  more than they say. No property speaks of the number, which this guard alone decides;
  the properties hold over all attempts the code makes;
* a flagged resource whose manifest has no diff is not replaced although `RequiresReplace`
  names it (`MustReplace`), and a Get that fails during the check of a Read clears the
  flag (`ReadFinish`): `FlaggedIsNotUpdated` speaks of changed manifests and of the flag
  as it is stored;
* the error block of a namespaced manifest without a namespace is never checked
  (`CheckOnce` through `DynamicGet`), and the deletion poll of such a manifest succeeds
  at once (`manifest_resource.go:2787`), so that a replacement applies to the object that
  is being deleted, although `docs/resources/manifest.md:843` has the provider wait; so does
  one after a poll that timed out. `SuccessMeansApplied` excepts the names in `loose`;
* a wait that is fulfilled at once succeeds without a look at the error block
  (`WaitPromise` allows it).

In the waits (`WaitWithErrorCheck`):

* fields beside conditions are not waited for (`StartMatchers`, `api/waiter.go:76`), although
  `docs/resources/manifest.md:862` says of the fields that "all must match" and the example
  from line 337 on has both: `Awaited` in `WaitPromise` leaves them out, so that `PromiseKept`
  promises nothing of them;
* a pattern of the error block that is no regular expression is an error only once the
  object has the field, and only if no entry before it matches (`Decides`).

In the roles of fields (`PlanFields`):

* an immutable path through the index of a list is compared but not preserved
  (`manifest_resource.go:1521`), so that a write of others there replaces the resource;
* a change of the block that concerns only computed fields, by default any label or
  annotation, is undone in the plan and never applied (`WithComputed`); together with
  another change it is applied, and so is the block's value of a computed field that
  others have changed meanwhile (`IfPrior`): `ComputedDriftIsNoDiff` excepts plans with a
  further difference;
* a field that others remove from the object stays in the stored manifest, and is never
  restored (`Reconciled`): `NoOpMeansNoDrift` excepts absent fields;
* a path that is both computed and immutable lets a change of roles leave the old value
  in the state, and drift elsewhere then replaces the resource: the theorem about
  replacement assumes that the two are apart;
In patches (`PatchResource`):

* an Update records the values its own predecessor has patched as the originals
  (`patch_resource.go:303`), so that a Delete restores a patched value;
* a Create repeated after a lost answer records its own values as the originals
  (`ApplyGet`): `PatchOverlay` has no failures;
* an array item with a whole number is added again by each apply and never removed
  (`UniqueAppend`, `RemoveFrom`); an item that was there before the patch goes with it;
* a null in a patch is not sent but reverted by a deletion (`BuildRevert`), which the
  schema refuses for a required field: no patch has a null there;
* a revert that found the map absent removes the map others have created since
  (`dropMap`): in `PatchShared` others keep to the top level;
* a leaf that a patch added to a map of which nothing was recorded stays after Delete
  (`LevelRecorded`).

In the values of a manifest (`ManifestValues`):

* a value in `manifest` at a place of `manifest_wo` is replaced by the secret at the next
  Read, and stays a difference for ever: `SecretsHidden` and `AppliedIsNoDiff` except
  manifests that have such a value (`Shadowed` in `ManifestPlaces`), and so does `AppliedIsKept`; the same happens to a secret that the
  API server itself copies elsewhere, as it does with `stringData`;
* nulls, empty typed maps and lists, and sets are not brought back by a Read as they were
  (`conversion.go:239` says that the container is kept): `AppliedIsNoDiff` excepts them
  (`Awkward`), and a null in a list moves the items behind it (`from_value.go:97`);
  `AppliedIsKept`, for which spelling makes no difference, excepts nulls and lists in lists
  (`Plain`);
* what others write to `metadata.uid`, `metadata.generation` and the other fields that
  `RemoveServerSideFields` removes is not seen by a Read with a schema:
  `RefreshShowsCluster` excepts these places (`Overlooked`);
* a block that spells a map or list in another way than the state, literal instead of
  typed or the reverse, while others have changed a label, is planned with the values of
  the state and the containers of the block, which is neither (`WithComputed`,
  `conversion.go:232-241`): `PlanIsAccepted` excepts it (`Respelled`);
* a manifest with a number in it never gets the plan of the OpenAPI type, because
  `reflect.DeepEqual` compares a `float64` with an `int64` (`Plannable`,
  `manifest_resource.go:1880`); what that plan would add is lost without a message;
* a null where the type is int-or-string lets the two readers spell the API server's
  number in two ways: `ReadersAgree` excepts manifests with nulls;
* a map of which the values are objects of different shapes makes `mapToTFMapValue` panic
  (`to_value.go:366`; the list case beside it has the check); no schema of the instance
  has one;
* the data source shows an empty object as one full of nulls
  (`DataSourceShowsCluster` allows nulls).

In the configuration and the clients (`Clients`):

* `config_path` from the environment hides a `config_paths` in the block:
  `BlockDecides` excepts it; a block with `exec` loads no kubeconfig at all;
* an `apply_retry_count` in the environment that is not a number is 1, and one below 1 is
  no limit (`Retries`);
* the mapper knows the kinds of the moment it was first used: an import, a data source or
  a wait for a kind whose CRD came later fails in the same process. `FailuresAreContained`
  names that reason;
* after the timer, the discovery's goroutine stays at its send (`TimerFires`).

The passing properties say what remains true beside these. `SecretsStayOut` holds with
the excuses of retry, error condition, crash and import; the refinement of `PatchOverlay`
holds without an Update or a lost answer, for patches of different places and for those of
which one depends on the other; the properties
of `PlanFields` about replacement and computed drift hold for paths that enter no list.

### Fairness

`ManifestResource`: the user runs Terraform again and again (`StartRun`), a handler that
was called takes its next step (`ProviderNext`; a Go handler with a context deadline
returns), and finalizers are removed. Nothing makes the user edit, a call fail or others
act. `PlanFields`: the same two, without finalizers. `WaitWithErrorCheck`: the clock ticks
and both goroutines are scheduled. `PatchResource`: each resource's next operation is
eventually run. `Clients`: Terraform configures the provider, the handlers and the
discovery's goroutines run, and a timer that runs goes off or is stopped (`TimedOut`). The
API server need never answer a discovery it is silent to (`ServerSilent`): that is what the
timer is for. Calls outside the discovery are answered or fail. The action, a new CRD and all
outside events are free not to happen. `ManifestValues` has no liveness property: `Settles`
is checked where handlers can fail.

## What is proved

`ManifestResource_proofs` proves, for all names, values, configurations and bounds:

* `TypeCorrect`: `Spec => []TypeOK`. `TypeOK` is not inductive: `ReadFinish` updates a
  record in `state`, which may be `None`. `TypeInv` adds `Placed`, which says for each
  place in the code that the state, the plan and the object a handler dereferences are
  there, and that an update works on the object of the state.
* `SecretsStayOutOfState`: `Spec => []SecretsStayOut`. The invariant `SecretsInv` adds
  `FirstAttempt` (until an attempt is repeated, the manifest worked with is the planned
  one, and the object got a secret only if the block has one) and `Kept` (between calls, a
  secret in the object comes with the private state's knowledge of its keys, so that the
  next Read masks it). Without `Kept` a Read could not be shown to mask what it reads.
* `SuccessIsApplied`: `Spec => []SuccessMeansApplied`. `PlainInv` says that a call without a
  `manifest_wo` never has a secret in its manifest, at whatever attempt, and `DoneInv` that
  from its Patch on the call's object is as planned, and there. That it stays there needs
  `LooseInv`: an object on its way out is the one a Delete still polls for, or one in
  `loose`; so the Create of a replacement meets none but these.
* `DeleteLetsGoOfNothing`: `Spec => DeletedIsGone`, from `Polled`: while a Delete polls,
  its object is gone or marked for deletion, whatever others do.
* `ReadForgetsNothing`: `Spec => ForgottenOnlyIfGone`. A Get that does not find the object
  may have asked at cluster scope; only `ReadGone`, which asks at the object's own, drops
  the state.
* `FlaggedIsReplaced`: `Spec => []FlaggedIsNotUpdated`, and `FlagEnds`:
  `Spec => FlagEndsWithSuccess`, from `FlagInv`: the planned private state has no flag, and
  an update that is planned for a flagged object changes nothing of its manifest.
* `CreatedStaysTracked`: `Spec => []CreatedIsTracked`, from `TrackInv`: an object the
  provider has made and that lives is the one in the state, or the Create that made it
  still runs. `LivesOn` (only a Patch of its name brings an object to life) and `Polled`
  (a replacement goes on to create only when the old object is on its way out) carry it.

`PlanFields_proofs` proves, for all leaves, values, blocks, roles and bounds:

* `TypeCorrect`: `Spec => []TypeOK`, from `TypeInv`, which adds where a command has a state
  to read and a plan to carry out.
* `PlanIsAlwaysValid`: `Spec => []PlanIsValid`. Both reconciliations return either their
  argument or the state's manifest (`PlannedIsEither`), and a refresh, which changes the
  state's manifest, runs only while there is no plan.
* `DriftNeverReplaces`: `Spec => []DriftDoesNotReplace`, assuming `Apart`: immutable paths
  go through no list and share no leaf with a computed one. The property is about one
  comparison but needs the whole cycle. `ImmutableInv` says that at immutable paths the
  plan has the values of its block and the state those of the block applied last;
  `PlannedKeepsRest` carries it through `ModifyPlan` and `RefreshKeepsImmutable` through
  `Read`. Without the first half of `Apart` the code does replace a resource for a write of
  others.
* `DriftIsNeverHidden`: `Spec => []NoOpMeansNoDrift`, from `RefreshedInv`: after a refresh
  the state's manifest has the object's values, but at immutable paths and where one of
  the two has nothing.
* `ComputedDriftPlansNothing`: `Spec => []ComputedDriftIsNoDiff`, assuming `ComputedApart`:
  no computed path goes through a list. Computed paths may overlap. `ShapeInv` says that a
  manifest has something where its block has something, unless a computed path covers the
  place; it holds for the block that was applied last (`applied`), not for the one in the
  plan, which is why the state has to be followed through edits.

`WaitWithErrorCheck_proofs` proves, for all wait blocks, error blocks of any length,
deadlines and bounds, `TypeCorrect` and `WaitImplementsPromise`: `Spec => PromiseKept`, the
safety part of the refinement of `WaitPromise`. `WaitInv` says that the waiter's result is
on its way once and unchanged, that a wait begins only where none has begun or after a
rollout that was seen, and that the caller goes on to the single check only when nothing
is awaited any more.

`PatchResource_proofs` proves, for any number of resources in any order, all patches, and an
object of any shape:

* `TypeCorrect`: `Spec => []TypeOK`.
* `RevertsAreAccepted`: `Spec => []RevertIsAccepted`, assuming `NoRequiredNull`: no patch has a
  null for a required field. `Lasting` are the leaves that are there at first and that
  neither a null nor others can take away; `RecordInv`, which needs no assumption, says
  that they are always there, that what was recorded of one is a value, and that no body
  of a Patch deletes it, from the Get of a Create to the revert of the Delete.
* `OperationsKeepToTheirPlaces`: `Spec => OthersUntouched`, assuming `WritersApart`: whoever
  writes to the array takes turns or adds the same items, and something in the map is there
  to stay. Operations may fail, be repeated after a lost answer, find another object under
  the old name, update their patch, or have no pre-patch values. `PlacesInv` says that a
  body which is on its way has the array as it still is but for the patch's items
  (`ArrayInv`, `BodiesInv`), and that those who wait for each other are not both at work
  (`TurnsInv`). It takes `RecordInv` with it: only because something in the map lasts does
  no revert find the map absent and delete it with what others put there since. The run
  `PatchLostItem` is what happens without the first half of `WritersApart`.

`PatchOverlay_proofs` proves on top of it that `PatchResource` implements `PatchOverlay`,
assuming `PatchesLayered`:

* `PatchesAreLayers`: `Spec => OverlayKept`. `Shown` says what some of the resources' patches
  make of a leaf. `OverlayInv` says that the object shows what all of them make of it
  (`LaidInv`), that what a resource has recorded of a leaf is what those below it make of
  it (`Recorded`), that nothing is there without what it depends on (`OrderInv`), and that
  an operation between its Get and its Patch still knows what is there in the places of
  its patch (`Applying`, `Reverting`). A lower patch is reverted only when no upper one is
  left, so that what it restores is never hidden and never hides (`ShownBelow`).

`PatchesLayered` is long because each of its conjuncts stands for a way in which the code
leaves a trace: overlapping patches without `depends_on`, patches that others write to, an
item with two writers, a second patch of one resource (an Update records patched values),
resources without pre-patch values, lost answers, a null, an item with a whole number or
one that was there before, a patch of which the map had nothing. It can hardly be weaker:
for each of these TLC finds a trace that is left on an instance of two resources. A value
that the patch adds, at the top level or beside others of its map, is no such case.

`ClientCache_proofs` and `Clients_proofs` prove, for any number of operations, all workloads, kubeconfig files and bounds:

* `TypeCorrect`: `Spec => []TypeOK`. `TypeInv` adds that nothing runs before `Configure`
  (`StartInv`) and that a timer runs only for an operation that waits at its discovery
  (`DiscoverInv`); otherwise a late answer could move an operation that has gone on.
* `NeverCircular`: `Spec => []NoCircularWait`. `CacheInv` says that what is being made is the
  last link of one operation's chain or is made for the next link. Each value is made
  of values with a smaller `Rank`, so of the values being made the one with the
  smallest rank waits for nobody.
* `ErrorsAreContained`: `Spec => []FailuresAreContained`. `ErrorInv` says that an error kept
  by a cache comes from the REST configuration, unless the cache is one of the two filled
  from the cluster; `HandlerInv` that an operation only has stages of its handler, of
  which none fails because of these two.
* `BlockIsObeyed`: `Spec => []BlockDecides`. `ConfigInv` says that the settings and the target
  are those of the block and the environment the process was started with; what these
  come to is a fact about the functions alone. `OneFile` says that one file with no
  override gives one of its own contexts, `NoFile` that without a file only the overrides
  count, and `TargetIs` puts the cases of `InitializeConfiguration` together.
* `ServedKindsAreServed`: `Spec => ServedKindsWork`. An operation that is `Sound` (its kind is
  served and known to the mapper, if that was asked before, nothing of its own has failed,
  and no more calls fail) stays so until its timer goes off (`SoundStep`): what is listed
  at the second look is found (`AnswerStaysGood`), and a mapper that is asked from now on
  knows the kind (`KindStaysKnown`). With the invariant of `ErrorsAreContained` this leaves
  no reason to fail.

`ManifestTrees_proofs` proves, for manifests and objects of any depth and width, any `manifest_wo`
and any sequence of edits, writes of others and commands:

* `SecretsAreHidden`: `Spec => []SecretsHidden`. `SealedInv` says that the secret, wherever it
  is, is at or below a place of `manifest_wo` in a map (`Sealed`). This needs one lemma for
  each walk: a merge keeps it (`OverlaidSealed`), although the merge may replace a map by a
  list or the reverse; so does the API server (`AdmittedSealed`), where items of a list that
  is sent move when one of them is dropped, because no place of `manifest_wo` is below a
  list; so does reconciling (`ReconciledSealed`), although it takes whole values from a reading
  where the kinds differ. `PlaceAbove` has the reason why masking the leaves is enough.
* `RefreshesShowCluster`: `Spec => []RefreshShowsCluster`. At a place that both have,
  reconciling either went on all the way down to it or ended at the topmost place above it
  where it could not (`Topmost`, by the well-foundedness of the natural numbers, in the place of an
  induction over values), and took what is there (`ReconciledShows`).
* `WhatIsAppliedIsKept`: `Spec => []AppliedIsKept`. What an apply sends arrives
  (`AdmittedContains`), and what has arrived and is plain is read back as it was
  (`ReconciledSame`), so that the next plan is the block.
* `ReadersAgree`: two readings of one object are reconciled with a manifest to the same. It
  has the hypothesis `Fits`, that neither reading shows a map or list where the manifest has
  something else: there a reading is taken as a whole, with the nulls that the one adds and
  the other does not. `ManifestValues` checks the same of the code's two readers, down to
  the types (its `ReadersAgree`).

These theorems are about the specification of `ManifestTrees`. The properties they state are
those of `ManifestPlaces`, which `Values` checks of `ManifestValues` too: both modules extend
it. What ties the two specifications together, `TreesKept`, is checked by TLC on the
instance of `Values` and not proved. The only assumption is that the labels of a tree are
told apart (`LabelsAssumption`).

The assumptions on constants are those named in the modules, and TLC evaluates them in
the runs: blocks and patches are typed, `None` is no value, bounds are natural numbers.
`Apart`, `ComputedApart`, `NoRequiredNull`, `WritersApart` and `PatchesLayered` are hypotheses of
the theorems that need them, not assumptions of the modules; the instance of each passing
run that checks such a theorem's property satisfies them. `SecretsInv` was checked with TLC
on the `Lifecycle` instance before it was proved, `RecordInv` and `PlacesInv` on `PatchShared`
and `PatchOverlay`, `OverlayInv` on `PatchOverlay`, and `TreesInv` on `Values`.

Only model-checked:

* liveness, which under fairness is beyond the prover: `Settles`, `BothEnd`,
  `Converges`, `EveryOperationEnds`;
* that `ManifestValues` implements `ManifestTrees` (`TreesKept`): its conversions and walks recurse
  over values, the operators that do so are RECURSIVE, and what a recursion computes for
  every input would need an induction over data, which the prover cannot do;
* for the same reason what `ManifestValues` says of types and spellings, which trees do not
  have: `TypeOK`, `AppliedIsNoDiff`, `PlanIsAccepted`, `MorphAccepts`, `ReadersAgree` to the last
  type, and `DataSourceShowsCluster` and `OverlayWins`, which are about single conversions.

## What is not modelled

* In `PlanFields`: lists that grow, shrink or shift (leaves stand at fixed places), values
  that change their type in the OpenAPI conversions, paths that do not parse, `-refresh=false`.
* In `ManifestValues`: failures, fractions and numbers beyond 2^53 (the latter are rounded),
  sets in schemas and tuples of several types, which no schema gives, changes of
  `manifest_wo`, and in the API server all admission but defaulting.
* In `Clients`: what the calls do to objects, the inside of the OpenAPI foundry (its index of
  kinds, the resolution of references, the mutex around its map of types), the context with
  which the CRDs are fetched.
* Other writers of a write-only path, and others who create an object anew under its name.
* Two `kubectl_manifest` blocks for one object; several kinds; `delete.cascade`.
* `ValidateConfig` and the upgrades of a resource's identity.
* Timeouts as durations: a timeout is an event that may happen.
* YAML splitting and parsing (`yaml/`) and the provider functions on top of it, import
  identifiers, flattening, diagnostics and the entry point: functions of one string or
  value, without state, that go from text to text. What is hard about them is characters,
  which the tables of tests beside them list better than a model would.

## Plan

The order of the modules, most important first. All of these are done:

1. `ManifestResource`, with `TypeCorrect`, `SecretsStayOutOfState` and the theorems about
   deletion, the flag and tracking.
2. `WaitWithErrorCheck` refining `WaitPromise`.
3. `PatchResource` refining `PatchOverlay`.
4. `PlanFields`: computed and immutable fields through Read, ModifyPlan and apply.
5. `Conversion`, `Payload`, `Morph` and `ManifestValues`: values, write-only paths on nested
   maps and lists, and both readers.
6. `ClientCache`, `Discovery`, `ProviderConfiguration`, composed in `Clients`.
7. `ManifestTrees`, which `ManifestValues` implements, with the theorems about secrets, refresh
   and what is applied.

What could follow:

* the document boundaries of `yaml/` as a function on sequences of lines.
