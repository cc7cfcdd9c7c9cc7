------------------------------- MODULE Clients -------------------------------
(***************************************************************************)
(* The operations of one provider process and what they share: the         *)
(* configuration, the clients made of it, and what these remember of the   *)
(* cluster.  The work of a handler is a list of stages, and a stage a list *)
(* of steps: a client that is asked for, or a call to the API server.      *)
(* What the calls do to objects is the matter of ManifestResource and      *)
(* PatchResource; here they are answered, or fail.                         *)
(*                                                                         *)
(* Between the calls to the API server there is no order but that of the   *)
(* handlers and of the locks of the caches.                                *)
(***************************************************************************)
EXTENDS ClientCache, ProviderConfiguration, FiniteSets

CONSTANTS
  Kinds,       \* kinds of objects
  Workloads,   \* what the user has configured, and what Terraform asks for
  MaxFaults    \* bound on calls that fail or are not answered

VARIABLES
  work,       \* the workload: block, environment and the operations' calls
  settings,   \* the settings after Configure, None before
  todo,       \* the stages an operation still has to go through
  at,         \* the step of its stage it is at
  result,     \* how it has ended
  served,     \* the kinds that the API server serves
  view,       \* the kinds that the OpenAPI document, the CRDs and the mapper know
  mapped,     \* has the mapper asked for the API's resources?
  target,     \* what the REST configuration leads to
  routine, hung, timer,   \* the discovery of each operation
  faults,     \* how much of the bound is used up
  own         \* ghost: the operations of which a call of their own has failed

INSTANCE Discovery WITH Callers <- Ops

callVars == <<routine, hung, timer>>
opVars == <<todo, at, result>>
worldVars == <<served, view, mapped, target>>
vars == <<cacheVars, callVars, opVars, worldVars, work, settings, faults, own>>

Views == {"OAPIFoundry", "crds", "restMapper"}

\* The clients and calls of each stage: TFTypeFromOpenAPI asks for the first three of
\* "plan", getResourceInterface for the first three of "check", and the client of a kind
\* for the first three of "basic".
Steps ==
  [plan   |-> <<"OAPIFoundry", "crds", "lookup">>,
   typed  |-> <<"OAPIFoundry", "crds", "lookup", "restMapper", "dynamicClient", "mapping",
                "get", "convert">>,
   import |-> <<"OAPIFoundry", "crds", "lookup", "restMapper", "dynamicClient", "mapping",
                "get", "convert">>,
   basic  |-> <<"mainClientset", "restConfig", "discover", "call">>,
   write  |-> <<"mainClientset", "restConfig", "discover", "call">>,
   patch  |-> <<"mainClientset", "restConfig", "discover", "call", "call">>,
   check  |-> <<"restMapper", "dynamicClient", "mapping", "get">>,
   poll   |-> <<"restMapper", "dynamicClient", "mapping", "get">>,
   wait   |-> <<"restMapper", "dynamicClient", "mapping", "OAPIFoundry", "crds", "lookup",
                "get">>,
   data   |-> <<"restMapper", "dynamicClient", "mapping", "OAPIFoundry", "crds", "lookup",
                "get">>]
Stages == DOMAIN Steps

\* The stages of the handlers: ModifyPlan, Read, Create and Update, Delete and
\* ImportState of a manifest, the operations on a patch, and the data source's Read.
Handlers ==
  [plan   |-> <<"plan">>,
   read   |-> <<"typed", "check">>,
   apply  |-> <<"write", "typed", "wait">>,
   delete |-> <<"write", "poll">>,
   import |-> <<"import">>,
   patch  |-> <<"patch">>,
   data   |-> <<"data">>]

\* Deviation: the read with the OpenAPI type is not followed by a basic one.
OnErrorNoFallback(stage, step) ==
  CASE stage \in {"plan", "poll", "check"} -> "stop"
    [] stage \in {"data", "wait"} /\ step \in {"OAPIFoundry", "crds", "lookup"} -> "untyped"
    [] OTHER -> "fail"

\* What a handler makes of a step that fails: it leaves the stage, goes on without the
\* type, or with the basic read instead, or fails.
OnError(stage, step) ==
  CASE stage \in {"plan", "poll", "check"} -> "stop"
    [] stage = "typed" -> "basic"
    [] stage = "import" /\ step \in {"OAPIFoundry", "crds", "lookup", "convert"} -> "basic"
    [] stage \in {"data", "wait"} /\ step \in {"OAPIFoundry", "crds", "lookup"} -> "untyped"
    [] OTHER -> "fail"

Bool(b) == IF b THEN "ok" ELSE "err"
CallType == [handler : DOMAIN Handlers, kind : Kinds]

ASSUME WorkloadsAssumption ==
  \A w \in Workloads : /\ w.calls \in [Ops -> CallType \cup {None}]
                       /\ w.served \subseteq Kinds
                       /\ Resolve(w.block, w.env) # None
ASSUME FaultsAssumption == MaxFaults \in Nat

Running(o) == todo[o] # <<>>
Stage(o) == Head(todo[o])
Step(o) == Steps[Stage(o)][at[o]]
KindOf(o) == work.calls[o].kind

TypeOK ==
  /\ CacheTypeOK /\ DiscoveryTypeOK
  /\ work \in Workloads
  /\ todo \in [Ops -> Seq(Stages)] /\ at \in [Ops -> Nat]
  /\ \A o \in Ops : Running(o) => at[o] \in 1..Len(Steps[Stage(o)])
  /\ result \in [Ops -> {"none", "ok", "failed", "null"}]
  /\ served \subseteq Kinds /\ view \in [Views -> SUBSET Kinds]
  /\ mapped \in BOOLEAN
  /\ faults \in Nat /\ own \subseteq Ops

Init ==
  /\ CacheInit /\ DiscoveryInit
  /\ work \in Workloads
  /\ settings = None /\ target = NoTarget
  /\ todo = [o \in Ops |-> <<>>] /\ at = [o \in Ops |-> 1]
  /\ result = [o \in Ops |-> "none"]
  /\ served \in {work.served} /\ view = [v \in Views |-> {}] /\ mapped = FALSE
  /\ faults = 0 /\ own = {}

Fault == faults < MaxFaults /\ faults' = faults + 1
NoFault == UNCHANGED faults

-----------------------------------------------------------------------------
(* The way of an operation through its stages *)

End(o, r) ==
  /\ todo' = [todo EXCEPT ![o] = <<>>]
  /\ result' = [result EXCEPT ![o] = r]
  /\ UNCHANGED at

LeaveStage(o) ==
  IF Tail(todo[o]) = <<>> THEN End(o, "ok")
  ELSE /\ todo' = [todo EXCEPT ![o] = Tail(@)]
       /\ at' = [at EXCEPT ![o] = 1]
       /\ UNCHANGED result

\* Deviation: an operation leaves its stage a step too late.
AdvanceTooFar(o) ==
  IF at[o] > Len(Steps[Stage(o)]) THEN LeaveStage(o)
  ELSE /\ at' = [at EXCEPT ![o] = @ + 1]
       /\ UNCHANGED <<todo, result>>

Advance(o) ==
  IF at[o] = Len(Steps[Stage(o)]) THEN LeaveStage(o)
  ELSE /\ at' = [at EXCEPT ![o] = @ + 1]
       /\ UNCHANGED <<todo, result>>

GiveUp(o) ==
  CASE OnError(Stage(o), Step(o)) = "stop"  -> LeaveStage(o)
    [] OnError(Stage(o), Step(o)) = "basic" ->
         /\ todo' = [todo EXCEPT ![o][1] = "basic"]
         /\ at' = [at EXCEPT ![o] = 1]
         /\ UNCHANGED result
    [] OnError(Stage(o), Step(o)) = "untyped" ->
         /\ at' = [at EXCEPT ![o] = 1 + CHOOSE i \in DOMAIN Steps[Stage(o)] :
                                            Steps[Stage(o)][i] = "lookup"]
         /\ UNCHANGED <<todo, result>>
    [] OnError(Stage(o), Step(o)) = "fail" -> End(o, "failed")

Go(o, outcome) == IF outcome = "ok" THEN Advance(o) ELSE GiveUp(o)

-----------------------------------------------------------------------------
(* Terraform and the cluster *)

Configure ==
  /\ settings = None
  /\ settings' = Resolve(work.block, work.env)
  /\ todo' = [o \in Ops |-> IF work.calls[o] = None THEN <<>>
                            ELSE Handlers[work.calls[o].handler]]
  /\ UNCHANGED <<cacheVars, callVars, worldVars, work, at, result, faults, own>>

\* The data source does without the cluster as long as the provider block has unknown
\* values.
Defer(o) ==
  /\ Running(o) /\ Stage(o) = "data" /\ at[o] = 1 /\ focus[o] = None
  /\ ~work.known
  /\ End(o, "null")
  /\ UNCHANGED <<cacheVars, callVars, worldVars, work, settings, faults, own>>

\* A CRD is established.
Publish(k) ==
  /\ k \notin served /\ served' = served \cup {k}
  /\ UNCHANGED <<cacheVars, callVars, opVars, view, mapped, target, work, settings,
                 faults, own>>

-----------------------------------------------------------------------------
(* Clients that are asked for *)

\* May o take its next step, with nothing to make first?
At(o, step) ==
  /\ Running(o) /\ focus[o] = None /\ Step(o) = step
  /\ Stage(o) = "data" => work.known

Get(o) ==
  \E c \in Caches :
    /\ At(o, c)
    /\ \/ Begin(o, c) /\ UNCHANGED opVars
       \/ /\ once[c] \in {"ok", "err"}
          /\ Go(o, once[c])
          /\ UNCHANGED cacheVars
    /\ UNCHANGED <<callVars, worldVars, work, settings, faults, own>>

AskNext(o) ==
  /\ Ask(o)
  /\ UNCHANGED <<callVars, opVars, worldVars, work, settings, faults, own>>

\* InitializeConfiguration; the clients, which are only structures.
MakeLocal(o) ==
  /\ focus[o] \notin {"restConfig", "OAPIFoundry", "crds"}
  /\ Make(o, "ok")
  /\ UNCHANGED <<callVars, opVars, worldVars, work, settings, faults, own>>

MakeRestConfig(o) ==
  /\ focus[o] = "restConfig"
  /\ target' = Target(settings)
  /\ Make(o, Bool(target' # NoTarget))
  /\ UNCHANGED <<callVars, opVars, served, view, mapped, work, settings, faults, own>>

\* The OpenAPI document, and the list of CRDs: what is there now, for good.
MakeFromCluster(o) ==
  LET c == focus[o] IN
  /\ c \in {"OAPIFoundry", "crds"}
  /\ c = "crds" => mapped
  /\ \/ /\ Make(o, "ok") /\ NoFault
        /\ view' = [view EXCEPT ![c] = served]
     \/ Make(o, "err") /\ Fault /\ UNCHANGED view
  /\ UNCHANGED <<callVars, opVars, served, mapped, target, work, settings, own>>

\* The mapper asks for the API's resources when it is first used, for the CRDs or for
\* a kind; groups that could not be listed are unknown to it for good.
Map(o) ==
  /\ ~mapped
  /\ \/ focus[o] = "crds" /\ HasAll("crds")
     \/ At(o, "mapping")
  /\ \/ /\ mapped' = TRUE /\ UNCHANGED <<cacheVars, opVars, own>>
        /\ \/ view' = [view EXCEPT !["restMapper"] = served] /\ NoFault
           \/ \E k \in served : view' = [view EXCEPT !["restMapper"] = served \ {k}] /\ Fault
     \/ /\ focus[o] = "crds" /\ Make(o, "err")
        /\ Fault /\ UNCHANGED <<opVars, view, mapped, own>>
     \/ /\ focus[o] = None /\ GiveUp(o)
        /\ Fault /\ own' = own \cup {o} /\ UNCHANGED <<cacheVars, view, mapped>>
  /\ UNCHANGED <<callVars, served, target, work, settings>>

-----------------------------------------------------------------------------
(* What is done with them *)

\* RESTMapping and GetTypeByGVK answer from what was remembered.
Mapping(o) ==
  /\ At(o, "mapping") /\ mapped
  /\ Go(o, Bool(KindOf(o) \in view["restMapper"]))
  /\ UNCHANGED <<cacheVars, callVars, worldVars, work, settings, faults, own>>

Lookup(o) ==
  /\ At(o, "lookup")
  /\ Go(o, Bool(KindOf(o) \in view["crds"] \cup view["OAPIFoundry"]))
  /\ UNCHANGED <<cacheVars, callVars, worldVars, work, settings, faults, own>>

\* The object does not fit its type, or does.
Convert(o) ==
  /\ At(o, "convert")
  /\ Advance(o) \/ GiveUp(o)
  /\ UNCHANGED <<cacheVars, callVars, worldVars, work, settings, faults, own>>

Call(o) ==
  /\ At(o, "get") \/ At(o, "call")
  /\ \/ Advance(o) /\ NoFault /\ UNCHANGED own
     \/ GiveUp(o) /\ Fault /\ own' = own \cup {o}
  /\ UNCHANGED <<cacheVars, callVars, worldVars, work, settings>>

Discover(o) ==
  /\ At(o, "discover") /\ timer[o] = "off" /\ Start(o)
  /\ UNCHANGED <<cacheVars, opVars, worldVars, work, settings, faults, own>>

DiscoveryRuns(o) ==
  /\ \/ Look(o, KindOf(o) \in served) /\ NoFault
     \/ Look(o, FALSE) /\ Fault
     \/ LookFails(o) /\ Fault
  /\ UNCHANGED <<cacheVars, opVars, worldVars, work, settings, own>>

ServerSilent(o) ==
  /\ Hang(o) /\ Fault
  /\ UNCHANGED <<cacheVars, opVars, worldVars, work, settings, own>>

ServerAnswers(o) ==
  /\ Wake(o)
  /\ UNCHANGED <<cacheVars, opVars, worldVars, work, settings, faults, own>>

Discovered(o) ==
  /\ Receive(o)
  /\ Go(o, Bool(routine[o] = "client"))
  /\ own' = IF routine[o] = "client" THEN own ELSE own \cup {o}
  /\ UNCHANGED <<cacheVars, worldVars, work, settings, faults>>

TimedOut(o) ==
  /\ TimerFires(o) /\ GiveUp(o) /\ own' = own \cup {o}
  /\ UNCHANGED <<cacheVars, worldVars, work, settings, faults>>

-----------------------------------------------------------------------------

Runs(o) ==
  \/ Defer(o) \/ Get(o) \/ AskNext(o) \/ MakeLocal(o) \/ MakeRestConfig(o)
  \/ MakeFromCluster(o) \/ Map(o) \/ Mapping(o) \/ Lookup(o) \/ Convert(o) \/ Call(o)
  \/ Discover(o) \/ Discovered(o)

Ended ==
  /\ settings # None /\ \A o \in Ops : ~Running(o)
  /\ UNCHANGED vars

Next ==
  \/ Configure
  \/ \E k \in Kinds : Publish(k)
  \/ \E o \in Ops : Runs(o) \/ DiscoveryRuns(o) \/ ServerSilent(o) \/ ServerAnswers(o)
                    \/ TimedOut(o)
  \/ Ended

Spec == Init /\ [][Next]_vars

\* The handlers and their goroutines run, and time passes.
FairSpec ==
  /\ Spec /\ WF_vars(Configure)
  /\ \A o \in Ops : WF_vars(Runs(o)) /\ WF_vars(DiscoveryRuns(o)) /\ WF_vars(TimedOut(o))

-----------------------------------------------------------------------------
(* Properties *)

\* Whenever a value is being made, one of those who make one can go on: the locks of
\* the caches are never waited for in a circle (the graph of the get... functions of
\* clients.go and provider.go, with fetchCRDs).
NoCircularWait ==
  (\E c \in Caches : once[c] = "busy") =>
    \E o \in Ops : /\ focus[o] # None
                   /\ HasAll(focus[o]) \/ once[Needs(focus[o])] # "busy"

\* An operation fails because the configuration leads nowhere, because a call of its
\* own has failed, or because the mapper, asked before, does not know its kind; never
\* because of an OpenAPI document or a list of CRDs that another operation could not
\* get, although that error is kept for the life of the process (cache.go).
FailuresAreContained ==
  \A o \in Ops : result[o] = "failed" =>
    \/ once["restConfig"] = "err"
    \/ o \in own
    \/ /\ work.calls[o].handler \in {"apply", "import", "data"}
       /\ mapped /\ KindOf(o) \notin view["restMapper"]

\* Nothing that o has asked for has failed or is known to be missing.
Unharmed(o) == Running(o) /\ o \notin own /\ routine[o] \notin {"invalid", "error"}

\* The mapper, if it has been asked already, knows the kind.
MapperKnows(k) == mapped => k \in view["restMapper"]

\* Once no more calls fail, an operation whose kind is served, and of which nothing has
\* gone wrong yet, does not fail any more unless its timer goes off or the configuration
\* leads nowhere: it does not matter that the CRD came after the OpenAPI document and the
\* list of CRDs were remembered for good, that fetching these had failed before, or that
\* the kind was not listed at the first of the two looks of doGetRestClient (client.go:
\* 118-122).  A mapper that was asked before the CRD came is the exception.
ServedKindsWork ==
  \A o \in Ops :
    [](Unharmed(o) /\ KindOf(o) \in served /\ MapperKnows(KindOf(o)) /\ faults = MaxFaults =>
         [](result[o] = "failed" => once["restConfig"] = "err" \/ timer[o] = "fired"))

Given(value) == value \notin {Null, Empty}
ClustersOf(paths) ==
  UNION {{Kubeconfig[p].contexts[c].cluster : c \in DOMAIN Kubeconfig[p].contexts} :
           p \in {q \in paths : Kubeconfig[q] # NoTarget}}

\* What the provider block gives is not overruled by the environment, and a setting of
\* its own not by a file (Configure, InitializeConfiguration).  The exception is
\* config_paths, which a path of the environment hides.
BlockDecides ==
  target # NoTarget =>
    LET block == work.block
        env == work.env
        hosted == Given(block.host) \/ (block.host = Null /\ env.host # Empty)
    IN /\ Given(block.host) => target.server = block.host
       /\ Given(block.token) => target.user = block.token
       /\ ~hosted /\ Given(block.path) /\ block.cluster = Null /\ env.cluster = Empty =>
            target.server \in ClustersOf({block.path})
       /\ ~hosted /\ Given(block.cluster) => target.server = block.cluster
       /\ ~hosted => block.load # FALSE /\ ~block.exec

\* Every operation ends, also when the API server does not answer the discovery
\* (the timer of GetRestClientFromUnstructured) and others have to be waited for.
EveryOperationEnds == <>(settings # None /\ \A o \in Ops : ~Running(o))
=============================================================================
