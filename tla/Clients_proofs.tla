---------------------------- MODULE Clients_proofs ----------------------------
(***************************************************************************)
(* Proofs about Clients, for every number of operations, every workload,   *)
(* every kubeconfig and every bound on faults.  The caches are the matter  *)
(* of ClientCache_proofs; here it is shown that no other step touches      *)
(* them, that the way of an operation through its stages is well formed,   *)
(* what an operation can fail of, and that one whose kind is served works. *)
(***************************************************************************)
EXTENDS Clients, ClientCache_proofs, TLAPS

-----------------------------------------------------------------------------
(* What the provider block says of the cluster: Resolve and Target *)

\* A single kubeconfig file.
LEMMA OneFile ==
  ASSUME NEW path
  PROVE  LET c == ReadFiles(<<path>>) IN
           /\ c.ok <=> Kubeconfig[path] # NoTarget
           /\ c.ok => /\ DOMAIN c.contexts = DOMAIN Kubeconfig[path].contexts
                      /\ \A n \in DOMAIN c.contexts :
                           c.contexts[n] = Kubeconfig[path].contexts[n]
<1> DEFINE files == <<path>>
           there == {i \in DOMAIN files : Kubeconfig[files[i]] # NoTarget}
           Defining(c) == {i \in there : c \in DOMAIN Kubeconfig[files[i]].contexts}
           First(c) == CHOOSE i \in Defining(c) : \A j \in Defining(c) : i <= j
<1>1. DOMAIN files = {1} /\ files[1] = path /\ Len(files) = 1
  OBVIOUS
<1>2. there = IF Kubeconfig[path] # NoTarget THEN {1} ELSE {}
  BY <1>1
<1>3. ReadFiles(files).ok <=> Kubeconfig[path] # NoTarget
  BY <1>1, <1>2 DEF ReadFiles
<1>4. ASSUME Kubeconfig[path] # NoTarget
      PROVE  /\ DOMAIN ReadFiles(files).contexts = DOMAIN Kubeconfig[path].contexts
             /\ \A n \in DOMAIN Kubeconfig[path].contexts :
                  ReadFiles(files).contexts[n] = Kubeconfig[path].contexts[n]
  <2>1. there = {1}
    BY <1>2, <1>4
  <2>2. \A n \in DOMAIN Kubeconfig[path].contexts : Defining(n) = {1} /\ First(n) = 1
    BY <1>1, <2>1
  <2>3. UNION {DOMAIN Kubeconfig[files[i]].contexts : i \in there}
          = DOMAIN Kubeconfig[path].contexts
    BY <1>1, <2>1
  <2>4. ReadFiles(files).contexts = [n \in DOMAIN Kubeconfig[path].contexts |->
                                      Kubeconfig[files[First(n)]].contexts[n]]
    BY <2>3 DEF ReadFiles
  <2> HIDE DEF there, Defining, First, files
  <2> QED
    BY <1>1, <2>2, <2>4
<1> QED
  BY <1>3, <1>4 DEF files

\* Without files nothing but the static settings leads anywhere.
LEMMA NoFile == DOMAIN ReadFiles(<<>>).contexts = {}
BY DEF ReadFiles

\* The target has the host, the token and the cluster of the settings, or of the files.
LEMMA TargetIs ==
  ASSUME NEW s, Target(s) # NoTarget
  PROVE  /\ s.host # Empty => Target(s).server = s.host
         /\ s.token # Empty => Target(s).user = s.token
         /\ s.host = Empty =>
              /\ FilesLoaded(s) # <<>>
              /\ s.cluster # Empty => Target(s).server = s.cluster
              /\ s.cluster = Empty =>
                   LET config == ReadFiles(FilesLoaded(s)) IN
                   /\ config.ok
                   /\ \E c \in DOMAIN config.contexts :
                        Target(s).server = config.contexts[c].cluster
<1> DEFINE files   == FilesLoaded(s)
           config  == ReadFiles(files)
           named   == IF files # <<>> THEN s.context ELSE Empty
           context == IF named # Empty THEN named ELSE config.current
           found   == context \in DOMAIN config.contexts
           cluster == IF files # <<>> /\ s.cluster # Empty THEN s.cluster
                      ELSE IF found THEN config.contexts[context].cluster ELSE Empty
           server  == IF s.host # Empty THEN s.host ELSE cluster
           user    == IF s.token # Empty THEN s.token
                      ELSE IF found THEN config.contexts[context].user ELSE Empty
<1>1. /\ config.ok /\ server # Empty
      /\ Target(s) = [server |-> server, user |-> user]
  BY DEF Target
<1>2. Target(s).server = server /\ Target(s).user = user
  <2> HIDE DEF server, user
  <2> QED
    BY <1>1
<1>3. files = <<>> => ~found
  BY NoFile
<1> HIDE DEF files, config, context, found
<1>4. s.host = Empty => /\ files # <<>>
                        /\ s.cluster # Empty => server = s.cluster
                        /\ s.cluster = Empty => found /\ server = config.contexts[context].cluster
  BY <1>1, <1>3
<1> HIDE DEF server, user, named, cluster
<1>5. s.host # Empty => server = s.host
  BY DEF server
<1>6. s.token # Empty => user = s.token
  BY DEF user
<1>7. s.host = Empty /\ s.cluster = Empty =>
        config.ok /\ \E c \in DOMAIN config.contexts : server = config.contexts[c].cluster
  BY <1>1, <1>4 DEF found
<1> QED
  BY <1>2, <1>4, <1>5, <1>6, <1>7 DEF files, config

-----------------------------------------------------------------------------
(* The invariants *)

\* The part of TypeOK about the way of the operations.
WayOK ==
  /\ todo \in [Ops -> Seq(Stages)] /\ at \in [Ops -> Nat]
  /\ \A o \in Ops : Running(o) => at[o] \in 1..Len(Steps[Stage(o)])
  /\ result \in [Ops -> {"none", "ok", "failed", "null"}]

WorldOK ==
  /\ work \in Workloads
  /\ served \subseteq Kinds /\ view \in [Views -> SUBSET Kinds]
  /\ mapped \in BOOLEAN
  /\ faults \in Nat /\ own \subseteq Ops

-----------------------------------------------------------------------------
(* The steps of the stages *)

LEMMA StagesAre ==
  Stages = {"plan", "typed", "import", "basic", "write", "patch", "check", "poll", "wait",
            "data"}
BY DEF Stages, Steps

LEMMA StepsLen ==
  ASSUME NEW s \in Stages
  PROVE  Len(Steps[s]) \in 1..8 /\ 1 \in 1..Len(Steps[s])
<1>1. CASE s = "plan" BY <1>1 DEF Steps
<1>2. CASE s \in {"typed", "import"} BY <1>2 DEF Steps
<1>3. CASE s \in {"basic", "write"} BY <1>3 DEF Steps
<1>4. CASE s = "patch" BY <1>4 DEF Steps
<1>5. CASE s \in {"check", "poll"} BY <1>5 DEF Steps
<1>6. CASE s \in {"wait", "data"} BY <1>6 DEF Steps
<1> QED
  BY <1>1, <1>2, <1>3, <1>4, <1>5, <1>6, StagesAre

\* Where an operation goes on without the OpenAPI type.
LEMMA AfterLookup ==
  ASSUME NEW s \in {"wait", "data"}
  PROVE  1 + (CHOOSE i \in DOMAIN Steps[s] : Steps[s][i] = "lookup") \in 1..Len(Steps[s])
<1> DEFINE found == CHOOSE i \in DOMAIN Steps[s] : Steps[s][i] = "lookup"
<1>1. Steps[s][6] = "lookup" /\ 6 \in DOMAIN Steps[s] /\ Len(Steps[s]) = 7
  BY DEF Steps
<1>2. \A i \in DOMAIN Steps[s] : Steps[s][i] = "lookup" => i = 6
  BY DEF Steps
<1>3. found = 6
  <2> DEFINE f == Steps[s]
  <2>1. 6 \in DOMAIN f /\ f[6] = "lookup" /\ \A i \in DOMAIN f : f[i] = "lookup" => i = 6
    BY <1>1, <1>2
  <2> HIDE DEF f
  <2>2. (CHOOSE i \in DOMAIN f : f[i] = "lookup") = 6
    BY <2>1
  <2> QED
    BY <2>2 DEF f
<1> HIDE DEF found
<1>4. 1 + found \in 1..Len(Steps[s])
  BY <1>1, <1>3
<1> QED
  BY <1>4 DEF found

\* The steps that make an operation fail: a client or a call that it cannot do without.
LEMMA FatalSteps ==
  ASSUME NEW s \in Stages, NEW i \in 1..Len(Steps[s]), OnError(s, Steps[s][i]) = "fail"
  PROVE  \/ /\ s \in {"basic", "write", "patch"}
            /\ Steps[s][i] \in {"mainClientset", "restConfig", "discover", "call"}
         \/ /\ s \in {"import", "data", "wait"}
            /\ Steps[s][i] \in {"restMapper", "dynamicClient", "mapping", "get"}
<1>1. CASE s = "basic" BY <1>1 DEF Steps
<1>2. CASE s = "write" BY <1>2 DEF Steps
<1>6. CASE s = "patch" BY <1>6 DEF Steps
<1>3. CASE s \in {"plan", "check", "poll", "typed"} BY <1>3 DEF OnError
<1>4. CASE s = "import"
  <2>1. Steps[s][i] \in {"OAPIFoundry", "crds", "lookup", "restMapper", "dynamicClient",
                         "mapping", "get", "convert"}
    BY <1>4 DEF Steps
  <2> QED
    BY <1>4, <2>1 DEF OnError
<1>5. CASE s \in {"wait", "data"}
  <2>1. Steps[s][i] \in {"OAPIFoundry", "crds", "lookup", "restMapper", "dynamicClient",
                         "mapping", "get"}
    <3>1. CASE s = "wait" BY <3>1 DEF Steps
    <3>2. CASE s = "data" BY <3>2 DEF Steps
    <3> QED
      BY <1>5, <3>1, <3>2
  <2> QED
    BY <1>5, <2>1 DEF OnError
<1> QED
  BY <1>1, <1>2, <1>3, <1>4, <1>5, <1>6, StagesAre

-----------------------------------------------------------------------------
(* The way of an operation *)

\* An operation that runs is at a step of a stage.
LEMMA WhereItIs ==
  ASSUME WayOK, NEW o \in Ops, Running(o)
  PROVE  /\ todo[o] \in Seq(Stages) /\ todo[o] # <<>>
         /\ Stage(o) \in Stages /\ Stage(o) = todo[o][1]
         /\ at[o] \in 1..Len(Steps[Stage(o)])
         /\ Tail(todo[o]) \in Seq(Stages)
BY DEF WayOK, Running, Stage

LEMMA EndKeepsWay ==
  ASSUME WayOK, NEW o \in Ops, NEW r \in {"ok", "failed", "null"}, End(o, r)
  PROVE  WayOK'
<1>1. \A p \in Ops : p # o => todo'[p] = todo[p] /\ at'[p] = at[p]
  BY DEF WayOK, End
<1>2. todo' \in [Ops -> Seq(Stages)] /\ todo'[o] = <<>>
  BY DEF WayOK, End
<1> QED
  BY <1>1, <1>2 DEF WayOK, End, Running, Stage

LEMMA LeaveKeepsWay ==
  ASSUME WayOK, NEW o \in Ops, Running(o), LeaveStage(o)
  PROVE  WayOK'
<1>1. CASE Tail(todo[o]) = <<>>
  BY <1>1, EndKeepsWay DEF LeaveStage
<1>2. CASE Tail(todo[o]) # <<>>
  <2>1. todo' = [todo EXCEPT ![o] = Tail(@)] /\ at' = [at EXCEPT ![o] = 1] /\ result' = result
    BY <1>2 DEF LeaveStage
  <2>2. todo' \in [Ops -> Seq(Stages)] /\ at' \in [Ops -> Nat]
    BY <2>1, WhereItIs DEF WayOK
  <2>3. Head(Tail(todo[o])) \in Stages
    BY <1>2, WhereItIs
  <2>4. ASSUME NEW p \in Ops, todo'[p] # <<>>
        PROVE  at'[p] \in 1..Len(Steps[Head(todo'[p])])
    <3>1. CASE p = o
      <4>1. Head(todo'[p]) = Head(Tail(todo[o])) /\ at'[p] = 1
        BY <2>1, <3>1 DEF WayOK, Stage
      <4>2. 1 \in 1..Len(Steps[Head(Tail(todo[o]))])
        BY <2>3, StepsLen, Zenon
      <4> QED
        BY <4>1, <4>2, Zenon
    <3>2. CASE p # o
      BY <2>1, <2>4, <3>2 DEF WayOK, Stage, Running
    <3> QED
      BY <3>1, <3>2
  <2> QED
    BY <2>1, <2>2, <2>4 DEF WayOK, Running, Stage
<1> QED
  BY <1>1, <1>2

LEMMA AdvanceKeepsWay ==
  ASSUME WayOK, NEW o \in Ops, Running(o), Advance(o)
  PROVE  WayOK'
<1>1. CASE at[o] = Len(Steps[Stage(o)])
  BY <1>1, LeaveKeepsWay DEF Advance
<1>2. CASE at[o] # Len(Steps[Stage(o)])
  <2>1. at' = [at EXCEPT ![o] = @ + 1] /\ todo' = todo /\ result' = result
    BY <1>2 DEF Advance
  <2>2. Len(Steps[Stage(o)]) \in Nat
    BY WhereItIs, StepsLen
  <2> QED
    BY <1>2, <2>1, <2>2, WhereItIs DEF WayOK, Stage, Running
<1> QED
  BY <1>1, <1>2

LEMMA GiveUpKeepsWay ==
  ASSUME WayOK, NEW o \in Ops, Running(o), GiveUp(o)
  PROVE  WayOK'
<1>0. OnError(Stage(o), Step(o)) \in {"stop", "basic", "untyped", "fail"}
  BY DEF OnError
<1>1. CASE OnError(Stage(o), Step(o)) = "stop"
  BY <1>1, LeaveKeepsWay DEF GiveUp
<1>2. CASE OnError(Stage(o), Step(o)) = "basic"
  <2>1. /\ todo' = [todo EXCEPT ![o][1] = "basic"] /\ at' = [at EXCEPT ![o] = 1]
        /\ result' = result
    BY <1>2 DEF GiveUp
  <2>2. "basic" \in Stages
    BY StagesAre
  <2>3. [todo[o] EXCEPT ![1] = "basic"] \in Seq(Stages)
    BY <2>2, WhereItIs
  <2>4. todo' \in [Ops -> Seq(Stages)] /\ at' \in [Ops -> Nat]
    BY <2>1, <2>3 DEF WayOK
  <2>5. Head(todo'[o]) = "basic"
    BY <2>1, WhereItIs DEF WayOK
  <2>6. ASSUME NEW p \in Ops, todo'[p] # <<>>
        PROVE  at'[p] \in 1..Len(Steps[Head(todo'[p])])
    <3>1. CASE p = o
      <4>1. Head(todo'[p]) = "basic" /\ at'[p] = 1
        BY <2>1, <2>5, <3>1 DEF WayOK
      <4>2. 1 \in 1..Len(Steps["basic"])
        BY <2>2, StepsLen
      <4> QED
        BY <4>1, <4>2, Zenon
    <3>2. CASE p # o
      BY <2>1, <2>6, <3>2 DEF WayOK, Stage, Running
    <3> QED
      BY <3>1, <3>2
  <2> QED
    BY <2>1, <2>4, <2>6 DEF WayOK, Running, Stage
<1>3. CASE OnError(Stage(o), Step(o)) = "untyped"
  <2>1. Stage(o) \in {"wait", "data"}
    BY <1>3 DEF OnError
  <2> DEFINE next == 1 + CHOOSE i \in DOMAIN Steps[Stage(o)] : Steps[Stage(o)][i] = "lookup"
  <2>2. at' = [at EXCEPT ![o] = next] /\ todo' = todo /\ result' = result
    BY <1>3 DEF GiveUp
  <2>3. next \in 1..Len(Steps[Stage(o)])
    BY <2>1, AfterLookup
  <2>4. Len(Steps[Stage(o)]) \in Nat
    BY WhereItIs, StepsLen
  <2> HIDE DEF next
  <2> QED
    BY <2>2, <2>3, <2>4 DEF WayOK, Stage, Running
<1>4. CASE OnError(Stage(o), Step(o)) = "fail"
  BY <1>4, EndKeepsWay DEF GiveUp
<1> QED
  BY <1>0, <1>1, <1>2, <1>3, <1>4

LEMMA GoKeepsWay ==
  ASSUME WayOK, NEW o \in Ops, Running(o), NEW outcome, Go(o, outcome)
  PROVE  WayOK'
BY AdvanceKeepsWay, GiveUpKeepsWay DEF Go

\* What an operation can do on its way, and that it concerns nobody else.
Move(o) ==
  \/ LeaveStage(o) \/ Advance(o) \/ GiveUp(o) \/ End(o, "null")
  \/ \E outcome \in {"ok", "err"} : Go(o, outcome)

LEMMA MoveKeepsWay ==
  ASSUME WayOK, NEW o \in Ops, Running(o), Move(o)
  PROVE  WayOK'
BY LeaveKeepsWay, AdvanceKeepsWay, GiveUpKeepsWay, GoKeepsWay, EndKeepsWay DEF Move

LEMMA MoveIsIts ==
  ASSUME WayOK, NEW o \in Ops, Move(o)
  PROVE  \A p \in Ops \ {o} : /\ todo'[p] = todo[p] /\ at'[p] = at[p]
                              /\ result'[p] = result[p]
<1>0. OnError(Stage(o), Step(o)) \in {"stop", "basic", "untyped", "fail"}
  BY DEF OnError
<1>1. ASSUME NEW r, End(o, r)
      PROVE  \A p \in Ops \ {o} : /\ todo'[p] = todo[p] /\ at'[p] = at[p]
                                  /\ result'[p] = result[p]
  BY <1>1 DEF WayOK, End
<1>2. CASE LeaveStage(o)
  BY <1>1, <1>2 DEF WayOK, LeaveStage
<1>3. CASE Advance(o)
  BY <1>2, <1>3 DEF WayOK, Advance
<1>4. CASE GiveUp(o)
  <2>1. CASE OnError(Stage(o), Step(o)) = "stop"
    BY <1>2, <1>4, <2>1 DEF GiveUp
  <2>2. CASE OnError(Stage(o), Step(o)) = "basic"
    BY <1>4, <2>2 DEF WayOK, GiveUp
  <2>3. CASE OnError(Stage(o), Step(o)) = "untyped"
    <3> DEFINE next == 1 + CHOOSE i \in DOMAIN Steps[Stage(o)] : Steps[Stage(o)][i] = "lookup"
    <3>1. at' = [at EXCEPT ![o] = next] /\ todo' = todo /\ result' = result
      BY <1>4, <2>3 DEF GiveUp
    <3> HIDE DEF next
    <3> QED
      BY <3>1 DEF WayOK
  <2>4. CASE OnError(Stage(o), Step(o)) = "fail"
    BY <1>1, <1>4, <2>4 DEF GiveUp
  <2> QED
    BY <1>0, <2>1, <2>2, <2>3, <2>4
<1> QED
  BY <1>1, <1>2, <1>3, <1>4 DEF Move, Go

-----------------------------------------------------------------------------
(* Types *)

\* Nothing runs before Configure.
StartInv == settings = None => \A o \in Ops : todo[o] = <<>> /\ at[o] = 1

\* A timer runs only for an operation that waits for its discovery: neither its answer
\* nor the timer can hit one that has gone on.
DiscoverInv ==
  \A o \in Ops : timer[o] = "running" => Running(o) /\ Step(o) = "discover"

TypeInv == WayOK /\ WorldOK /\ DiscoveryTypeOK /\ CacheInv /\ StartInv /\ DiscoverInv

LEMMA TypesAreTypes == TypeInv => TypeOK
BY DEF TypeInv, TypeOK, WayOK, WorldOK, CacheInv

LEMMA HandlersAre ==
  ASSUME NEW h \in DOMAIN Handlers
  PROVE  Handlers[h] \in Seq(Stages) /\ Handlers[h] # <<>>
<1>1. h \in {"plan", "read", "apply", "delete", "import", "patch", "data"}
  BY DEF Handlers
<1>2. CASE h \in {"plan", "import", "patch", "data"}
  BY <1>2, StagesAre DEF Handlers
<1>3. CASE h \in {"read", "delete"}
  BY <1>3, StagesAre DEF Handlers
<1>4. CASE h = "apply"
  BY <1>4, StagesAre DEF Handlers
<1> QED
  BY <1>1, <1>2, <1>3, <1>4

LEMMA InitTypes == Init => TypeInv
<1> SUFFICES ASSUME Init PROVE TypeInv
  OBVIOUS
<1>1. WayOK
  BY DEF Init, WayOK, Running
<1>2. WorldOK
  BY WorkloadsAssumption DEF Init, WorldOK
<1>3. DiscoveryTypeOK /\ StartInv /\ DiscoverInv
  BY DEF Init, DiscoveryInit, DiscoveryTypeOK, StartInv, DiscoverInv
<1> QED
  BY <1>1, <1>2, <1>3, InitKeepsCaches DEF Init, TypeInv

\* An operation goes on, and its discovery, if there was one, is over.
LEMMA MoveKeepsRest ==
  ASSUME TypeInv, NEW o \in Ops, Running(o), Move(o), settings' = settings,
         timer' \in [Ops -> {"off", "running", "fired"}], timer'[o] # "running",
         \A p \in Ops \ {o} : timer'[p] = timer[p]
  PROVE  WayOK' /\ StartInv' /\ DiscoverInv'
<1>1. WayOK /\ StartInv /\ DiscoverInv
  BY DEF TypeInv
<1>2. WayOK'
  BY <1>1, MoveKeepsWay
<1>3. StartInv'
  BY <1>1 DEF StartInv, Running
<1>4. ASSUME NEW p \in Ops, timer'[p] = "running" PROVE Running(p)' /\ (Step(p) = "discover")'
  <2>1. p # o /\ timer[p] = "running"
    BY <1>4
  <2>2. todo'[p] = todo[p] /\ at'[p] = at[p]
    BY <1>1, <2>1, MoveIsIts
  <2> QED
    BY <1>1, <2>1, <2>2 DEF DiscoverInv, Running, Step, Stage
<1> QED
  BY <1>2, <1>3, <1>4 DEF DiscoverInv

LEMMA StayKeepsRest ==
  ASSUME TypeInv, UNCHANGED <<opVars, settings>>, 
         \A p \in Ops : timer'[p] = "running" => timer[p] = "running"
  PROVE  WayOK' /\ StartInv' /\ DiscoverInv'
<1>1. WayOK'
  BY DEF TypeInv, opVars, WayOK, Running, Stage
<1>2. StartInv'
  BY DEF TypeInv, opVars, StartInv
<1>3. DiscoverInv'
  BY DEF TypeInv, opVars, DiscoverInv, Running, Step, Stage
<1> QED
  BY <1>1, <1>2, <1>3

\* A step that leaves the caches, the discovery and the world alone, but for what it
\* notes of faults.
LEMMA WorldStays ==
  ASSUME WorldOK, UNCHANGED <<worldVars, work>>, faults' \in Nat, own' \subseteq Ops
  PROVE  WorldOK'
BY DEF WorldOK, worldVars

LEMMA FaultIsNat ==
  ASSUME faults \in Nat, Fault \/ NoFault
  PROVE  faults' \in Nat
BY DEF Fault, NoFault

\* An operation that may take a step of a name is at it.
LEMMA AtStep ==
  ASSUME WayOK, NEW o \in Ops, NEW step, At(o, step)
  PROVE  Running(o) /\ Step(o) = step /\ focus[o] = None
BY DEF At

\* An operation that waits for nothing on the network moves on.
LEMMA StepKeepsTypes ==
  ASSUME TypeInv, NEW o \in Ops, Running(o), Step(o) # "discover", Move(o),
         CacheInv', WorldOK', UNCHANGED <<callVars, settings>>
  PROVE  TypeInv'
<1>1. DiscoveryTypeOK'
  BY DEF TypeInv, callVars, DiscoveryTypeOK
<1>2. /\ timer' \in [Ops -> {"off", "running", "fired"}] /\ timer'[o] # "running"
      /\ \A p \in Ops \ {o} : timer'[p] = timer[p]
  BY DEF TypeInv, callVars, DiscoveryTypeOK, DiscoverInv
<1>3. WayOK' /\ StartInv' /\ DiscoverInv'
  BY <1>2, MoveKeepsRest
<1> QED
  BY <1>1, <1>3 DEF TypeInv

\* Nobody moves.
LEMMA PauseKeepsTypes ==
  ASSUME TypeInv, CacheInv', WorldOK', UNCHANGED <<callVars, opVars, settings>>
  PROVE  TypeInv'
<1>1. DiscoveryTypeOK' /\ WayOK' /\ StartInv' /\ DiscoverInv'
  BY StayKeepsRest DEF TypeInv, callVars, DiscoveryTypeOK
<1> QED
  BY <1>1 DEF TypeInv

LEMMA ConfigureKeepsTypes == TypeInv /\ Configure => TypeInv'
<1> SUFFICES ASSUME TypeInv, Configure PROVE TypeInv'
  OBVIOUS
<1>1. CacheInv' /\ DiscoveryTypeOK'
  BY RestKeepsCaches DEF TypeInv, Configure, callVars, DiscoveryTypeOK
<1>2. WorldOK'
  BY DEF TypeInv, Configure, WorldOK, worldVars
<1>3. work.calls \in [Ops -> CallType \cup {None}] /\ settings' # None
  BY WorkloadsAssumption DEF TypeInv, WorldOK, Configure
<1>4. ASSUME NEW o \in Ops PROVE todo'[o] \in Seq(Stages)
  BY <1>3, HandlersAre DEF Configure, CallType
<1>5. \A o \in Ops : at'[o] = 1
  BY DEF TypeInv, StartInv, Configure
<1>6. todo' \in [Ops -> Seq(Stages)]
  <2>1. DOMAIN todo' = Ops /\ todo' = [o \in Ops |-> todo'[o]]
    BY DEF Configure
  <2> QED
    BY <1>4, <2>1
<1>7. ASSUME NEW o \in Ops, todo'[o] # <<>> PROVE at'[o] \in 1..Len(Steps[Head(todo'[o])])
  <2>1. Head(todo'[o]) \in Stages
    BY <1>4, <1>7
  <2>2. 1 \in 1..Len(Steps[Head(todo'[o])])
    BY <2>1, StepsLen, Zenon
  <2> QED
    BY <1>5, <2>2, Zenon
<1>8. WayOK'
  BY <1>6, <1>7 DEF TypeInv, Configure, WayOK, Running, Stage
<1>9. StartInv'
  BY <1>3 DEF StartInv
<1>10. DiscoverInv'
  <2>1. \A o \in Ops : timer[o] # "running"
    BY DEF TypeInv, DiscoverInv, StartInv, Configure, Running
  <2> QED
    BY <2>1 DEF DiscoverInv, Configure, callVars
<1> QED
  BY <1>1, <1>2, <1>8, <1>9, <1>10 DEF TypeInv

LEMMA PublishKeepsTypes == ASSUME NEW k \in Kinds, TypeInv, Publish(k) PROVE TypeInv'
<1>1. CacheInv'
  BY RestKeepsCaches DEF TypeInv, Publish
<1>2. WorldOK'
  BY DEF TypeInv, Publish, WorldOK
<1> QED
  BY <1>1, <1>2, PauseKeepsTypes DEF Publish

LEMMA GetKeepsTypes == ASSUME NEW o \in Ops, TypeInv, Get(o) PROVE TypeInv'
<1>1. PICK c \in Caches :
        /\ At(o, c)
        /\ \/ Begin(o, c) /\ UNCHANGED opVars
           \/ once[c] \in {"ok", "err"} /\ Go(o, once[c]) /\ UNCHANGED cacheVars
        /\ UNCHANGED <<callVars, worldVars, work, settings, faults, own>>
  BY DEF Get
<1>2. WayOK /\ WorldOK /\ CacheInv
  BY DEF TypeInv
<1>3. WorldOK'
  BY <1>1, <1>2, WorldStays DEF WorldOK
<1>4. Running(o) /\ Step(o) = c /\ focus[o] = None /\ c # "discover"
  BY <1>1, <1>2 DEF At, Caches
<1>5. CASE Begin(o, c) /\ UNCHANGED opVars
  <2>1. CacheInv'
    BY <1>2, <1>4, <1>5, BeginKeepsCaches
  <2> QED
    BY <1>1, <1>3, <1>5, <2>1, PauseKeepsTypes
<1>6. CASE once[c] \in {"ok", "err"} /\ Go(o, once[c]) /\ UNCHANGED cacheVars
  <2>1. CacheInv'
    BY <1>2, <1>6, RestKeepsCaches
  <2>2. Move(o)
    BY <1>6 DEF Move
  <2> QED
    BY <1>1, <1>3, <1>4, <2>1, <2>2, StepKeepsTypes
<1> QED
  BY <1>1, <1>5, <1>6

\* The steps at which a value is made.
LEMMA MakingKeepsTypes ==
  ASSUME NEW o \in Ops, TypeInv,
         AskNext(o) \/ MakeLocal(o) \/ MakeRestConfig(o) \/ MakeFromCluster(o)
  PROVE  TypeInv'
<1>1. WorldOK /\ CacheInv
  BY DEF TypeInv
<1>2. CASE AskNext(o)
  <2>1. CacheInv' /\ WorldOK'
    BY <1>1, <1>2, AskKeepsCaches, WorldStays DEF AskNext, WorldOK
  <2> QED
    BY <1>2, <2>1, PauseKeepsTypes DEF AskNext
<1>3. CASE MakeLocal(o)
  <2>1. CacheInv' /\ WorldOK'
    BY <1>1, <1>3, MakeKeepsCaches, WorldStays DEF MakeLocal, WorldOK
  <2> QED
    BY <1>3, <2>1, PauseKeepsTypes DEF MakeLocal
<1>4. CASE MakeRestConfig(o)
  <2>1. CacheInv'
    BY <1>1, <1>4, MakeKeepsCaches DEF MakeRestConfig, Bool
  <2>2. WorldOK'
    BY <1>1, <1>4 DEF MakeRestConfig, WorldOK
  <2> QED
    BY <1>4, <2>1, <2>2, PauseKeepsTypes DEF MakeRestConfig
<1>5. CASE MakeFromCluster(o)
  <2>1. CacheInv'
    BY <1>1, <1>5, MakeKeepsCaches DEF MakeFromCluster
  <2>2. WorldOK'
    <3>1. faults' \in Nat
      BY <1>1, <1>5, FaultIsNat DEF MakeFromCluster, WorldOK
    <3>2. view' \in [Views -> SUBSET Kinds]
      BY <1>1, <1>5 DEF MakeFromCluster, WorldOK
    <3> QED
      BY <1>1, <1>5, <3>1, <3>2 DEF MakeFromCluster, WorldOK
  <2> QED
    BY <1>5, <2>1, <2>2, PauseKeepsTypes DEF MakeFromCluster
<1> QED
  BY <1>2, <1>3, <1>4, <1>5

LEMMA MapKeepsTypes == ASSUME NEW o \in Ops, TypeInv, Map(o) PROVE TypeInv'
<1>1. WayOK /\ WorldOK /\ CacheInv
  BY DEF TypeInv
<1>2. UNCHANGED <<callVars, settings>>
  BY DEF Map
<1>3. WorldOK'
  <2>1. faults' \in Nat
    BY <1>1, FaultIsNat DEF Map, WorldOK
  <2>2. view' \in [Views -> SUBSET Kinds] /\ mapped' \in BOOLEAN /\ own' \subseteq Ops
    BY <1>1 DEF Map, WorldOK
  <2> QED
    BY <1>1, <2>1, <2>2 DEF Map, WorldOK
<1>4. CASE UNCHANGED <<cacheVars, opVars>>
  BY <1>1, <1>2, <1>3, <1>4, RestKeepsCaches, PauseKeepsTypes
<1>5. CASE focus[o] = "crds" /\ Make(o, "err") /\ UNCHANGED opVars
  BY <1>1, <1>2, <1>3, <1>5, MakeKeepsCaches, PauseKeepsTypes
<1>6. CASE focus[o] = None /\ GiveUp(o) /\ UNCHANGED cacheVars
  <2>1. At(o, "mapping")
    BY <1>6, NoneAssumption DEF Map, Caches
  <2>2. Running(o) /\ Step(o) = "mapping" /\ Move(o)
    BY <1>6, <2>1 DEF At, Move
  <2> QED
    BY <1>1, <1>2, <1>3, <1>6, <2>2, RestKeepsCaches, StepKeepsTypes
<1> QED
  BY <1>4, <1>5, <1>6 DEF Map

LEMMA MappedKeepsTypes ==
  ASSUME NEW o \in Ops, TypeInv,
         Defer(o) \/ Mapping(o) \/ Lookup(o) \/ Convert(o) \/ Call(o)
  PROVE  TypeInv'
<1>1. WayOK /\ WorldOK /\ CacheInv
  BY DEF TypeInv
<1>2. Running(o) /\ Step(o) # "discover"
  <2>1. CASE Defer(o)
    <3>1. Running(o) /\ Stage(o) = "data" /\ at[o] = 1
      BY <2>1 DEF Defer
    <3>2. Step(o) = "restMapper"
      BY <3>1 DEF Step, Steps
    <3> QED
      BY <3>1, <3>2
  <2> QED
    BY <2>1 DEF Mapping, Lookup, Convert, Call, At
<1>3. Move(o)
  BY DEF Defer, Mapping, Lookup, Convert, Call, Move, Bool
<1>4. UNCHANGED <<cacheVars, callVars, worldVars, work, settings>>
  BY DEF Defer, Mapping, Lookup, Convert, Call
<1>5. faults' \in Nat /\ own' \subseteq Ops
  BY <1>1, FaultIsNat DEF Defer, Mapping, Lookup, Convert, Call, WorldOK, NoFault
<1> QED
  BY <1>1, <1>2, <1>3, <1>4, <1>5, WorldStays, RestKeepsCaches, StepKeepsTypes

LEMMA DiscoveryKeepsTypes ==
  ASSUME NEW o \in Ops, TypeInv,
         \/ Discover(o) \/ Discovered(o) \/ TimedOut(o)
         \/ DiscoveryRuns(o) \/ ServerSilent(o) \/ ServerAnswers(o)
  PROVE  TypeInv'
<1>1. WayOK /\ WorldOK /\ CacheInv /\ DiscoveryTypeOK /\ StartInv /\ DiscoverInv
  BY DEF TypeInv
<1>2. UNCHANGED <<cacheVars, worldVars, work, settings>>
  BY DEF Discover, Discovered, TimedOut, DiscoveryRuns, ServerSilent, ServerAnswers
<1>3. faults' \in Nat /\ own' \subseteq Ops
  <2>1. faults' \in Nat
    BY <1>1, FaultIsNat DEF Discover, Discovered, TimedOut, DiscoveryRuns, ServerSilent,
         ServerAnswers, WorldOK, NoFault
  <2> QED
    BY <1>1, <2>1 DEF Discover, Discovered, TimedOut, DiscoveryRuns, ServerSilent,
         ServerAnswers, WorldOK
<1>4. CacheInv' /\ WorldOK'
  BY <1>1, <1>2, <1>3, RestKeepsCaches, WorldStays
<1>5. DiscoveryTypeOK'
  <2>1. CASE Discover(o)
    BY <1>1, <2>1 DEF Discover, Start, DiscoveryTypeOK, Looks
  <2>2. CASE Discovered(o)
    BY <1>1, <2>2 DEF Discovered, Receive, DiscoveryTypeOK
  <2>3. CASE TimedOut(o)
    BY <1>1, <2>3 DEF TimedOut, TimerFires, DiscoveryTypeOK
  <2>4. CASE DiscoveryRuns(o)
    BY <1>1, <2>4 DEF DiscoveryRuns, Look, LookFails, Found, DiscoveryTypeOK, Looks, Answers
  <2>5. CASE ServerSilent(o) \/ ServerAnswers(o)
    BY <1>1, <2>5 DEF ServerSilent, ServerAnswers, Hang, Wake, DiscoveryTypeOK
  <2> QED
    BY <2>1, <2>2, <2>3, <2>4, <2>5
<1>6. WayOK' /\ StartInv' /\ DiscoverInv'
  <2>1. CASE Discover(o)
    <3>1. WayOK' /\ StartInv'
      BY <1>1, <1>2, <2>1 DEF Discover, opVars, WayOK, StartInv, Running, Stage
    <3>2. DiscoverInv'
      BY <1>1, <2>1 DEF Discover, Start, At, opVars, DiscoverInv, DiscoveryTypeOK, Running,
           Step, Stage
    <3> QED
      BY <3>1, <3>2
  <2>2. CASE Discovered(o)
    <3>1. Running(o) /\ Move(o)
      BY <1>1, <2>2 DEF Discovered, Receive, DiscoverInv, Move, Bool
    <3>2. /\ timer' \in [Ops -> {"off", "running", "fired"}] /\ timer'[o] # "running"
          /\ \A p \in Ops \ {o} : timer'[p] = timer[p]
      BY <1>1, <2>2 DEF Discovered, Receive, DiscoveryTypeOK
    <3> QED
      BY <1>2, <3>1, <3>2, MoveKeepsRest
  <2>3. CASE TimedOut(o)
    <3>1. Running(o) /\ Move(o)
      BY <1>1, <2>3 DEF TimedOut, TimerFires, DiscoverInv, Move
    <3>2. /\ timer' \in [Ops -> {"off", "running", "fired"}] /\ timer'[o] # "running"
          /\ \A p \in Ops \ {o} : timer'[p] = timer[p]
      BY <1>1, <2>3 DEF TimedOut, TimerFires, DiscoveryTypeOK
    <3> QED
      BY <1>2, <3>1, <3>2, MoveKeepsRest
  <2>4. CASE DiscoveryRuns(o) \/ ServerSilent(o) \/ ServerAnswers(o)
    BY <1>2, <2>4, StayKeepsRest DEF DiscoveryRuns, ServerSilent, ServerAnswers, Look,
         LookFails, Hang, Wake
  <2> QED
    BY <2>1, <2>2, <2>3, <2>4
<1> QED
  BY <1>4, <1>5, <1>6 DEF TypeInv

LEMMA NextTypes == TypeInv /\ [Next]_vars => TypeInv'
<1> SUFFICES ASSUME TypeInv, [Next]_vars PROVE TypeInv'
  OBVIOUS
<1>1. CASE Configure
  BY <1>1, ConfigureKeepsTypes
<1>2. CASE \E k \in Kinds : Publish(k)
  BY <1>2, PublishKeepsTypes
<1>3. ASSUME NEW o \in Ops, Runs(o) PROVE TypeInv'
  BY <1>3, GetKeepsTypes, MakingKeepsTypes, MapKeepsTypes, MappedKeepsTypes,
     DiscoveryKeepsTypes DEF Runs
<1>4. ASSUME NEW o \in Ops,
             DiscoveryRuns(o) \/ ServerSilent(o) \/ ServerAnswers(o) \/ TimedOut(o)
      PROVE  TypeInv'
  BY <1>4, DiscoveryKeepsTypes
<1>5. CASE UNCHANGED vars
  <2>1. CacheInv' /\ WorldOK'
    BY <1>5, RestKeepsCaches, WorldStays DEF TypeInv, vars, WorldOK
  <2> QED
    BY <1>5, <2>1, PauseKeepsTypes DEF vars
<1> QED
  BY <1>1, <1>2, <1>3, <1>4, <1>5 DEF Next, Ended

\* Every variable keeps its type: among other things, an operation that runs is always
\* at a step of its stage, whatever has failed before.
THEOREM TypeCorrect == Spec => []TypeOK
<1>1. Init => TypeInv
  BY InitTypes
<1>2. TypeInv /\ [Next]_vars => TypeInv'
  BY NextTypes
<1> QED
  BY <1>1, <1>2, TypesAreTypes, PTL DEF Spec

\* The locks of the caches are never waited for in a circle: whenever a client is being
\* made, an operation that makes one can go on, however many ask for which of them at
\* the same time (cache.go, the get... functions of clients.go).
THEOREM NeverCircular == Spec => []NoCircularWait
<1>1. Init => TypeInv
  BY InitTypes
<1>2. TypeInv /\ [Next]_vars => TypeInv'
  BY NextTypes
<1>3. TypeInv => NoCircularWait
  BY SomeoneGoesOn DEF TypeInv, NoCircularWait, Busy
<1> QED
  BY <1>1, <1>2, <1>3, PTL DEF Spec

-----------------------------------------------------------------------------
(* What an operation can fail of *)

\* The stages that an operation of a handler may come to.
HandlerStages(h) ==
  CASE h = "plan"   -> {"plan"}
    [] h = "read"   -> {"typed", "basic", "check"}
    [] h = "apply"  -> {"write", "typed", "basic", "wait"}
    [] h = "delete" -> {"write", "poll"}
    [] h = "import" -> {"import", "basic"}
    [] h = "patch"  -> {"patch"}
    [] h = "data"   -> {"data"}
    [] OTHER        -> {}

HandlerInv ==
  \A o \in Ops : \A i \in 1..Len(todo[o]) :
    todo[o][i] \in HandlerStages(work.calls[o].handler)

\* What FailuresAreContained accepts as the reason of a failure.
Contained(o) ==
  \/ once["restConfig"] = "err"
  \/ o \in own
  \/ /\ work.calls[o].handler \in {"apply", "import", "data"}
     /\ mapped /\ KindOf(o) \notin view["restMapper"]

FailInv == TypeInv /\ ErrorInv /\ HandlerInv /\ FailuresAreContained

\* A reason stays one.
Stable ==
  /\ Kept /\ own \subseteq own' /\ work' = work
  /\ mapped => mapped' /\ view'["restMapper"] = view["restMapper"]

LEMMA ReasonsStay ==
  ASSUME Stable, NEW o, Contained(o)
  PROVE  Contained(o)'
BY DEF Stable, Contained, Kept, KindOf, Caches

LEMMA StableStep == FailInv /\ [Next]_vars => Stable /\ ErrorInv'
<1> SUFFICES ASSUME FailInv, [Next]_vars PROVE Stable /\ ErrorInv'
  OBVIOUS
<1>1. CacheInv /\ ErrorInv /\ WorldOK
  BY DEF FailInv, TypeInv
<1>2. CASE UNCHANGED once
  <2>1. Kept /\ ErrorInv'
    BY <1>1, <1>2 DEF Kept, ErrorInv
  <2>2. own \subseteq own' /\ work' = work
    BY DEF Next, Configure, Publish, Runs, Defer, Get, AskNext, MakeLocal, MakeRestConfig,
       MakeFromCluster, Map, Mapping, Lookup, Convert, Call, Discover, Discovered,
       DiscoveryRuns, ServerSilent, ServerAnswers, TimedOut, Ended, vars
  <2>3. mapped => mapped' /\ view'["restMapper"] = view["restMapper"]
    BY <1>1 DEF Next, Configure, Publish, Runs, Defer, Get, AskNext, MakeLocal,
       MakeRestConfig, MakeFromCluster, Map, Mapping, Lookup, Convert, Call, Discover,
       Discovered, DiscoveryRuns, ServerSilent, ServerAnswers, TimedOut, Ended, vars,
       worldVars, WorldOK, Views
  <2> QED
    BY <2>1, <2>2, <2>3 DEF Stable
<1>3. ASSUME NEW o \in Ops, Get(o), once' # once PROVE Stable /\ ErrorInv'
  <2>1. PICK c \in Caches : Begin(o, c)
    BY <1>3 DEF Get, cacheVars
  <2> QED
    BY <1>1, <1>3, <2>1, BeginKeepsErrors DEF Get, worldVars, Stable
<1>4. ASSUME NEW o \in Ops, AskNext(o) PROVE Stable /\ ErrorInv'
  BY <1>1, <1>4, AskKeepsErrors DEF AskNext, worldVars, Stable
<1>5. ASSUME NEW o \in Ops, MakeLocal(o) PROVE Stable /\ ErrorInv'
  <2>1. Kept /\ ErrorInv'
    BY <1>1, <1>5, MakeKeepsErrors DEF MakeLocal
  <2> QED
    BY <1>5, <2>1 DEF MakeLocal, worldVars, Stable
<1>6. ASSUME NEW o \in Ops, MakeRestConfig(o) PROVE Stable /\ ErrorInv'
  <2>1. Kept /\ ErrorInv'
    BY <1>1, <1>6, MakeKeepsErrors DEF MakeRestConfig, Bool
  <2> QED
    BY <1>6, <2>1 DEF MakeRestConfig, Stable
<1>7. ASSUME NEW o \in Ops, MakeFromCluster(o) PROVE Stable /\ ErrorInv'
  <2>1. Kept /\ ErrorInv'
    BY <1>1, <1>7, MakeKeepsErrors DEF MakeFromCluster, FromCluster
  <2>2. view'["restMapper"] = view["restMapper"]
    BY <1>1, <1>7 DEF MakeFromCluster, WorldOK, Views
  <2> QED
    BY <1>7, <2>1, <2>2 DEF MakeFromCluster, Stable
<1>8. ASSUME NEW o \in Ops, Map(o), once' # once PROVE Stable /\ ErrorInv'
  <2>1. focus[o] = "crds" /\ Make(o, "err") /\ own' = own
    BY <1>8 DEF Map, cacheVars
  <2>2. Kept /\ ErrorInv'
    BY <1>1, <2>1, MakeKeepsErrors DEF FromCluster
  <2> QED
    BY <1>8, <2>1, <2>2 DEF Map, Stable
<1> QED
  BY <1>2, <1>3, <1>4, <1>5, <1>6, <1>7, <1>8 DEF Next, Configure, Publish, Runs, Defer,
     Mapping, Lookup, Convert, Call, Discover, Discovered, DiscoveryRuns, ServerSilent,
     ServerAnswers, TimedOut, Ended, vars, cacheVars

LEMMA MoveKeepsHandlers ==
  ASSUME WayOK, HandlerInv, NEW o \in Ops, Running(o), Move(o), work' = work
  PROVE  HandlerInv'
<1> DEFINE mine == HandlerStages(work.calls[o].handler)
<1>0. OnError(Stage(o), Step(o)) \in {"stop", "basic", "untyped", "fail"}
  BY DEF OnError
<1>1. \A i \in 1..Len(todo[o]) : todo[o][i] \in mine
  BY DEF HandlerInv
<1>2. SUFFICES \A i \in 1..Len(todo'[o]) : todo'[o][i] \in mine
  BY MoveIsIts DEF HandlerInv
<1> HIDE DEF mine
<1>3. CASE todo' = todo
  BY <1>1, <1>3
<1>4. CASE todo' = [todo EXCEPT ![o] = <<>>]
  BY <1>4 DEF WayOK
<1>5. CASE todo' = [todo EXCEPT ![o] = Tail(@)]
  <2>1. todo'[o] = Tail(todo[o]) /\ todo[o] \in Seq(Stages) /\ todo[o] # <<>>
    BY <1>5, WhereItIs DEF WayOK
  <2>2. \A i \in 1..Len(Tail(todo[o])) :
          i + 1 \in 1..Len(todo[o]) /\ Tail(todo[o])[i] = todo[o][i + 1]
    BY <2>1
  <2> QED
    BY <1>1, <2>1, <2>2
<1>6. CASE OnError(Stage(o), Step(o)) = "basic" /\ todo' = [todo EXCEPT ![o][1] = "basic"]
  <2>1. Stage(o) \in {"typed", "import"} /\ Stage(o) = todo[o][1] /\ 1 \in 1..Len(todo[o])
    BY <1>6, WhereItIs DEF OnError
  <2>2. "basic" \in mine
    BY <1>1, <2>1 DEF mine, HandlerStages
  <2>3. todo'[o] = [todo[o] EXCEPT ![1] = "basic"] /\ todo[o] \in Seq(Stages)
    BY <1>6 DEF WayOK
  <2> QED
    BY <1>1, <2>2, <2>3
<1>7. CASE LeaveStage(o)
  BY <1>4, <1>5, <1>7 DEF LeaveStage, End
<1>8. CASE Advance(o)
  BY <1>3, <1>7, <1>8 DEF Advance
<1>9. CASE GiveUp(o)
  <2>1. CASE OnError(Stage(o), Step(o)) = "stop"
    BY <1>7, <1>9, <2>1 DEF GiveUp
  <2>2. CASE OnError(Stage(o), Step(o)) = "basic"
    BY <1>6, <1>9, <2>2 DEF GiveUp
  <2>3. CASE OnError(Stage(o), Step(o)) = "untyped"
    BY <1>3, <1>9, <2>3 DEF GiveUp
  <2>4. CASE OnError(Stage(o), Step(o)) = "fail"
    BY <1>4, <1>9, <2>4 DEF GiveUp, End
  <2> QED
    BY <1>0, <2>1, <2>2, <2>3, <2>4
<1> QED
  BY <1>4, <1>7, <1>8, <1>9 DEF Move, Go, End

\* An operation fails only by giving up at a step it cannot do without.
LEMMA AdvanceDoesNotFail ==
  ASSUME WayOK, NEW o \in Ops, LeaveStage(o) \/ Advance(o) \/ End(o, "null"),
         result'[o] = "failed"
  PROVE  result[o] = "failed"
BY DEF LeaveStage, Advance, End, WayOK

LEMMA GiveUpFails ==
  ASSUME WayOK, NEW o \in Ops, Running(o), GiveUp(o), result'[o] = "failed"
  PROVE  \/ result[o] = "failed"
         \/ /\ Stage(o) \in {"basic", "write", "patch"}
            /\ Step(o) \in {"mainClientset", "restConfig", "discover", "call"}
         \/ /\ Stage(o) \in {"import", "data", "wait"}
            /\ Step(o) \in {"restMapper", "dynamicClient", "mapping", "get"}
<1>0. OnError(Stage(o), Step(o)) \in {"stop", "basic", "untyped", "fail"}
  BY DEF OnError
<1>1. CASE OnError(Stage(o), Step(o)) = "fail"
  BY <1>1, WhereItIs, FatalSteps DEF Step
<1>2. CASE OnError(Stage(o), Step(o)) = "stop"
  BY <1>2, AdvanceDoesNotFail DEF GiveUp
<1>3. CASE OnError(Stage(o), Step(o)) \in {"basic", "untyped"}
  BY <1>3 DEF GiveUp
<1> QED
  BY <1>0, <1>1, <1>2, <1>3

\* A step of o that fails only for a reason.
LEMMA MoveIsContained ==
  ASSUME FailInv, Stable, NEW o \in Ops, Running(o), Move(o),
         result'[o] = "failed" => result[o] = "failed" \/ Contained(o)'
  PROVE  HandlerInv' /\ FailuresAreContained'
<1>1. HandlerInv'
  BY MoveKeepsHandlers DEF FailInv, TypeInv, Stable
<1>2. ASSUME NEW p \in Ops, result'[p] = "failed" PROVE Contained(p)'
  <2>1. result[p] = "failed" => Contained(p)
    BY DEF FailInv, FailuresAreContained, Contained
  <2>2. result[p] = "failed" \/ (p = o /\ Contained(o)')
    BY <1>2, MoveIsIts DEF FailInv, TypeInv
  <2> QED
    BY <2>1, <2>2, ReasonsStay
<1>3. FailuresAreContained'
  BY <1>2 DEF FailuresAreContained, Contained
<1> QED
  BY <1>1, <1>3

LEMMA PauseIsContained ==
  ASSUME FailInv, Stable, UNCHANGED opVars
  PROVE  HandlerInv' /\ FailuresAreContained'
<1>1. HandlerInv'
  BY DEF FailInv, HandlerInv, Stable, opVars
<1>2. ASSUME NEW p \in Ops, result'[p] = "failed" PROVE Contained(p)'
  <2>1. result[p] = "failed" /\ Contained(p)
    BY <1>2 DEF FailInv, FailuresAreContained, Contained, opVars
  <2> QED
    BY <2>1, ReasonsStay
<1> QED
  BY <1>1, <1>2 DEF FailuresAreContained, Contained

\* The steps that end with the answer of a call of o's own.
LEMMA OwnIsContained ==
  ASSUME FailInv, Stable, NEW o \in Ops, Call(o) \/ Discovered(o) \/ TimedOut(o)
  PROVE  HandlerInv' /\ FailuresAreContained'
<1>1. Running(o)
  BY DEF FailInv, TypeInv, DiscoverInv, Call, At, Discovered, Receive, TimedOut, TimerFires
<1>2. Advance(o) \/ (GiveUp(o) /\ o \in own')
  BY DEF Call, Discovered, TimedOut, Go, Bool
<1>3. Move(o)
  BY <1>2 DEF Move
<1>4. result'[o] = "failed" => result[o] = "failed" \/ Contained(o)'
  BY <1>2, AdvanceDoesNotFail DEF FailInv, TypeInv, Contained
<1> QED
  BY <1>1, <1>3, <1>4, MoveIsContained

LEMMA FailNext == FailInv /\ [Next]_vars => FailInv'
<1> SUFFICES ASSUME FailInv, [Next]_vars PROVE FailInv'
  OBVIOUS
<1>1. TypeInv' /\ Stable /\ ErrorInv'
  BY NextTypes, StableStep DEF FailInv
<1>2. WayOK /\ ErrorInv /\ HandlerInv
  BY DEF FailInv, TypeInv
<1>3. SUFFICES HandlerInv' /\ FailuresAreContained'
  BY <1>1 DEF FailInv
<1>4. CASE UNCHANGED opVars
  BY <1>1, <1>4, PauseIsContained
<1>5. CASE Configure
  <2>1. \A o \in Ops : result'[o] = result[o]
    BY <1>5 DEF Configure
  <2>2. FailuresAreContained'
    BY <1>1, <2>1, ReasonsStay DEF FailInv, FailuresAreContained, Contained
  <2>3. work.calls \in [Ops -> CallType \cup {None}] /\ work' = work
    BY <1>1, WorkloadsAssumption DEF FailInv, TypeInv, WorldOK, Stable
  <2>4. \A h \in DOMAIN Handlers : \A i \in 1..Len(Handlers[h]) :
          Handlers[h][i] \in HandlerStages(h)
    BY DEF Handlers, HandlerStages
  <2>5. HandlerInv'
    BY <1>5, <2>3, <2>4 DEF Configure, HandlerInv, CallType
  <2> QED
    BY <2>2, <2>5
<1>6. ASSUME NEW o \in Ops, Defer(o) PROVE HandlerInv' /\ FailuresAreContained'
  <2>1. Running(o) /\ Move(o)
    BY <1>6 DEF Defer, Move
  <2>2. result'[o] = "failed" => result[o] = "failed"
    BY <1>2, <1>6, AdvanceDoesNotFail DEF Defer
  <2> QED
    BY <1>1, <2>1, <2>2, MoveIsContained
<1>7. ASSUME NEW o \in Ops, Get(o), ~UNCHANGED opVars
      PROVE  HandlerInv' /\ FailuresAreContained'
  <2>1. PICK c \in Caches : /\ At(o, c) /\ once[c] \in {"ok", "err"} /\ Go(o, once[c])
                           /\ once' = once
    BY <1>7 DEF Get, cacheVars
  <2>2. Running(o) /\ Step(o) = c /\ Move(o)
    BY <2>1 DEF At, Move
  <2>3. ASSUME result'[o] = "failed", result[o] # "failed" PROVE Contained(o)'
    <3>1. GiveUp(o) /\ once[c] = "err"
      BY <1>2, <2>1, <2>3, AdvanceDoesNotFail DEF Go
    <3>2. c \in {"mainClientset", "restConfig", "restMapper", "dynamicClient"}
      BY <1>2, <2>2, <2>3, <3>1, GiveUpFails DEF Caches
    <3>3. once["restConfig"] = "err"
      BY <1>2, <3>1, <3>2 DEF ErrorInv, FromCluster, Caches
    <3> QED
      BY <2>1, <3>3 DEF Contained
  <2> QED
    BY <1>1, <2>2, <2>3, MoveIsContained
<1>8. ASSUME NEW o \in Ops, Mapping(o) PROVE HandlerInv' /\ FailuresAreContained'
  <2>1. Running(o) /\ Step(o) = "mapping" /\ Move(o) /\ mapped
    BY <1>8 DEF Mapping, At, Move, Bool
  <2>2. ASSUME result'[o] = "failed", result[o] # "failed" PROVE Contained(o)'
    <3>1. GiveUp(o) /\ KindOf(o) \notin view["restMapper"]
      BY <1>2, <1>8, <2>2, AdvanceDoesNotFail DEF Mapping, Go, Bool
    <3>2. Stage(o) \in {"import", "data", "wait"}
      BY <1>2, <2>1, <2>2, <3>1, GiveUpFails
    <3>3. Stage(o) \in HandlerStages(work.calls[o].handler)
      BY <1>2, <2>1, WhereItIs DEF HandlerInv
    <3>4. work.calls[o].handler \in {"apply", "import", "data"}
      BY <3>2, <3>3 DEF HandlerStages
    <3>5. Contained(o)
      BY <2>1, <3>1, <3>4 DEF Contained
    <3> QED
      BY <1>1, <3>5, ReasonsStay
  <2> QED
    BY <1>1, <2>1, <2>2, MoveIsContained
<1>9. ASSUME NEW o \in Ops, Lookup(o) \/ Convert(o)
      PROVE  HandlerInv' /\ FailuresAreContained'
  <2>1. Running(o) /\ Step(o) \in {"lookup", "convert"} /\ Move(o)
    BY <1>9 DEF Lookup, Convert, At, Move, Bool
  <2>2. Advance(o) \/ GiveUp(o)
    BY <1>9 DEF Lookup, Convert, Go
  <2>3. result'[o] = "failed" => result[o] = "failed"
    BY <1>2, <2>1, <2>2, AdvanceDoesNotFail, GiveUpFails
  <2> QED
    BY <1>1, <2>1, <2>3, MoveIsContained
<1>10. ASSUME NEW o \in Ops, Map(o), ~UNCHANGED opVars
       PROVE  HandlerInv' /\ FailuresAreContained'
  <2>1. focus[o] = None /\ GiveUp(o) /\ o \in own'
    BY <1>10 DEF Map
  <2>2. Running(o) /\ Move(o)
    BY <1>10, <2>1, NoneAssumption DEF Map, At, Caches, Move
  <2>3. Contained(o)'
    BY <2>1 DEF Contained
  <2> QED
    BY <1>1, <2>2, <2>3, MoveIsContained
<1>11. ASSUME NEW o \in Ops, Call(o) \/ Discovered(o) \/ TimedOut(o)
       PROVE  HandlerInv' /\ FailuresAreContained'
  BY <1>1, <1>11, OwnIsContained
<1> QED
  BY <1>4, <1>5, <1>6, <1>7, <1>8, <1>9, <1>10, <1>11 DEF Next, Publish, Runs, AskNext,
     MakeLocal, MakeRestConfig, MakeFromCluster, Discover, DiscoveryRuns, ServerSilent,
     ServerAnswers, Ended, vars

LEMMA InitFail == Init => FailInv
<1> SUFFICES ASSUME Init PROVE FailInv
  OBVIOUS
<1>1. TypeInv
  BY InitTypes
<1>2. ErrorInv
  BY DEF Init, CacheInit, ErrorInv, Caches
<1>3. HandlerInv /\ FailuresAreContained
  BY DEF Init, HandlerInv, FailuresAreContained
<1> QED
  BY <1>1, <1>2, <1>3 DEF FailInv

\* An operation fails only because the configuration leads nowhere, because a call of its
\* own failed, or because the mapper does not know its kind: never of the error of an
\* OpenAPI document or of a list of CRDs, which is kept for the life of the process
\* (cache.go, and the fallbacks of Read, ImportState, the waits and the data source).
THEOREM ErrorsAreContained == Spec => []FailuresAreContained
<1>1. Init => FailInv
  BY InitFail
<1>2. FailInv /\ [Next]_vars => FailInv'
  BY FailNext
<1>3. FailInv => FailuresAreContained
  BY DEF FailInv
<1> QED
  BY <1>1, <1>2, <1>3, PTL DEF Spec

-----------------------------------------------------------------------------
(* The cluster that the block names *)

\* What the provider works with comes of its block and its environment, and nothing is
\* made before they are known.
ConfigInv ==
  /\ settings # None => settings = Resolve(work.block, work.env)
  /\ target # NoTarget => settings # None /\ target = Target(settings)
  /\ \A o \in Ops : focus[o] # None => settings # None

LEMMA ConfigNext == TypeInv /\ ConfigInv /\ [Next]_vars => ConfigInv'
<1> SUFFICES ASSUME TypeInv, ConfigInv, [Next]_vars PROVE ConfigInv'
  OBVIOUS
<1>1. work \in Workloads /\ Resolve(work.block, work.env) # None
  BY WorkloadsAssumption DEF TypeInv, WorldOK
<1>2. CASE Configure
  BY <1>1, <1>2 DEF Configure, ConfigInv, cacheVars, worldVars
<1>3. ASSUME NEW o \in Ops, MakeRestConfig(o) PROVE ConfigInv'
  <2>1. settings # None /\ settings' = settings /\ work' = work
    BY <1>3, NoneAssumption DEF MakeRestConfig, ConfigInv, Caches
  <2>2. target' = Target(settings)
    BY <1>3 DEF MakeRestConfig
  <2> QED
    BY <2>1, <2>2 DEF ConfigInv
<1>4. ASSUME UNCHANGED <<settings, target, work>>,
             settings = None => \A o \in Ops : focus'[o] = focus[o]
      PROVE  ConfigInv'
  BY <1>4 DEF ConfigInv
<1>5. ASSUME NEW o \in Ops, Runs(o), ~MakeRestConfig(o) PROVE ConfigInv'
  <2>1. UNCHANGED <<settings, target, work>>
    BY <1>5 DEF Runs, Defer, Get, AskNext, MakeLocal, MakeFromCluster, Map, Mapping, Lookup,
       Convert, Call, Discover, Discovered, worldVars
  <2>2. settings # None
    <3>1. Running(o) => settings # None
      BY DEF TypeInv, StartInv, Running
    <3>2. focus[o] # None => settings # None
      BY DEF ConfigInv
    <3>3. Running(o) \/ focus[o] # None
      BY <1>5, NoneAssumption DEF Runs, Defer, Get, AskNext, MakeLocal, MakeFromCluster, Map,
         Mapping, Lookup, Convert, Call, Discover, Discovered, At, Ask, Make, Receive,
         TypeInv, DiscoverInv, Caches
    <3> QED
      BY <3>1, <3>2, <3>3
  <2> QED
    BY <1>4, <2>1, <2>2
<1>6. ASSUME NEW o \in Ops, DiscoveryRuns(o) \/ ServerSilent(o) \/ ServerAnswers(o)
                            \/ TimedOut(o)
      PROVE  ConfigInv'
  BY <1>4, <1>6 DEF DiscoveryRuns, ServerSilent, ServerAnswers, TimedOut, cacheVars, worldVars
<1>7. CASE (\E k \in Kinds : Publish(k)) \/ Ended \/ UNCHANGED vars
  BY <1>4, <1>7 DEF Publish, Ended, vars, cacheVars, worldVars
<1> QED
  BY <1>2, <1>3, <1>5, <1>6, <1>7 DEF Next

\* The provider works with the cluster and the user that its block gives: no variable of
\* the environment and no kubeconfig file overrules it (Configure of provider.go,
\* InitializeConfiguration of util/kubernetes.go).
THEOREM BlockIsObeyed == Spec => []BlockDecides
<1>1. Init => TypeInv /\ ConfigInv
  <2>1. Init => ConfigInv
    BY DEF Init, CacheInit, ConfigInv
  <2> QED
    BY <2>1, InitTypes
<1>2. TypeInv /\ ConfigInv /\ [Next]_vars => TypeInv' /\ ConfigInv'
  BY NextTypes, ConfigNext
<1>3. TypeInv /\ ConfigInv => BlockDecides
  <2> SUFFICES ASSUME ConfigInv, target # NoTarget PROVE BlockDecides
    BY DEF BlockDecides
  <2> DEFINE block == work.block
             env == work.env
             s == Resolve(block, env)
             hosted == Given(block.host) \/ (block.host = Null /\ env.host # Empty)
             loaded == FilesLoaded(s)
  <2>1. Target(s) = target
    BY DEF ConfigInv
  <2>2. /\ s.host = Override(block.host, env.host) /\ s.token = Override(block.token, env.token)
        /\ s.cluster = Override(block.cluster, env.cluster)
        /\ s.path = Override(block.path, FirstSet(env.path))
        /\ s.load = Override(block.load, IF env.load = Empty THEN TRUE ELSE env.load)
        /\ s.exec = block.exec
    BY DEF Resolve
  <2> HIDE DEF s
  <2>3. /\ s.host # Empty => target.server = s.host
        /\ s.token # Empty => target.user = s.token
        /\ s.host = Empty =>
             /\ loaded # <<>>
             /\ s.cluster # Empty => target.server = s.cluster
             /\ s.cluster = Empty => /\ ReadFiles(loaded).ok
                                     /\ \E c \in DOMAIN ReadFiles(loaded).contexts :
                                          target.server = ReadFiles(loaded).contexts[c].cluster
    BY <2>1, TargetIs
  <2> HIDE DEF loaded
  <2>4. ~hosted => s.host = Empty
    BY <2>2 DEF Override, Given
  <2>5. Given(block.host) => target.server = block.host
    BY <2>2, <2>3 DEF Override, Given
  <2>6. Given(block.token) => target.user = block.token
    BY <2>2, <2>3 DEF Override, Given
  <2>7. ~hosted => block.load # FALSE /\ ~block.exec
    <3>1. s.host = Empty => ~s.exec /\ s.load
      BY <2>3 DEF loaded, FilesLoaded
    <3> QED
      BY <2>2, <2>4, <3>1, AbsentAssumption DEF Override
  <2>8. ~hosted /\ Given(block.cluster) => target.server = block.cluster
    BY <2>2, <2>3, <2>4 DEF Override, Given
  <2>9. ASSUME ~hosted, Given(block.path), block.cluster = Null, env.cluster = Empty
        PROVE  target.server \in ClustersOf({block.path})
    <3>1. s.cluster = Empty /\ s.path = block.path /\ s.path # Empty
      BY <2>2, <2>9 DEF Override, Given
    <3>2. loaded = <<block.path>>
      BY <2>3, <2>4, <2>9, <3>1 DEF loaded, FilesLoaded, FilesNamed
    <3>3. PICK c \in DOMAIN ReadFiles(loaded).contexts :
            target.server = ReadFiles(loaded).contexts[c].cluster
      BY <2>3, <2>4, <2>9, <3>1
    <3>4. ReadFiles(loaded).ok
      BY <2>3, <2>4, <2>9, <3>1
    <3>5. /\ Kubeconfig[block.path] # NoTarget
          /\ c \in DOMAIN Kubeconfig[block.path].contexts
          /\ target.server = Kubeconfig[block.path].contexts[c].cluster
      BY <3>2, <3>3, <3>4, OneFile
    <3> QED
      BY <3>5 DEF ClustersOf
  <2> HIDE DEF hosted
  <2> QED
    BY <2>5, <2>6, <2>7, <2>8, <2>9 DEF BlockDecides, hosted
<1> QED
  BY <1>1, <1>2, <1>3, PTL DEF Spec

-----------------------------------------------------------------------------
(* Kinds that are served *)

\* No more calls fail, nothing has gone wrong with o's own, and its kind can be found.
Sound(o) ==
  /\ faults = MaxFaults
  /\ o \notin own /\ routine[o] \notin {"invalid", "error"}
  /\ KindOf(o) \in served /\ MapperKnows(KindOf(o))

\* A timer that has gone off stays so.
LEMMA FiredStays ==
  ASSUME TypeInv, [Next]_vars, NEW o \in Ops, timer[o] = "fired"
  PROVE  timer'[o] = "fired"
<1>1. timer \in [Ops -> {"off", "running", "fired"}]
  BY DEF TypeInv, DiscoveryTypeOK
<1>2. ASSUME NEW p \in Ops, Discover(p) \/ Discovered(p) \/ TimedOut(p)
      PROVE  timer'[o] = "fired"
  BY <1>1, <1>2 DEF Discover, Start, Discovered, Receive, TimedOut, TimerFires
<1> QED
  BY <1>2 DEF Next, Configure, Publish, Runs, Defer, Get, AskNext, MakeLocal, MakeRestConfig,
     MakeFromCluster, Map, Mapping, Lookup, Convert, Call, DiscoveryRuns, Look, LookFails,
     ServerSilent, Hang, ServerAnswers, Wake, Ended, vars, callVars

\* The mapper learns the kinds that are served, and no kind ceases to be served.
LEMMA KindStaysKnown ==
  ASSUME FailInv, [Next]_vars, faults = MaxFaults, NEW k \in served, MapperKnows(k)
  PROVE  k \in served' /\ MapperKnows(k)'
<1>1. Stable /\ view \in [Views -> SUBSET Kinds] /\ ~Fault
  BY StableStep, FaultsAssumption DEF FailInv, TypeInv, WorldOK, Fault
<1>2. k \in served'
  BY DEF Next, Configure, Publish, Runs, Defer, Get, AskNext, MakeLocal, MakeRestConfig,
     MakeFromCluster, Map, Mapping, Lookup, Convert, Call, Discover, Discovered,
     DiscoveryRuns, ServerSilent, ServerAnswers, TimedOut, Ended, vars, worldVars
<1>3. CASE mapped
  BY <1>1, <1>2, <1>3 DEF Stable, MapperKnows
<1>4. CASE ~mapped /\ mapped'
  <2>1. PICK p \in Ops : Map(p)
    BY <1>4 DEF Next, Configure, Publish, Runs, Defer, Get, AskNext, MakeLocal,
       MakeRestConfig, MakeFromCluster, Mapping, Lookup, Convert, Call, Discover,
       Discovered, DiscoveryRuns, ServerSilent, ServerAnswers, TimedOut, Ended, vars, worldVars
  <2>2. view' = [view EXCEPT !["restMapper"] = served]
    BY <1>1, <1>4, <2>1 DEF Map
  <2> QED
    BY <1>1, <1>2, <2>2 DEF MapperKnows, Views
<1> QED
  BY <1>2, <1>3, <1>4 DEF MapperKnows

\* A look for a kind that is served finds it, at the first as at the second time.
LEMMA AnswerStaysGood ==
  ASSUME FailInv, [Next]_vars, NEW o \in Ops, Sound(o)
  PROVE  routine'[o] \notin {"invalid", "error"}
<1>1. routine \in [Ops -> {"none", "done"} \cup Looks \cup Answers] /\ ~Fault
  BY FaultsAssumption DEF FailInv, TypeInv, DiscoveryTypeOK, WorldOK, Sound, Fault
<1>2. ASSUME NEW p \in Ops, Discover(p) \/ Discovered(p)
      PROVE  routine'[o] \notin {"invalid", "error"}
  BY <1>1, <1>2 DEF Discover, Start, Discovered, Receive, Sound
<1>3. ASSUME NEW p \in Ops, DiscoveryRuns(p) PROVE routine'[o] \notin {"invalid", "error"}
  <2>1. routine' = [routine EXCEPT ![p] = Found(routine[p], KindOf(p) \in served)]
    BY <1>1, <1>3 DEF DiscoveryRuns, Look
  <2> QED
    BY <1>1, <2>1 DEF Found, Sound
<1> QED
  BY <1>2, <1>3 DEF Next, Configure, Publish, Runs, Defer, Get, AskNext, MakeLocal,
     MakeRestConfig, MakeFromCluster, Map, Mapping, Lookup, Convert, Call, ServerSilent, Hang,
     ServerAnswers, Wake, TimedOut, TimerFires, Ended, vars, callVars, Sound

\* An operation stays sound until its timer goes off.
LEMMA SoundStep ==
  ASSUME FailInv, [Next]_vars, NEW o \in Ops, Sound(o)
  PROVE  Sound(o)' \/ timer'[o] = "fired"
<1>1. ~Fault /\ work' = work /\ routine'[o] \notin {"invalid", "error"}
  BY StableStep, AnswerStaysGood, FaultsAssumption
  DEF Stable, Fault, Sound, FailInv, TypeInv, WorldOK
<1>2. (KindOf(o) \in served)' /\ MapperKnows(KindOf(o))'
  <2>1. KindOf(o)' = KindOf(o)
    BY <1>1 DEF KindOf
  <2> QED
    BY <2>1, KindStaysKnown DEF Sound, MapperKnows
<1>3. faults' = faults
  BY <1>1 DEF Next, Configure, Publish, Runs, Defer, Get, AskNext, MakeLocal, MakeRestConfig,
     MakeFromCluster, Map, Mapping, Lookup, Convert, Call, Discover, Discovered,
     DiscoveryRuns, ServerSilent, ServerAnswers, TimedOut, Ended, vars, NoFault
<1>4. ASSUME o \in own' PROVE timer'[o] = "fired"
  <2>1. PICK p \in Ops : own' = own \cup {p} /\ (Discovered(p) \/ TimedOut(p))
    BY <1>1, <1>4 DEF Next, Configure, Publish, Runs, Defer, Get, AskNext, MakeLocal,
       MakeRestConfig, MakeFromCluster, Map, Mapping, Lookup, Convert, Call, Discover,
       Discovered, DiscoveryRuns, ServerSilent, ServerAnswers, TimedOut, Ended, vars, Sound
  <2>2. p = o
    BY <1>4, <2>1 DEF Sound
  <2>3. ~Discovered(o)
    BY <1>4 DEF Discovered, Receive, Answers, Sound
  <2> QED
    BY <2>1, <2>2, <2>3 DEF TimedOut, TimerFires, FailInv, TypeInv, DiscoveryTypeOK
<1> QED
  BY <1>1, <1>2, <1>3, <1>4 DEF Sound

\* Once no more calls fail, an operation whose kind is served and can be found does not
\* fail any more, unless its timer goes off or the configuration leads nowhere: what was
\* remembered too early, or could not be fetched, does not stand in its way.
THEOREM ServedKindsAreServed == Spec => ServedKindsWork
<1>1. SUFFICES ASSUME NEW o \in Ops
               PROVE  Spec =>
                 [](Unharmed(o) /\ KindOf(o) \in served /\ MapperKnows(KindOf(o))
                      /\ faults = MaxFaults =>
                      [](result[o] = "failed" => once["restConfig"] = "err" \/ timer[o] = "fired"))
  BY DEF ServedKindsWork
<1> DEFINE P == /\ Unharmed(o) /\ KindOf(o) \in served
                /\ MapperKnows(KindOf(o)) /\ faults = MaxFaults
           Q == result[o] = "failed" => once["restConfig"] = "err" \/ timer[o] = "fired"
           J == Sound(o) \/ timer[o] = "fired"
<1>2. P => J
  BY DEF Unharmed, Sound
<1>3. FailInv /\ J => Q
  BY DEF FailInv, FailuresAreContained, Sound, MapperKnows
<1>4. FailInv /\ J /\ [Next]_vars => J'
  BY SoundStep, FiredStays DEF FailInv
<1>5. Init => FailInv
  BY InitFail
<1>6. FailInv /\ [Next]_vars => FailInv'
  BY FailNext
<1> QED
  BY <1>2, <1>3, <1>4, <1>5, <1>6, PTL DEF Spec
===============================================================================
