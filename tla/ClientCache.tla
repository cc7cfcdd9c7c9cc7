----------------------------- MODULE ClientCache -----------------------------
(***************************************************************************)
(* The clients of the provider: values that are made when they are first   *)
(* asked for, each behind a sync.Once (kubectl/cache.go), by functions     *)
(* that ask for other such values (kubectl/clients.go, provider.go,        *)
(* fetchCRDs of openapi_helpers.go).                                       *)
(*                                                                         *)
(* An operation that finds a value being made by another one waits.  What  *)
(* one operation makes at a time is a chain: focus is its last link, and   *)
(* caller leads from each link to the one that has asked for it.           *)
(***************************************************************************)
EXTENDS Naturals, Sequences

CONSTANTS
  Ops,    \* the operations that run concurrently in the provider process
  None

VARIABLES
  once,     \* of each value: not asked for yet, being made, made, or failed
  got,      \* how many of the values it is made from are there
  caller,   \* the value it is being made for, or None
  focus     \* the value an operation is making, or None

cacheVars == <<once, got, caller, focus>>

Caches == {"clientConfig", "restConfig", "mainClientset", "dynamicClient",
           "discoveryClient", "restMapper", "restClient", "OAPIFoundry", "crds"}

ASSUME NoneAssumption == None \notin Caches

\* Deviation: the REST configuration takes something from the discovery of the API.
DependsInACircle(c) ==
  CASE c \in {"mainClientset", "dynamicClient", "discoveryClient", "restClient"} -> <<"restConfig">>
    [] c = "restConfig"  -> <<"clientConfig", "restMapper">>
    [] c = "restMapper"  -> <<"discoveryClient">>
    [] c = "OAPIFoundry" -> <<"restClient">>
    [] c = "crds"        -> <<"dynamicClient", "restMapper">>
    [] OTHER             -> <<>>

\* What the function that makes a value asks for, in this order.
Depends(c) ==
  CASE c \in {"mainClientset", "dynamicClient", "discoveryClient", "restClient"} -> <<"restConfig">>
    [] c = "restConfig"  -> <<"clientConfig">>
    [] c = "restMapper"  -> <<"discoveryClient">>
    [] c = "OAPIFoundry" -> <<"restClient">>
    [] c = "crds"        -> <<"dynamicClient", "restMapper">>
    [] OTHER             -> <<>>

CacheTypeOK ==
  /\ once \in [Caches -> {"new", "busy", "ok", "err"}]
  /\ got \in [Caches -> Nat]
  /\ caller \in [Caches -> Caches \cup {None}]
  /\ focus \in [Ops -> Caches \cup {None}]

CacheInit ==
  /\ once = [c \in Caches |-> "new"]
  /\ got = [c \in Caches |-> 0]
  /\ caller = [c \in Caches |-> None]
  /\ focus = [o \in Ops |-> None]

HasAll(c) == got[c] = Len(Depends(c))
Needs(c) == Depends(c)[got[c] + 1]

\* The function of c starts to run, under the lock of its sync.Once.
Begin(o, c) ==
  /\ once[c] = "new"
  /\ once' = [once EXCEPT ![c] = "busy"]
  /\ caller' = [caller EXCEPT ![c] = focus[o]]
  /\ focus' = [focus EXCEPT ![o] = c]
  /\ UNCHANGED got

\* The function of c returns; its value or its error is kept.
Return(o, c, outcome) ==
  /\ once' = [once EXCEPT ![c] = outcome]
  /\ focus' = [focus EXCEPT ![o] = caller[c]]
  /\ UNCHANGED <<got, caller>>

\* What o is making asks for the next value it is made from.
Ask(o) ==
  /\ focus[o] # None /\ ~HasAll(focus[o])
  /\ LET c == focus[o] IN
     \/ Begin(o, Needs(c))
     \/ /\ once[Needs(c)] = "ok"
        /\ got' = [got EXCEPT ![c] = @ + 1]
        /\ UNCHANGED <<once, caller, focus>>
     \/ once[Needs(c)] = "err" /\ Return(o, c, "err")

\* It has them all, and is made of them, or is not.
Make(o, outcome) ==
  /\ focus[o] # None /\ HasAll(focus[o])
  /\ Return(o, focus[o], outcome)
=============================================================================
