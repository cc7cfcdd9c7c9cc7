-------------------------- MODULE ClientCache_proofs --------------------------
(***************************************************************************)
(* Proofs about the caches of ClientCache, for every number of operations  *)
(* that ask for clients at the same time: the locks are waited for in no   *)
(* circle.  CacheInv says that what is being made is made by one           *)
(* operation, as the last link of its chain or for the next link; ErrorInv *)
(* where the errors that are kept come from.                               *)
(***************************************************************************)
EXTENDS ClientCache, TLAPS

\* How far a value is from the configuration: what it asks for is nearer.
Rank ==
  [c \in Caches |->
     CASE c = "clientConfig" -> 0
       [] c = "restConfig" -> 1
       [] c \in {"mainClientset", "dynamicClient", "discoveryClient", "restClient"} -> 2
       [] c \in {"restMapper", "OAPIFoundry"} -> 3
       [] c = "crds" -> 4]

Busy(c) == once[c] = "busy"

CountInv == \A c \in Caches : got[c] <= Len(Depends(c))

\* Each operation makes a value of its own.
FocusInv ==
  /\ \A o \in Ops : focus[o] # None => Busy(focus[o])
  /\ \A o1, o2 \in Ops : focus[o1] # None /\ focus[o1] = focus[o2] => o1 = o2

\* What is made for another value is what this one needs next, and nobody is at work
\* on that one meanwhile.
CallerInv ==
  \A c \in Caches : Busy(c) /\ caller[c] # None =>
    /\ Busy(caller[c]) /\ ~HasAll(caller[c]) /\ Needs(caller[c]) = c
    /\ \A o \in Ops : focus[o] # caller[c]

\* No lock is held by nobody.
HeldInv ==
  \A d \in Caches : Busy(d) =>
    \/ \E o \in Ops : focus[o] = d
    \/ \E c \in Caches : Busy(c) /\ caller[c] = d

CacheInv == CacheTypeOK /\ CountInv /\ FocusInv /\ CallerInv /\ HeldInv

-----------------------------------------------------------------------------
(* The graph of the values *)

LEMMA DependsLen ==
  ASSUME NEW c \in Caches
  PROVE  Len(Depends(c)) \in 0..2
<1>1. CASE c \in {"mainClientset", "dynamicClient", "discoveryClient", "restClient"}
  BY <1>1 DEF Depends
<1>2. CASE c \in {"restConfig", "restMapper", "OAPIFoundry"}
  BY <1>2 DEF Depends
<1>3. CASE c = "crds"
  BY <1>3 DEF Depends
<1>4. CASE c = "clientConfig"
  BY <1>4 DEF Depends
<1> QED
  BY <1>1, <1>2, <1>3, <1>4 DEF Caches

\* What each value asks for next, as long as it has not got all.
LEMMA NeedsIs ==
  ASSUME CacheTypeOK, CountInv, NEW c \in Caches, ~HasAll(c)
  PROVE  /\ c # "clientConfig"
         /\ c = "restConfig" => Needs(c) = "clientConfig"
         /\ c \in {"mainClientset", "dynamicClient", "discoveryClient", "restClient"} =>
              Needs(c) = "restConfig"
         /\ c = "restMapper" => Needs(c) = "discoveryClient"
         /\ c = "OAPIFoundry" => Needs(c) = "restClient"
         /\ c = "crds" => Needs(c) \in {"dynamicClient", "restMapper"}
<1>1. got[c] \in Nat /\ got[c] < Len(Depends(c))
  BY DependsLen DEF CacheTypeOK, CountInv, HasAll
<1>2. CASE c \in {"mainClientset", "dynamicClient", "discoveryClient", "restClient"}
  <2>1. Depends(c) = <<"restConfig">> /\ got[c] = 0
    BY <1>1, <1>2 DEF Depends
  <2> QED
    BY <1>2, <2>1 DEF Needs
<1>3. CASE c = "restConfig"
  <2>1. Depends(c) = <<"clientConfig">> /\ got[c] = 0
    BY <1>1, <1>3 DEF Depends
  <2> QED
    BY <1>3, <2>1 DEF Needs
<1>4. CASE c = "restMapper"
  <2>1. Depends(c) = <<"discoveryClient">> /\ got[c] = 0
    BY <1>1, <1>4 DEF Depends
  <2> QED
    BY <1>4, <2>1 DEF Needs
<1>5. CASE c = "OAPIFoundry"
  <2>1. Depends(c) = <<"restClient">> /\ got[c] = 0
    BY <1>1, <1>5 DEF Depends
  <2> QED
    BY <1>5, <2>1 DEF Needs
<1>6. CASE c = "crds"
  <2>1. Depends(c) = <<"dynamicClient", "restMapper">> /\ got[c] \in {0, 1}
    BY <1>1, <1>6 DEF Depends
  <2>2. Needs(c) \in {"dynamicClient", "restMapper"}
    BY <2>1 DEF Needs
  <2> QED
    BY <1>6, <2>2
<1>7. CASE c = "clientConfig"
  BY <1>1, <1>7 DEF Depends
<1> QED
  BY <1>2, <1>3, <1>4, <1>5, <1>6, <1>7 DEF Caches

\* What is asked for next is a value of a lower rank: the graph has no circle.
LEMMA NeedsLower ==
  ASSUME CacheTypeOK, CountInv, NEW c \in Caches, ~HasAll(c)
  PROVE  Needs(c) \in Caches /\ Rank[Needs(c)] < Rank[c]
BY NeedsIs DEF Caches, Rank

-----------------------------------------------------------------------------
(* The steps of ClientCache keep the invariant *)

LEMMA InitKeepsCaches == CacheInit => CacheInv
<1> SUFFICES ASSUME CacheInit PROVE CacheInv
  OBVIOUS
<1>1. CacheTypeOK
  BY DEF CacheInit, CacheTypeOK
<1>2. CountInv
  BY DependsLen DEF CacheInit, CountInv
<1>3. FocusInv /\ CallerInv /\ HeldInv
  BY DEF CacheInit, FocusInv, CallerInv, HeldInv, Busy
<1> QED
  BY <1>1, <1>2, <1>3 DEF CacheInv

\* Begin is for a value that is asked for by hand, or that the value in focus needs.
LEMMA BeginKeepsCaches ==
  ASSUME CacheInv, NEW o \in Ops, NEW c \in Caches, Begin(o, c),
         focus[o] # None => ~HasAll(focus[o]) /\ Needs(focus[o]) = c
  PROVE  CacheInv'
<1>1. CacheTypeOK /\ CountInv /\ FocusInv /\ CallerInv /\ HeldInv
  BY DEF CacheInv
<1>2. focus[o] \in Caches \cup {None} /\ focus[o] # c /\ c # None /\ once[c] = "new"
  BY <1>1, NoneAssumption DEF CacheTypeOK, Begin, FocusInv, Busy
<1>3. once' = [once EXCEPT ![c] = "busy"] /\ caller' = [caller EXCEPT ![c] = focus[o]]
      /\ focus' = [focus EXCEPT ![o] = c] /\ got' = got
  BY DEF Begin
<1>4. CacheTypeOK'
  BY <1>1, <1>2, <1>3 DEF CacheTypeOK
<1>5. CountInv'
  BY <1>1, <1>3 DEF CountInv
<1>6. \A d \in Caches : Busy(d)' <=> d = c \/ Busy(d)
  BY <1>1, <1>3 DEF CacheTypeOK, Busy
<1>7. \A p \in Ops : focus[p] # c
  BY <1>1, <1>2 DEF FocusInv, Busy
<1>8. FocusInv'
  BY <1>1, <1>2, <1>3, <1>6, <1>7 DEF FocusInv, CacheTypeOK
<1>9. CallerInv'
  <2> SUFFICES ASSUME NEW d \in Caches, Busy(d)', caller'[d] # None
               PROVE  /\ Busy(caller[d])' /\ ~HasAll(caller[d])' /\ (Needs(caller[d]) = d)'
                      /\ \A p \in Ops : focus'[p] # caller'[d]
    BY DEF CallerInv
  <2>1. CASE d = c
    <3>1. caller'[d] = focus[o] /\ focus[o] # None /\ focus[o] \in Caches
      BY <1>1, <1>2, <1>3, <2>1 DEF CacheTypeOK
    <3>2. Busy(focus[o]) /\ ~HasAll(focus[o]) /\ Needs(focus[o]) = c
      BY <1>1, <3>1 DEF FocusInv
    <3>3. \A p \in Ops : focus'[p] # focus[o]
      BY <1>1, <1>2, <1>3, <3>1 DEF FocusInv, CacheTypeOK
    <3> QED
      BY <1>3, <1>6, <2>1, <3>1, <3>2, <3>3 DEF HasAll, Needs
  <2>2. CASE d # c
    <3>1. caller'[d] = caller[d] /\ Busy(d) /\ caller[d] \in Caches
      BY <1>1, <1>3, <1>6, <2>2 DEF CacheTypeOK
    <3>2. Busy(caller[d]) /\ ~HasAll(caller[d]) /\ Needs(caller[d]) = d
          /\ \A p \in Ops : focus[p] # caller[d]
      BY <1>1, <3>1 DEF CallerInv
    <3>3. caller[d] # c
      BY <1>2, <3>2 DEF Busy
    <3>4. \A p \in Ops : focus'[p] # caller[d]
      BY <1>1, <1>3, <3>2, <3>3 DEF CacheTypeOK
    <3> QED
      BY <1>3, <1>6, <3>1, <3>2, <3>4 DEF HasAll, Needs
  <2> QED
    BY <2>1, <2>2
<1>10. HeldInv'
  <2> SUFFICES ASSUME NEW d \in Caches, Busy(d)'
               PROVE  \/ \E p \in Ops : focus'[p] = d
                      \/ \E e \in Caches : Busy(e)' /\ caller'[e] = d
    BY DEF HeldInv
  <2>1. CASE d = c
    BY <1>1, <1>3, <2>1 DEF CacheTypeOK
  <2>2. CASE d # c /\ focus[o] = d
    BY <1>1, <1>3, <1>6, <2>2 DEF CacheTypeOK
  <2>3. CASE d # c /\ focus[o] # d /\ \E p \in Ops : focus[p] = d
    BY <1>1, <1>3, <2>3 DEF CacheTypeOK
  <2>4. CASE d # c /\ \E e \in Caches : Busy(e) /\ caller[e] = d
    <3>1. PICK e \in Caches : Busy(e) /\ caller[e] = d
      BY <2>4
    <3>2. e # c /\ Busy(e)' /\ caller'[e] = d
      BY <1>1, <1>2, <1>3, <1>6, <3>1 DEF Busy, CacheTypeOK
    <3> QED
      BY <3>2
  <2> QED
    BY <1>1, <1>6, <2>1, <2>2, <2>3, <2>4 DEF HeldInv
<1> QED
  BY <1>4, <1>5, <1>8, <1>9, <1>10 DEF CacheInv

LEMMA ReturnKeepsCaches ==
  ASSUME CacheInv, NEW o \in Ops, focus[o] # None, NEW outcome \in {"ok", "err"},
         Return(o, focus[o], outcome)
  PROVE  CacheInv'
<1> DEFINE c == focus[o]
<1>1. CacheTypeOK /\ CountInv /\ FocusInv /\ CallerInv /\ HeldInv
  BY DEF CacheInv
<1>2. c \in Caches /\ Busy(c) /\ caller[c] \in Caches \cup {None}
  BY <1>1 DEF CacheTypeOK, FocusInv
<1>3. once' = [once EXCEPT ![c] = outcome] /\ focus' = [focus EXCEPT ![o] = caller[c]]
      /\ caller' = caller /\ got' = got
  BY DEF Return
<1>4. CacheTypeOK'
  BY <1>1, <1>2, <1>3 DEF CacheTypeOK
<1>5. CountInv'
  BY <1>1, <1>3 DEF CountInv
<1>6. \A d \in Caches : Busy(d)' <=> d # c /\ Busy(d)
  BY <1>1, <1>2, <1>3 DEF CacheTypeOK, Busy
<1>7. caller[c] # None => /\ Busy(caller[c]) /\ Needs(caller[c]) = c
                          /\ \A p \in Ops : focus[p] # caller[c]
  BY <1>1, <1>2 DEF CallerInv
<1>8. FocusInv'
  <2>1. caller[c] # c
    BY <1>2, <1>7, NoneAssumption
  <2>2. ASSUME NEW p \in Ops, focus'[p] # None PROVE Busy(focus[p])'
    <3>1. CASE p = o
      BY <1>1, <1>2, <1>3, <1>6, <1>7, <2>1, <2>2, <3>1 DEF CacheTypeOK
    <3>2. CASE p # o
      <4>1. focus'[p] = focus[p] /\ focus[p] # c /\ focus[p] \in Caches
        BY <1>1, <1>3, <2>2, <3>2 DEF CacheTypeOK, FocusInv
      <4> QED
        BY <1>1, <1>6, <2>2, <4>1 DEF FocusInv
    <3> QED
      BY <3>1, <3>2
  <2>3. ASSUME NEW p \in Ops, NEW q \in Ops, focus'[p] # None, focus'[p] = focus'[q]
        PROVE  p = q
    BY <1>1, <1>3, <1>7, <2>3 DEF CacheTypeOK, FocusInv
  <2> QED
    BY <2>2, <2>3 DEF FocusInv
<1>9. CallerInv'
  <2> SUFFICES ASSUME NEW d \in Caches, Busy(d)', caller'[d] # None
               PROVE  /\ Busy(caller[d])' /\ ~HasAll(caller[d])' /\ (Needs(caller[d]) = d)'
                      /\ \A p \in Ops : focus'[p] # caller'[d]
    BY DEF CallerInv
  <2>1. d # c /\ Busy(d) /\ caller'[d] = caller[d] /\ caller[d] \in Caches
    BY <1>1, <1>3, <1>6 DEF CacheTypeOK
  <2>2. Busy(caller[d]) /\ ~HasAll(caller[d]) /\ Needs(caller[d]) = d
        /\ \A p \in Ops : focus[p] # caller[d]
    BY <1>1, <1>3, <2>1 DEF CallerInv
  <2>3. caller[d] # c
    BY <2>2
  <2>4. caller[d] # caller[c]
    BY <1>7, <2>1, <2>2, NoneAssumption
  <2>5. \A p \in Ops : focus'[p] # caller[d]
    BY <1>1, <1>3, <2>2, <2>4 DEF CacheTypeOK
  <2> QED
    BY <1>3, <1>6, <2>1, <2>2, <2>3, <2>5 DEF HasAll, Needs
<1>10. HeldInv'
  <2> SUFFICES ASSUME NEW d \in Caches, Busy(d)'
               PROVE  \/ \E p \in Ops : focus'[p] = d
                      \/ \E e \in Caches : Busy(e)' /\ caller'[e] = d
    BY DEF HeldInv
  <2>1. d # c /\ Busy(d)
    BY <1>6
  <2>2. CASE caller[c] = d
    BY <1>1, <1>3, <2>2 DEF CacheTypeOK
  <2>3. CASE \E p \in Ops : focus[p] = d
    BY <1>1, <1>3, <2>1, <2>3 DEF CacheTypeOK
  <2>4. CASE caller[c] # d /\ \E e \in Caches : Busy(e) /\ caller[e] = d
    BY <1>3, <1>6, <2>4
  <2> QED
    BY <1>1, <2>1, <2>2, <2>3, <2>4 DEF HeldInv
<1> QED
  BY <1>4, <1>5, <1>8, <1>9, <1>10 DEF CacheInv

LEMMA AskKeepsCaches ==
  ASSUME CacheInv, NEW o \in Ops, Ask(o)
  PROVE  CacheInv'
<1> DEFINE c == focus[o]
<1>1. CacheTypeOK /\ CountInv /\ FocusInv /\ CallerInv /\ HeldInv
  BY DEF CacheInv
<1>2. c \in Caches /\ c # None /\ ~HasAll(c) /\ Busy(c)
  BY <1>1 DEF Ask, CacheTypeOK, FocusInv
<1>3. Needs(c) \in Caches
  BY <1>1, <1>2, NeedsLower
<1>4. CASE Begin(o, Needs(c))
  BY <1>2, <1>3, <1>4, BeginKeepsCaches
<1>5. CASE /\ got' = [got EXCEPT ![c] = @ + 1]
           /\ UNCHANGED <<once, caller, focus>>
  <2>1. CacheTypeOK'
    BY <1>1, <1>2, <1>5 DEF CacheTypeOK
  <2>2. CountInv'
    <3>1. got[c] \in Nat /\ got[c] < Len(Depends(c))
      BY <1>1, <1>2, DependsLen DEF CacheTypeOK, CountInv, HasAll
    <3> QED
      BY <1>1, <1>2, <1>5, <3>1, DependsLen DEF CacheTypeOK, CountInv
  <2>3. \A d \in Caches : (Busy(d)' <=> Busy(d)) /\ (d # c => got'[d] = got[d])
    BY <1>1, <1>5 DEF CacheTypeOK, Busy
  <2>4. FocusInv'
    BY <1>1, <1>5, <2>3 DEF FocusInv, CacheTypeOK
  <2>5. CallerInv'
    <3> SUFFICES ASSUME NEW d \in Caches, Busy(d)', caller'[d] # None
                 PROVE  /\ Busy(caller[d])' /\ ~HasAll(caller[d])'
                        /\ (Needs(caller[d]) = d)'
                        /\ \A p \in Ops : focus'[p] # caller'[d]
      BY DEF CallerInv
    <3>1. caller'[d] = caller[d] /\ caller[d] \in Caches /\ Busy(d) /\ caller[d] # None
      BY <1>1, <1>5, <2>3 DEF CacheTypeOK
    <3>2. caller[d] # c
      BY <1>1, <3>1 DEF CallerInv
    <3> QED
      BY <1>1, <1>5, <2>3, <3>1, <3>2 DEF CallerInv, HasAll, Needs
  <2>6. HeldInv'
    BY <1>1, <1>5, <2>3 DEF HeldInv
  <2> QED
    BY <2>1, <2>2, <2>4, <2>5, <2>6 DEF CacheInv
<1>6. CASE Return(o, c, "err")
  BY <1>2, <1>6, ReturnKeepsCaches
<1> QED
  BY <1>4, <1>5, <1>6 DEF Ask

LEMMA MakeKeepsCaches ==
  ASSUME CacheInv, NEW o \in Ops, NEW outcome \in {"ok", "err"}, Make(o, outcome)
  PROVE  CacheInv'
BY ReturnKeepsCaches DEF Make

LEMMA RestKeepsCaches ==
  ASSUME CacheInv, UNCHANGED cacheVars
  PROVE  CacheInv'
BY DEF CacheInv, cacheVars, CacheTypeOK, CountInv, FocusInv, CallerInv, HeldInv, Busy,
       HasAll, Needs

-----------------------------------------------------------------------------
(* Errors that are kept *)

\* Of the clients, which only hand on the REST configuration, none has an error of its
\* own; the client configuration never has one.
FromCluster == {"OAPIFoundry", "crds"}
ErrorInv ==
  /\ once["clientConfig"] # "err"
  /\ \A c \in Caches \ FromCluster : once[c] = "err" => once["restConfig"] = "err"

\* What is there, or is known to be not, stays so.
Kept == \A c \in Caches : once[c] \in {"ok", "err"} => once'[c] = once[c]

LEMMA BeginKeepsErrors ==
  ASSUME CacheInv, ErrorInv, NEW o \in Ops, NEW c \in Caches, Begin(o, c)
  PROVE  ErrorInv' /\ Kept
BY DEF CacheInv, CacheTypeOK, ErrorInv, Kept, Begin, Caches

LEMMA ReturnKeepsErrors ==
  ASSUME CacheInv, ErrorInv, NEW o \in Ops, focus[o] # None, NEW outcome \in {"ok", "err"},
         Return(o, focus[o], outcome),
         outcome = "err" => \/ focus[o] \in {"restConfig"} \cup FromCluster
                            \/ focus[o] # "clientConfig" /\ once["restConfig"] = "err"
  PROVE  ErrorInv' /\ Kept
<1>1. focus[o] \in Caches /\ Busy(focus[o])
  BY DEF CacheInv, CacheTypeOK, FocusInv
<1>2. once' = [once EXCEPT ![focus[o]] = outcome] /\ once \in [Caches -> {"new", "busy", "ok", "err"}]
  BY DEF Return, CacheInv, CacheTypeOK
<1>3. Kept
  BY <1>1, <1>2 DEF Kept, Busy
<1>4. \A c \in Caches : once'[c] = IF c = focus[o] THEN outcome ELSE once[c]
  BY <1>1, <1>2
<1>5. "restConfig" \in Caches /\ "clientConfig" \in Caches
  BY DEF Caches
<1>6. ErrorInv'
  BY <1>1, <1>3, <1>4, <1>5 DEF ErrorInv, Kept, FromCluster
<1> QED
  BY <1>3, <1>6

LEMMA AskKeepsErrors ==
  ASSUME CacheInv, ErrorInv, NEW o \in Ops, Ask(o)
  PROVE  ErrorInv' /\ Kept
<1>1. CacheTypeOK /\ CountInv
  BY DEF CacheInv
<1>2. focus[o] \in Caches /\ focus[o] # None /\ ~HasAll(focus[o])
  BY <1>1 DEF Ask, CacheTypeOK
<1>3. Needs(focus[o]) \in Caches
  BY <1>1, <1>2, NeedsLower
<1>4. CASE Begin(o, Needs(focus[o]))
  BY <1>3, <1>4, BeginKeepsErrors
<1>5. CASE once' = once
  BY <1>5 DEF ErrorInv, Kept
<1>6. CASE once[Needs(focus[o])] = "err" /\ Return(o, focus[o], "err")
  <2>1. \/ focus[o] \in {"restConfig"} \cup FromCluster
        \/ focus[o] # "clientConfig" /\ once["restConfig"] = "err"
    BY <1>1, <1>2, <1>6, NeedsIs DEF ErrorInv, FromCluster, Caches
  <2> QED
    BY <1>2, <1>6, <2>1, ReturnKeepsErrors
<1> QED
  BY <1>4, <1>5, <1>6 DEF Ask

LEMMA MakeKeepsErrors ==
  ASSUME CacheInv, ErrorInv, NEW o \in Ops, NEW outcome \in {"ok", "err"}, Make(o, outcome),
         outcome = "err" => focus[o] \in {"restConfig"} \cup FromCluster
  PROVE  ErrorInv' /\ Kept
BY ReturnKeepsErrors DEF Make

-----------------------------------------------------------------------------
(* No circular wait *)

\* Of the values that are being made, one of the lowest rank has an operation that
\* can go on with it.
LEMMA SomeoneGoesOn ==
  ASSUME CacheInv, \E c \in Caches : Busy(c)
  PROVE  \E o \in Ops : /\ focus[o] # None
                        /\ HasAll(focus[o]) \/ ~Busy(Needs(focus[o]))
<1>1. CacheTypeOK /\ CountInv /\ FocusInv /\ CallerInv /\ HeldInv
  BY DEF CacheInv
<1>2. \A c \in Caches : Rank[c] \in 0..4
  BY DEF Rank, Caches
<1>3. PICK c \in Caches : Busy(c) /\ \A d \in Caches : Rank[d] < Rank[c] => ~Busy(d)
  <2> DEFINE Level(n) == {c \in Caches : Busy(c) /\ Rank[c] = n}
  <2>1. Level(0) # {} \/ Level(1) # {} \/ Level(2) # {} \/ Level(3) # {} \/ Level(4) # {}
    BY <1>2
  <2>2. PICK n \in 0..4 : Level(n) # {} /\ \A k \in 0..4 : k < n => Level(k) = {}
    <3> HIDE DEF Level
    <3> QED
      BY <2>1
  <2> QED
    BY <1>2, <2>2
<1>4. \A d \in Caches : Busy(d) => caller[d] # c
  BY <1>1, <1>3, NeedsLower, NoneAssumption DEF CallerInv
<1>5. PICK o \in Ops : focus[o] = c
  BY <1>1, <1>3, <1>4 DEF HeldInv
<1>6. HasAll(c) \/ ~Busy(Needs(c))
  BY <1>1, <1>3, NeedsLower
<1> QED
  BY <1>3, <1>5, <1>6, NoneAssumption
===============================================================================
