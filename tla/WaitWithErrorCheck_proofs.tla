---------------------- MODULE WaitWithErrorCheck_proofs ----------------------
(***************************************************************************)
(* Proofs about WaitWithErrorCheck, for every deadline, every set of wait  *)
(* and error blocks and every bound on time and faults: the types, and     *)
(* that the caller and the waiter's goroutine together implement           *)
(* WaitPromise.  WaitInv follows the waiter's result from the object to    *)
(* the caller, and from one wait to the next.                              *)
(***************************************************************************)
EXTENDS WaitWithErrorCheck, SequenceTheorems, TLAPS

\* The result is on its way once and is not changed there; the caller has an answer
\* exactly when it has returned; the waits come one after the other, each after the
\* success of the one before, and the single check after those that the block asks for.
WaitInv ==
  /\ errCh # <<>> => errCh[1] = wres
  /\ wres = "none" => waiter \notin {"send", "done"}
  /\ waiter \in {"off", "top", "get", "sleep"} => wres = "none" /\ errCh = <<>>
  /\ waiter = "send" => errCh = <<>>
  /\ result = "none" <=> main # "returned"
  /\ main = "start" => \/ waitFor = "none" /\ waiter = "off"
                       \/ waitFor = "rollout" /\ waiter = "done" /\ wres = "nil" /\ errCh = <<>>
  /\ main \in {"select", "tick", "plain"} => waiter # "off"
  /\ waiter # "off" => waitFor \in asked
  /\ waitFor = "none" => waiter = "off"
  /\ waitFor \in {"conditions", "fields"} => "unparsable" \notin asked
  /\ waitFor = "fields" => "conditions" \notin asked
  /\ main = "once" => waiter \in {"off", "done"} /\ Promise!Awaited \subseteq Met

Inv == TypeOK /\ WaitInv

\* What was seen and what is awaited change only with the wait that runs and its result.
LEMMA MetStays ==
  UNCHANGED <<asked, waitFor, wres>> => Met' = Met /\ Promise!Awaited' = Promise!Awaited
BY DEF Met, Promise!Awaited

LEMMA InitInv == Init => Inv
<1> SUFFICES ASSUME Init PROVE Inv
  OBVIOUS
<1>1. errCh \in Seq(WaiterResults) /\ Len(errCh) = 0 /\ errCh = <<>>
  BY DEF Init
<1>2. 0 \in 0..MaxTime /\ 0 \in 0..MaxFaults
  BY TimesAssumption, FaultsAssumption
<1>3. Len(errCh) <= 1
  BY <1>1
<1>5. TypeOK
  BY <1>1, <1>2, <1>3 DEF Init, TypeOK
<1>4. WaitInv
  BY DEF Init, WaitInv
<1> QED
  BY <1>4, <1>5 DEF Inv

\* A channel that holds at most one result.
LEMMA ChannelFacts ==
  ASSUME TypeOK
  PROVE  /\ errCh = <<>> => \A x \in WaiterResults :
              /\ Append(errCh, x) \in Seq(WaiterResults) /\ Len(Append(errCh, x)) = 1
              /\ Append(errCh, x)[1] = x /\ Append(errCh, x) # <<>>
         /\ errCh # <<>> => Len(errCh) = 1 /\ Head(errCh) = errCh[1] /\ Tail(errCh) = <<>>
<1>1. errCh \in Seq(WaiterResults) /\ Len(errCh) <= 1
  BY DEF TypeOK
<1>2. ASSUME errCh = <<>>, NEW x \in WaiterResults
      PROVE  /\ Append(errCh, x) \in Seq(WaiterResults) /\ Len(Append(errCh, x)) = 1
             /\ Append(errCh, x)[1] = x /\ Append(errCh, x) # <<>>
  <2>1. Append(errCh, x) = <<x>>
    BY <1>2
  <2> QED
    BY <1>2, <2>1
<1>3. ASSUME errCh # <<>>
      PROVE  Len(errCh) = 1 /\ Head(errCh) = errCh[1] /\ Tail(errCh) = <<>>
  <2>1. Len(errCh) \in Nat /\ Len(errCh) # 0
    BY <1>1, <1>3
  <2>2. Len(errCh) = 1
    BY <1>1, <2>1
  <2>3. Head(errCh) = errCh[1]
    BY <1>1, <1>3
  <2>4. Tail(errCh) \in Seq(WaiterResults) /\ Len(Tail(errCh)) = 0
    BY <1>1, <1>3, <2>2
  <2>5. Tail(errCh) = <<>>
    BY <2>4, EmptySeq
  <2> QED
    BY <2>2, <2>3, <2>5
<1> QED
  BY <1>2, <1>3

LEMMA WaiterKeeps == ASSUME Inv, WaiterNext PROVE Inv'
<1>1. TypeOK /\ WaitInv
  BY DEF Inv
<1>2. CASE WaiterTop
  BY <1>1, <1>2 DEF Inv, TypeOK, WaitInv, WaiterTop, object, mainVars, WaiterResults
<1>3. CASE WaiterGet
  BY <1>1, <1>3, FaultsAssumption DEF Inv, TypeOK, WaitInv, WaiterGet, GetFails, Fault, NoFault,
     object, mainVars, WaiterResults
<1>4. CASE WaiterWakes
  BY <1>1, <1>4 DEF Inv, TypeOK, WaitInv, WaiterWakes, object, mainVars
<1>5. CASE WaiterSend
  <2>1. errCh = <<>> /\ wres \in WaiterResults
    BY <1>1, <1>5 DEF TypeOK, WaitInv, WaiterSend
  <2>2. errCh' \in Seq(WaiterResults) /\ Len(errCh') = 1 /\ errCh'[1] = wres /\ errCh' # <<>>
    BY <1>1, <1>5, <2>1, ChannelFacts DEF WaiterSend
  <2> QED
    BY <1>1, <1>5, <2>1, <2>2 DEF Inv, TypeOK, WaitInv, WaiterSend, object, mainVars,
       WaiterResults
<1> QED
  BY <1>2, <1>3, <1>4, <1>5 DEF WaiterNext

LEMMA ErrorOnType == ErrorOn \in {"nil", "ece", "error"}
BY DEF ErrorOn

\* A wait begins: its channel is empty and nothing is known of its result.
LEMMA RunKeeps ==
  ASSUME Inv, NEW thing \in {"rollout", "conditions", "fields"}, thing \in asked, main = "start",
         Run(thing), UNCHANGED <<asked, err, now, object, faults>>,
         thing # "rollout" => "unparsable" \notin asked,
         thing = "fields" => "conditions" \notin asked
  PROVE  Inv'
<1>1. TypeOK /\ WaitInv /\ errCh = <<>> /\ result = "none"
  BY DEF Inv, WaitInv
<1>2. TypeOK'
  BY <1>1 DEF TypeOK, Run, object
<1>3. WaitInv'
  BY <1>1 DEF WaitInv, Run, object
<1> QED
  BY <1>2, <1>3 DEF Inv

\* After the last wait all that is awaited has been seen.
LEMMA AllMet ==
  ASSUME Inv, NoMoreWaits
  PROVE  Promise!Awaited \subseteq Met /\ waiter \in {"off", "done"}
<1>1. asked \subseteq {"rollout"}
  BY BlocksAssumption DEF Inv, TypeOK, NoMoreWaits, Things, Matchers
<1>2. "rollout" \in asked => waitFor = "rollout" /\ wres = "nil"
  BY DEF Inv, WaitInv, NoMoreWaits, RolloutIsNext
<1>3. waiter \in {"off", "done"}
  BY DEF Inv, WaitInv, NoMoreWaits
<1> QED
  BY <1>1, <1>2, <1>3 DEF Promise!Awaited, Met

LEMMA MainKeeps == ASSUME Inv, MainNext PROVE Inv'
<1>1. TypeOK /\ WaitInv
  BY DEF Inv
<1>2. CASE StartRollout
  BY <1>2, RunKeeps DEF StartRollout, RolloutIsNext
<1>3. CASE StartMatchers
  <2> DEFINE thing == IF "conditions" \in asked THEN "conditions" ELSE "fields"
  <2>1. thing \in asked /\ main = "start"
    BY <1>3 DEF StartMatchers, MatchersAreNext, Matchers
  <2>2. Run(thing) /\ "unparsable" \notin asked /\ UNCHANGED <<asked, err, now, object, faults>>
    BY <1>3 DEF StartMatchers
  <2>3. thing \in {"rollout", "conditions", "fields"} /\ (thing = "fields" => "conditions" \notin asked)
    OBVIOUS
  <2> HIDE DEF thing
  <2> QED
    BY <2>1, <2>2, <2>3, RunKeeps
<1>4. CASE StartFails
  <2>1. main = "start" /\ main' = "returned" /\ result' = "error"
    BY <1>4 DEF StartFails, ReturnWith, RolloutIsNext, MatchersAreNext, NoMoreWaits
  <2>2. faults' \in 0..MaxFaults
    BY <1>1, <1>4, FaultsAssumption DEF StartFails, Fault, NoFault, TypeOK
  <2> QED
    BY <1>1, <1>4, <2>1, <2>2 DEF Inv, TypeOK, WaitInv, StartFails, object, waiterVars
<1>5. CASE StartCheck
  <2>1. /\ Promise!Awaited \subseteq Met /\ waiter \in {"off", "done"}
        /\ Met' = Met /\ Promise!Awaited' = Promise!Awaited
    BY <1>5, AllMet, MetStays DEF StartCheck, waiterVars
  <2> QED
    BY <1>1, <1>5, <2>1
    DEF Inv, TypeOK, WaitInv, StartCheck, NoMoreWaits, ReturnWith, object, waiterVars
<1>6. CASE Receive
  <2>1. Len(errCh) = 1 /\ errCh' = <<>> /\ Head(errCh) = wres
    BY <1>1, <1>6, ChannelFacts DEF Receive, WaitInv
  <2>2. waiter = "done" /\ result = "none" /\ main \in {"select", "plain"}
    BY <1>1, <1>6 DEF Receive, WaitInv, TypeOK
  <2>3. errCh' \in Seq(WaiterResults) /\ Len(errCh') <= 1
    BY <2>1
  <2>4. \/ wres = "nil" /\ waitFor = "rollout" /\ main' = "start" /\ result' = result
        \/ main' = "returned" /\ result' \in {"nil", "error"}
    BY <1>6, <2>1 DEF Receive, WaitDone, ReturnWith
  <2>5. UNCHANGED <<asked, err, now, ready, failing, faults, ticked, waitFor, waiter, wake, wres>>
    BY <1>6 DEF Receive, object
  <2>6. TypeOK'
    BY <1>1, <2>3, <2>4, <2>5 DEF TypeOK
  <2>7. WaitInv'
    BY <1>1, <2>1, <2>2, <2>4, <2>5 DEF WaitInv
  <2> QED
    BY <2>6, <2>7 DEF Inv
<1>7. CASE TickerFires \/ ContextDone
  BY <1>1, <1>7 DEF Inv, TypeOK, WaitInv, TickerFires, ContextDone, ReturnWith, object,
     waiterVars
<1>8. CASE CheckTick \/ CheckOnce
  <2>1. faults' \in 0..MaxFaults
    BY <1>1, <1>8, FaultsAssumption DEF CheckTick, CheckOnce, GetFails, Fault, NoFault, TypeOK
  <2>2. \/ main = "tick" /\ main' = "select" /\ result' = result
        \/ main \in {"tick", "once"} /\ main' = "returned" /\ result' \in {"nil", "ece", "error"}
    BY <1>8, ErrorOnType DEF CheckTick, CheckOnce, ReturnWith
  <2> QED
    BY <1>1, <1>8, <2>1, <2>2 DEF Inv, TypeOK, WaitInv, CheckTick, CheckOnce, object, waiterVars
<1> QED
  BY <1>2, <1>3, <1>4, <1>5, <1>6, <1>7, <1>8 DEF MainNext

LEMMA NextInv == Inv /\ [Next]_vars => Inv'
<1> SUFFICES ASSUME Inv, [Next]_vars PROVE Inv'
  OBVIOUS
<1>1. CASE Tick
  BY <1>1, TimesAssumption, MetStays DEF Inv, TypeOK, WaitInv, Tick, object, waiterVars
<1>2. CASE ObjectChanges
  <2>1. ready' \subseteq asked /\ failing' \subseteq EntriesOf(err)
    BY <1>2 DEF Inv, TypeOK, ObjectChanges, Toggled
  <2> QED
    BY <1>2, <2>1, MetStays DEF Inv, TypeOK, WaitInv, ObjectChanges, mainVars, waiterVars
<1>3. CASE UNCHANGED vars
  BY <1>3, MetStays DEF Inv, TypeOK, WaitInv, vars, object, mainVars, waiterVars
<1> QED
  BY <1>1, <1>2, <1>3, WaiterKeeps, MainKeeps DEF Next, Done

-----------------------------------------------------------------------------

LEMMA InitPromise == Init => Promise!Init
BY DEF Init, Promise!Init, Met, EntriesOf

\* Every step is one of the promise, or changes nothing of it.
LEMMA StepPromise == Inv /\ [Next]_vars => [Promise!Next]_Promise!vars
<1> SUFFICES ASSUME Inv, [Next]_vars PROVE Promise!Next \/ UNCHANGED Promise!vars
  OBVIOUS
<1>1. TypeOK /\ WaitInv
  BY DEF Inv
<1>2. CASE WaiterGet
  <2>1. CASE Seen /\ wres' = "nil" /\ UNCHANGED <<asked, err, object, mainVars, waitFor>>
    <3>1. waitFor \in ready /\ waitFor \in asked /\ wres = "none" /\ waitFor # "none"
      BY <1>1, <1>2, <2>1 DEF Seen, WaitInv, TypeOK, WaiterGet
    <3>2. Met' = Met \cup {waitFor}
      BY <2>1, <3>1 DEF Met
    <3>3. waitFor = "rollout" \/ "rollout" \notin asked \/ "rollout" \in Met
      BY <1>1, <3>1 DEF Met, TypeOK
    <3>4. Promise!Look(waitFor)
      BY <2>1, <3>1, <3>2, <3>3 DEF Promise!Look, object, mainVars
    <3> QED
      BY <3>1, <3>4 DEF Promise!Next
  <2>2. CASE wres' # "nil"
    <3>1. wres = "none" /\ UNCHANGED <<asked, err, ready, failing, result, waitFor>>
      BY <1>1, <1>2 DEF WaiterGet, WaitInv, object, mainVars
    <3>2. Met' = Met
      BY <2>2, <3>1 DEF Met
    <3> QED
      BY <3>1, <3>2 DEF Promise!vars
  <2> QED
    BY <1>1, <1>2, <2>1, <2>2 DEF WaiterGet, WaitInv
<1>3. CASE WaiterTop \/ WaiterWakes \/ WaiterSend
  <2>1. UNCHANGED <<asked, err, ready, failing, result, waitFor>> /\ (wres = "nil" <=> wres' = "nil")
    BY <1>1, <1>3 DEF WaiterTop, WaiterWakes, WaiterSend, WaitInv, object, mainVars
  <2>2. Met' = Met
    BY <2>1 DEF Met
  <2> QED
    BY <2>1, <2>2 DEF Promise!vars
<1>4. CASE Tick \/ UNCHANGED vars
  BY <1>4, MetStays DEF Tick, vars, Promise!vars, object, mainVars, waiterVars
<1>5. CASE ObjectChanges
  <2>1. ready' \subseteq asked /\ failing' \subseteq EntriesOf(err)
    BY <1>1, <1>5 DEF TypeOK, ObjectChanges, Toggled
  <2>2. Promise!Object
    BY <1>5, <2>1, MetStays DEF ObjectChanges, Promise!Object, mainVars, waiterVars, EntriesOf
  <2> QED
    BY <2>2 DEF Promise!Next
<1>6. ASSUME UNCHANGED <<asked, err, ready, failing, waitFor, wres>>, result = "none",
             NEW r \in {"nil", "ece", "error"}, result' = r,
             r = "nil" => Promise!Awaited \subseteq Met,
             r = "ece" => "match" \in failing
      PROVE  Promise!Next
  <2>1. Met' = Met
    BY <1>6, MetStays
  <2> QED
    BY <1>6, <2>1 DEF Promise!Next, Promise!Return, Promise!Results
<1>7. CASE StartRollout \/ StartMatchers
  <2> DEFINE thing == IF StartRollout THEN "rollout"
                      ELSE IF "conditions" \in asked THEN "conditions" ELSE "fields"
  <2>1. /\ main = "start" /\ waitFor' = thing /\ wres' = "none"
        /\ UNCHANGED <<asked, err, ready, failing, result>>
        /\ IF thing = "rollout" THEN waitFor = "none"
           ELSE "rollout" \in asked => waitFor # "none"
    BY <1>7 DEF StartRollout, StartMatchers, RolloutIsNext, MatchersAreNext, Run, object
  <2>2. \/ waitFor = "none" /\ wres = "none"
        \/ waitFor = "rollout" /\ wres = "nil"
    BY <1>1, <2>1 DEF WaitInv
  <2>3. Met' = Met
    BY <2>1, <2>2 DEF Met
  <2> QED
    BY <2>1, <2>3 DEF Promise!vars
<1>8. CASE StartFails \/ StartCheck \/ TickerFires \/ ContextDone \/ CheckTick \/ CheckOnce
  <2>1. result = "none" /\ UNCHANGED <<asked, err, ready, failing, waitFor, wres>>
    BY <1>1, <1>8 DEF StartFails, StartCheck, RolloutIsNext, MatchersAreNext, NoMoreWaits,
       TickerFires, ContextDone, CheckTick, CheckOnce, WaitInv, object, waiterVars
  <2>2. CASE result' = result
    BY <2>1, <2>2, MetStays DEF Promise!vars
  <2>3. CASE result' = "error"
    BY <1>6, <2>1, <2>3
  <2>4. CASE result' = "ece"
    <3>1. ErrorOn = "ece"
      BY <1>8, <2>1, <2>4 DEF StartFails, StartCheck, TickerFires, ContextDone, CheckTick,
         CheckOnce, ReturnWith
    <3>2. "match" \in failing
      BY <3>1 DEF ErrorOn, Decides
    <3> QED
      BY <1>6, <2>1, <2>4, <3>2
  <2>5. CASE result' = "nil"
    <3>1. Promise!Awaited \subseteq Met
      BY <1>1, <1>8, <2>1, <2>5, AllMet DEF StartFails, StartCheck, TickerFires, ContextDone,
         CheckTick, CheckOnce, ReturnWith, WaitInv
    <3> QED
      BY <1>6, <2>1, <2>5, <3>1
  <2> QED
    BY <1>8, <2>2, <2>3, <2>4, <2>5, ErrorOnType DEF StartFails, StartCheck, TickerFires,
       ContextDone, CheckTick, CheckOnce, ReturnWith
<1>9. CASE Receive
  <2>1. Head(errCh) = wres /\ result = "none" /\ waiter # "off"
    BY <1>1, <1>9, ChannelFacts DEF Receive, WaitInv
  <2>2. UNCHANGED <<asked, err, ready, failing, waitFor, wres>>
    BY <1>9 DEF Receive, object
  <2>3. CASE result' = result
    BY <2>2, <2>3, MetStays DEF Promise!vars
  <2>4. CASE result' = "error"
    BY <1>6, <2>1, <2>2, <2>4
  <2>5. CASE result' = "nil"
    <3>1. wres = "nil" /\ waitFor # "rollout" /\ waitFor \in asked /\ waitFor # "none"
      BY <1>1, <1>9, <2>1, <2>5 DEF Receive, WaitDone, ReturnWith, WaitInv
    <3>2. waitFor \in {"conditions", "fields"} /\ asked \subseteq Things
      BY <1>1, <3>1, BlocksAssumption DEF TypeOK
    <3>3. "unparsable" \notin asked /\ (waitFor = "fields" => "conditions" \notin asked)
      BY <1>1, <3>2 DEF WaitInv
    <3>4. Promise!Awaited \subseteq Met
      BY <3>1, <3>2, <3>3 DEF Promise!Awaited, Met, Things, Matchers
    <3> QED
      BY <1>6, <2>1, <2>2, <2>5, <3>4
  <2> QED
    BY <1>9, <2>3, <2>4, <2>5 DEF Receive, WaitDone, ReturnWith
<1> QED
  BY <1>2, <1>3, <1>4, <1>5, <1>7, <1>8, <1>9 DEF Next, WaiterNext, MainNext, Done

\* Every variable keeps its type; the channel holds one result at most.
THEOREM TypeCorrect == Spec => []TypeOK
<1>1. Inv => TypeOK
  BY DEF Inv
<1> QED
  BY <1>1, InitInv, NextInv, PTL DEF Spec

\* However the waiter's result, the ticker and the deadline race, applyManifest reports
\* no success before the rollout and then the conditions, or else the fields, of the wait
\* block have been seen, and no error condition the object is not in
\* (manifest_resource.go:2088-2243).
THEOREM WaitImplementsPromise == Spec => PromiseKept
<1>1. Init => Promise!Init
  BY InitPromise
<1>2. Inv /\ [Next]_vars => [Promise!Next]_Promise!vars
  BY StepPromise
<1> QED
  BY <1>1, <1>2, InitInv, NextInv, PTL DEF Spec, PromiseKept, Promise!Spec
===============================================================================
